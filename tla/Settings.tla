------------------------------ MODULE Settings ------------------------------
(***************************************************************************)
(* The configuration as a value: what a file or a row decodes to and what  *)
(* Validate accepts (internal/config/config.go), what PUT /api/config      *)
(* makes of it (internal/admin/api.go), and the CoreDNS server block that  *)
(* is generated from it (internal/coredns/corefile.go).                    *)
(*                                                                         *)
(* A payload, YAML or JSON, and a request are functions on the keys they   *)
(* have; a configuration is one on all keys.  Texts are members of small   *)
(* sets; the blanks that the code trims are not there.                     *)
(***************************************************************************)
EXTENDS Integers, Sequences, FiniteSets

CONSTANTS
    MaxCacheSuccessTTL, MaxCacheDenialTTL, DefaultCacheDenialTTL,
    DefaultCapacity, MinCacheCapacity, DefaultReadConnections,
    Tokens,    \* texts without blanks and braces
    Regexes,   \* those that compile
    Schemed,   \* addresses that name their scheme
    RRTypes, RCodes, TTLRanges

SettingsAssumption ==
    /\ MaxCacheDenialTTL \in Nat /\ MaxCacheSuccessTTL \in Nat
    /\ DefaultCacheDenialTTL \in 1 .. MaxCacheDenialTTL
    /\ MinCacheCapacity \in Nat \ {0}
    /\ DefaultCapacity \in Nat /\ DefaultCapacity >= MinCacheCapacity
    /\ DefaultReadConnections \in Nat \ {0}
    /\ Regexes \subseteq Tokens /\ Schemed \subseteq Tokens /\ "" \notin Tokens

NoForwarding == [enabled |-> FALSE, domain |-> "", resolver |-> "", protocol |-> ""]

Default == [
    listen |-> ":53", admin |-> ":8080", connections |-> DefaultReadConnections,
    resolvers |-> << [address |-> "1.1.1.1", protocol |-> "udp", enabled |-> TRUE] >>,
    cacheTTL |-> 0, success |-> MaxCacheSuccessTTL, denial |-> DefaultCacheDenialTTL,
    capacity |-> DefaultCapacity,
    dnssec |-> [enabled |-> FALSE, mode |-> "off"], conditional |-> NoForwarding,
    rewrites |-> <<>>, response |-> "null-ip", bundled |-> TRUE, lists |-> {},
    level |-> "info", format |-> "text"]

Nested == {"dnssec", "conditional"}

IsFunction(f) == f = [x \in DOMAIN f |-> f[x]]

(* Some of the keys, and of the nested ones some of theirs.                *)
IsPayload(payload) ==
    /\ IsFunction(payload) /\ DOMAIN payload \subseteq DOMAIN Default
    /\ \A key \in Nested \cap DOMAIN payload :
        IsFunction(payload[key]) /\ DOMAIN payload[key] \subseteq DOMAIN Default[key]
    /\ "resolvers" \in DOMAIN payload =>
        /\ IsFiniteSet(DOMAIN payload.resolvers) /\ DOMAIN payload.resolvers \subseteq Nat
        /\ \A k \in DOMAIN payload.resolvers : IsFunction(payload.resolvers[k])
    /\ "capacity" \in DOMAIN payload => payload.capacity \in Int

(* What the first has, and for the rest what the second has.               *)
Over(first, second) ==
    [x \in DOMAIN first \cup DOMAIN second |-> IF x \in DOMAIN first THEN first[x] ELSE second[x]]

-----------------------------------------------------------------------------
(* Decoding over the defaults.  A list replaces the default one, and a     *)
(* resolver in it is disabled unless it says otherwise; but JSON decodes   *)
(* the elements of a row into those of the default list, as long as there  *)
(* are some, and what an element leaves out it takes from there.           *)
Blank(enabled) == [address |-> "", protocol |-> "", enabled |-> enabled]

Listed(resolvers, enabled) ==
    [k \in DOMAIN resolvers |-> Over(resolvers[k], Blank(enabled))]

ListedInRow(resolvers) ==
    [k \in DOMAIN resolvers |->
        Over(resolvers[k], IF k \in DOMAIN Default.resolvers THEN Default.resolvers[k] ELSE Blank(FALSE))]

Decode(payload, resolvers) ==
    [key \in DOMAIN Default |->
        IF key \notin DOMAIN payload THEN Default[key]
        ELSE IF key \in Nested THEN Over(payload[key], Default[key])
        ELSE IF key = "resolvers" THEN resolvers
        ELSE payload[key]]

(* A payload with only the deprecated cache_ttl means both.                *)
normalizeLegacyCacheConfig(cfg, payload) ==
    IF "cacheTTL" \in DOMAIN payload /\ DOMAIN payload \cap {"success", "denial"} = {}
    THEN [cfg EXCEPT !.success = cfg.cacheTTL, !.denial = cfg.cacheTTL]
    ELSE cfg

FromFile(payload) ==
    normalizeLegacyCacheConfig(Decode(payload, Listed(payload.resolvers, FALSE)), payload)
FromRow(payload) ==
    normalizeLegacyCacheConfig(Decode(payload, ListedInRow(payload.resolvers)), payload)

(* Mutant: every zero is omitted, like that of cache_ttl.                  *)
EncodeOmittingZeros(cfg) ==
    [key \in {k \in DOMAIN cfg : k \in {"cacheTTL", "success", "denial"} => cfg[k] # 0} |-> cfg[key]]

(* json.Marshal: cache_ttl alone is omitted when it is zero.               *)
Encode(cfg) ==
    [key \in {k \in DOMAIN cfg : k = "cacheTTL" => cfg[k] # 0} |-> cfg[key]]

-----------------------------------------------------------------------------
EffectiveCacheSuccessTTL(cfg) ==
    IF cfg.success > 0 \/ cfg.denial > 0 THEN cfg.success ELSE cfg.cacheTTL
EffectiveCacheDenialTTL(cfg) ==
    IF cfg.success > 0 \/ cfg.denial > 0 THEN cfg.denial ELSE cfg.cacheTTL
CacheEnabled(cfg) == EffectiveCacheSuccessTTL(cfg) > 0 \/ EffectiveCacheDenialTTL(cfg) > 0

EffectiveMode(d) == IF d.enabled THEN (IF d.mode = "" THEN "upstream" ELSE d.mode) ELSE "off"
EffectiveLevel(cfg) ==
    CASE cfg.level = "debug" -> "debug"
      [] cfg.level \in {"warn", "warning"} -> "warn"
      [] cfg.level = "error" -> "error"
      [] OTHER -> "info"
EffectiveFormat(cfg) == IF cfg.format = "json" THEN "json" ELSE "text"

-----------------------------------------------------------------------------
ValidCache(cfg) ==
    /\ cfg.cacheTTL \in 0 .. MaxCacheDenialTTL
    /\ EffectiveCacheSuccessTTL(cfg) \in 0 .. MaxCacheSuccessTTL
    /\ EffectiveCacheDenialTTL(cfg) \in 0 .. MaxCacheDenialTTL
    /\ CacheEnabled(cfg) =>
        /\ EffectiveCacheSuccessTTL(cfg) > 0
        /\ EffectiveCacheDenialTTL(cfg) > 0
        /\ cfg.capacity >= MinCacheCapacity

ValidDNSSEC(d) ==
    /\ d.mode \in {"", "off", "upstream"}
    /\ IF d.enabled THEN d.mode # "off" ELSE d.mode # "upstream"

Protocols == {"", "udp", "dns", "tcp", "tls", "https"}

(* Those of a list that are enabled, in its order.                         *)
Used(entries) ==
    LET on == {k \in DOMAIN entries : entries[k].enabled}
        place(k) == Cardinality({j \in on : j <= k})
    IN  [n \in 1 .. Cardinality(on) |-> entries[CHOOSE k \in on : place(k) = n]]

ValidResolvers(resolvers) ==
    LET used == Used(resolvers) IN
    /\ used # <<>>
    /\ \A k \in DOMAIN used : used[k].address \in Tokens /\ used[k].protocol \in Protocols
    /\ \A j, k \in DOMAIN used : used[j].protocol = "tcp" => used[k].protocol = "tcp"

ValidForwarding(c) ==
    c.enabled => c.domain \in Tokens /\ c.resolver \in Tokens /\ c.protocol \in Protocols

Matches == {"", "exact", "prefix", "suffix", "substring", "regex"}
ValidAnswer(r) ==
    \/ r.answerMode \in {"", "none", "auto"}
    \/ r.answerMode \in {"name", "value"} /\ r.answerFrom \in Regexes /\ r.answerTo \in Tokens
ValidRewrite(r) ==
    r.enabled =>
        /\ r.mode \in {"", "stop", "continue"}
        /\ \/ r.field = "type" /\ {r.from, r.to} \subseteq RRTypes
           \/ /\ r.match \in Matches
              /\ r.from \in (IF r.match = "regex" THEN Regexes ELSE Tokens)
              /\ \/ r.field = "name" /\ r.to \in Tokens /\ ValidAnswer(r)
                 \/ r.field = "ttl" /\ r.to \in TTLRanges
                 \/ r.field = "rcode" /\ {r.rcodeFrom, r.rcodeTo} \subseteq RCodes

Validate(cfg) ==
    /\ cfg.listen # "" /\ cfg.admin # ""
    /\ cfg.connections >= 1
    /\ cfg.level \in {"", "debug", "info", "warn", "warning", "error"}
    /\ cfg.format \in {"", "text", "json"}
    /\ ValidCache(cfg)
    /\ ValidDNSSEC(cfg.dnssec)
    /\ ValidResolvers(cfg.resolvers)
    /\ ValidForwarding(cfg.conditional)
    /\ \A k \in DOMAIN cfg.rewrites : ValidRewrite(cfg.rewrites[k])
    /\ cfg.response \in {"nxdomain", "null-ip", "refused"}

-----------------------------------------------------------------------------
(* One key of the two brings the other along.                              *)
dnssecUpdateToConfig(current, update) ==
    [enabled |->
        IF "enabled" \in DOMAIN update THEN update.enabled
        ELSE IF "mode" \in DOMAIN update /\ update.mode \in {"upstream", "off"}
        THEN update.mode = "upstream"
        ELSE current.enabled,
     mode |->
        IF "mode" \in DOMAIN update THEN update.mode
        ELSE IF "enabled" \in DOMAIN update
        THEN IF update.enabled THEN "upstream" ELSE "off"
        ELSE current.mode]

conditionalForwardingUpdateToConfig(current, update) ==
    LET next == Over(update, current) IN IF next.enabled THEN next ELSE NoForwarding

resolverUpdatesToConfig(updates) == Listed(updates, TRUE)

applyConfigUpdate(cfg, req) ==
    LET asked == [key \in DOMAIN req |->
                    CASE key = "dnssec" -> dnssecUpdateToConfig(cfg.dnssec, req.dnssec)
                      [] key = "conditional" ->
                            conditionalForwardingUpdateToConfig(cfg.conditional, req.conditional)
                      [] key = "resolvers" -> resolverUpdatesToConfig(req.resolvers)
                      [] OTHER -> req[key]]
        ttls == IF "cacheTTL" \in DOMAIN req THEN {"success", "denial"} ELSE {}
    IN  Over(asked, Over([key \in ttls |-> req.cacheTTL], cfg))

-----------------------------------------------------------------------------
resolverTarget(r) ==
    [scheme |-> IF r.address \notin Schemed /\ r.protocol \in {"tls", "https", "dns"}
                THEN r.protocol ELSE "",
     address |-> r.address]

writeForward(from, resolvers) ==
    LET used == Used(resolvers) IN
    [from |-> from,
     targets |-> [k \in DOMAIN used |-> resolverTarget(used[k])],
     forceTCP |-> \E k \in DOMAIN used : used[k].protocol = "tcp"]

writeRewrites(rules) == Used(rules)

writeQueryLogging(cfg) ==
    IF EffectiveLevel(cfg) = "debug" THEN EffectiveFormat(cfg) ELSE "none"

Corefile(cfg) ==
    [listen |-> cfg.listen,
     log |-> writeQueryLogging(cfg),
     cache |-> IF CacheEnabled(cfg)
               THEN << EffectiveCacheSuccessTTL(cfg), EffectiveCacheDenialTTL(cfg), cfg.capacity >>
               ELSE <<>>,
     dnssec |-> EffectiveMode(cfg.dnssec) = "upstream",
     rewrites |-> writeRewrites(cfg.rewrites),
     forwards |->
        LET c == cfg.conditional IN
        (IF c.enabled
         THEN << writeForward(c.domain, << [address |-> c.resolver, protocol |-> c.protocol,
                                            enabled |-> TRUE] >>) >>
         ELSE <<>>) \o << writeForward(".", cfg.resolvers) >>]
=============================================================================
