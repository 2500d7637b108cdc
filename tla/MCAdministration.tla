-------------------------- MODULE MCAdministration --------------------------
(* What the administration keeps, in small instances: files, old rows and  *)
(* requests with few keys each, the deprecated, the rejected and the       *)
(* partial ones too.                                                       *)
EXTENDS Administration, TLC
CONSTANTS t1, t2, s1, s2, k1, k2, h1, h2, h3, p1, p2

Given == INSTANCE Settings WITH Tokens <- Texts

Key(key, value) == [k \in {key} |-> value]
Resolver(protocol) == [address |-> "1.1.1.1", protocol |-> protocol]
On(r) == [enabled |-> TRUE] @@ r
Off(r) == [enabled |-> FALSE] @@ r

FileSet == {Key("success", 0) @@ Key("denial", 0), Key("cacheTTL", 2),
            Key("listen", "nowhere"),
            Key("resolvers", << Resolver("tls") >>)}  \* not enabled: refused

\* The first of two resolvers is enabled, like the default one that it is decoded
\* into; a row with none that is enabled is refused.
RowSet == {Given!Encode(Given!Default), Key("cacheTTL", 1),
           Key("resolvers", << Key("protocol", "tls"), Resolver("tcp") >>),
           Key("resolvers", << Off(Resolver("udp")) >>),
           Key("dnssec", [enabled |-> TRUE, mode |-> ""])}

Rule(field, match, from, to) ==
    [enabled |-> TRUE, mode |-> "", field |-> field, match |-> match, from |-> from, to |-> to,
     rcodeFrom |-> "", rcodeTo |-> "", answerMode |-> "", answerFrom |-> "", answerTo |-> ""]

DNSUpdates ==
    {Key("listen", ":1053"), Key("listen", "nowhere"), Key("cacheTTL", 2), Key("success", 0), Key("capacity", 0),
     Key("success", 0) @@ Key("denial", 0), Key("denial", 2) @@ Key("success", 2),
     Key("success", -1) @@ Key("denial", 1)}
  \cup {Key("resolvers", rs) : rs \in
        {<< Off(Resolver("udp")) >>, << Resolver("tcp") >>, << Resolver("tls"), Off(Resolver("tcp")) >>,
         << On(Resolver("udp")), Resolver("tcp") >>, << [address |-> "https://9.9.9.9/path"] >>}}
  \cup {Key("dnssec", d) : d \in
        {Key("enabled", TRUE), Key("mode", "off"), Key("mode", ""),
         [enabled |-> FALSE, mode |-> "upstream"]}}
  \cup {Key("conditional", c) : c \in
        {[enabled |-> TRUE, domain |-> "lan", resolver |-> "1.1.1.1"], Key("enabled", FALSE),
         Key("protocol", "tcp")}}
  \cup {Key("rewrites", rs) : rs \in
        {<< Rule("name", "regex", "(", "lan") >>,
         << Off(Rule("name", "regex", "(", "lan")), Rule("ttl", "", "lan", "30") >>}}

OtherUpdates ==
    {Key("admin", ":80"), Key("admin", "nowhere"), Key("connections", 0), Key("connections", 2), Key("bundled", FALSE),
     Key("lists", {"hosts"}), Key("response", "refused"), Key("level", "loud"),
     Key("level", "debug"), Key("format", "json"), Key("level", "warning")}

UpdateSet == DNSUpdates \cup OtherUpdates
=============================================================================
