--------------------------- MODULE MCFilterStore ---------------------------
(* A small instance of FilterStore for TLC: edits of rules, clients,       *)
(* groups, lists and entries, and refreshes, over tables an earlier run    *)
(* has left.                                                               *)
EXTENDS FilterStore, TLC
CONSTANTS a1, a2, re

ads == <<"ads">>
sub == <<"x", "ads">>
other == <<"y", "ads">>
odd == <<"_", "ads">>
local == <<"localhost">>
filed == <<"filed">>

MCNames == {ads, sub, other, odd, local, filed}
MCMalformed == {odd}
MCLocalNames == {local}
MCBundled == {[domain |-> other, kind |-> "exact", allow |-> FALSE]}
MCAddresses == [ip : {a1, a2}, mapped : {FALSE}] \cup {[ip |-> a1, mapped |-> TRUE]}
MCLanguage == re :> {sub, odd}

Text(ip, form) == [ip |-> ip, form |-> form]

exactly(name) == [type |-> "exact", name |-> name]
below(name) == [type |-> "suffix", name |-> name]
regex == [type |-> "regex", name |-> re]

Listing(kind, enabled) == [kind |-> kind, enabled |-> enabled]
Entry(list, pattern) == [list |-> list, pattern |-> pattern, enabled |-> TRUE]
Rule(kind, pattern, enabled) == [kind |-> kind, pattern |-> pattern, enabled |-> enabled]

OneClient ==
    [CreateClient(CreateGroup(Empty, [enabled |-> TRUE]), [address |-> Text(a1, "plain"), enabled |-> TRUE])
        EXCEPT !.clientGroups = {<<1, 1>>}]
WithList(tables, kind) ==
    CreateListEntry(CreateList(tables, Listing(kind, TRUE)), Entry(1, below(ads)))

MCTables == {WithList(OneClient, "allow"), WithList(OneClient, "deny"),
             CreateRule(OneClient, Rule("deny", regex, TRUE))}
MCRules == {Rule("deny", below(ads), Absent), Rule("allow", exactly(sub), TRUE),
            Rule("deny", regex, FALSE), Rule("deny", exactly(sub), TRUE)}
MCClients == {[address |-> Text(a2, "plain"), enabled |-> Absent],
              [address |-> Text(a1, "mapped"), enabled |-> TRUE],
              [address |-> Text(a1, "plain"), enabled |-> FALSE]}
MCGroups == {[enabled |-> Absent], [enabled |-> FALSE]}
MCLists == {Listing("allow", Absent), Listing("deny", FALSE)}
MCEntries == {[pattern |-> exactly(sub), enabled |-> Absent],
              [pattern |-> below(ads), enabled |-> FALSE],
              [pattern |-> regex, enabled |-> TRUE]}

Plain(name) == [form |-> "plain", name |-> name]
Address == [form |-> "address", name |-> local]
Wide(name) == [form |-> "adblock", name |-> name]
Line(cosmetic, fields) == [cosmetic |-> cosmetic, fields |-> fields]
MCFiles == {<<Line(FALSE, <<Wide(filed)>>), Line(FALSE, <<Plain(odd)>>)>>}
MCDownloads ==
    {<<Line(FALSE, <<Address, Plain(local), Plain(sub)>>), Line(FALSE, <<>>)>>,
     <<Line(TRUE, <<Plain(ads)>>), Line(FALSE, <<Wide(ads)>>)>>,
     <<Line(FALSE, <<Plain(ads), Plain(sub)>>), Line(FALSE, <<Plain(odd)>>)>>}
=============================================================================
