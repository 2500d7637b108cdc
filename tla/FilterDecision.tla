--------------------------- MODULE FilterDecision ---------------------------
(***************************************************************************)
(* The decision about one query, as the DNS runtime makes it from its      *)
(* snapshots (internal/filter/runtime.go) and as the preview makes it from *)
(* the tables (Service.Decide in internal/filter/service.go).              *)
(*                                                                         *)
(* A pattern is [type, name]; the name of a regular expression stands for  *)
(* its text and Language gives the names it matches.  An address is        *)
(* [ip, mapped], mapped when an IPv4 address arrives in its IPv6 form; a   *)
(* client's row has a text, [ip, form], in whatever form it was typed.     *)
(***************************************************************************)
EXTENDS Blocklist, FilterTables

CONSTANTS
    Addresses,  \* of the machines, as queries and previews have them
    Language    \* from regular expressions to sets of names

matchesPattern(d, p) ==
    \/ p.type = "exact" /\ d = p.name
    \/ p.type = "suffix" /\ Under(d, p.name)
    \/ p.type = "regex" /\ d \in Language[p.name]

inScope(group, groups) == group = 0 \/ group \in groups

(* A decision names the rule it is due to, or the list, or nothing.        *)
Decision(action, by, id) == [action |-> action, by |-> by, id |-> id]
actionForKind(kind) == IF kind = "allow" THEN "allow" ELSE "block"

Least(S) == CHOOSE x \in S : \A y \in S : x <= y

(* The first alternative that decides, each a set of at most one decision. *)
FirstOf(alternatives, otherwise) ==
    LET decides == {k \in 1 .. Len(alternatives) : alternatives[k] # {}}
    IN  IF decides = {} THEN otherwise
        ELSE CHOOSE d \in alternatives[Least(decides)] : TRUE

(* The first rule of a kind and match type, in the order of their ids.     *)
firstMatchingRule(rows, groups, d, kind, type) ==
    LET hits == {r \in rows :
                    /\ r.rule.enabled
                    /\ r.rule.kind = kind
                    /\ r.rule.pattern.type = type
                    /\ inScope(r.group, groups)
                    /\ matchesPattern(d, r.rule.pattern)}
    IN  IF hits = {} THEN {}
        ELSE {Decision(actionForKind(kind), "rule", Least({r.id : r \in hits}))}

firstMatchingEntry(rows, groups, d, kind) ==
    LET hits == {e \in rows :
                    /\ e.enabled
                    /\ e.kind = kind
                    /\ inScope(e.group, groups)
                    /\ matchesPattern(d, e.pattern)}
    IN  IF hits = {} THEN {}
        ELSE {Decision(actionForKind(kind), "list", Least({e.list : e \in hits}))}

-----------------------------------------------------------------------------
(* How net/netip prints an address: in one form of the many that it reads. *)
String(a) == [ip |-> a.ip, form |-> IF a.mapped THEN "mapped" ELSE "plain"]
Unmap(a) == [a EXCEPT !.mapped = FALSE]

(* RuleDecider.Reload: the groups under the text of each client.  Of these *)
(* texts a query finds those that are printed addresses; under one that no *)
(* client has there are no groups.                                         *)
RuleSnapshot(db) ==
    [rules |-> decisionRules(db),
     clients |-> [text \in {String(Unmap(a)) : a \in Addresses} |-> clientGroupIDs(db, text)]]

(* RuleDecider.Decide over Manager.Decide.  The verdict of the blocklists  *)
(* stands between the exact and the other deny rules, and an entry that    *)
(* allows decides there, as the caller's test of the reason does.          *)
RuntimeDecide(snapshot, matcher, a, d) ==
    LET rule(kind, type) ==
            firstMatchingRule(snapshot.rules, snapshot.clients[String(Unmap(a))], d, kind, type)
        verdict == MatcherDecide(matcher, d)
        lists == IF verdict = "none" THEN {} ELSE {Decision(verdict, "list", 0)}
    IN  FirstOf(<<rule("allow", "exact"), rule("allow", "regex"), rule("allow", "suffix"),
                  rule("deny", "exact"), lists,
                  rule("deny", "regex"), rule("deny", "suffix")>>,
                Decision("allow", "nothing", 0))

(* Mutant: lists that deny are asked first.                                *)
PreviewDenyFirst(db, a, d) ==
    LET groups == clientGroupIDs(db, String(a))
        rule(kind, type) == firstMatchingRule(decisionRules(db), groups, d, kind, type)
        entry(kind) == firstMatchingEntry(decisionEntries(db), groups, d, kind)
    IN  FirstOf(<<rule("allow", "exact"), rule("allow", "regex"), rule("allow", "suffix"),
                  rule("deny", "exact"), entry("deny"), entry("allow"),
                  rule("deny", "regex"), rule("deny", "suffix")>>,
                Decision("none", "nothing", 0))

(* Service.Decide: the same order over what the tables say now.            *)
PreviewDecide(db, a, d) ==
    LET groups == clientGroupIDs(db, String(a))
        rule(kind, type) == firstMatchingRule(decisionRules(db), groups, d, kind, type)
        entry(kind) == firstMatchingEntry(decisionEntries(db), groups, d, kind)
    IN  FirstOf(<<rule("allow", "exact"), rule("allow", "regex"), rule("allow", "suffix"),
                  rule("deny", "exact"), entry("allow"), entry("deny"),
                  rule("deny", "regex"), rule("deny", "suffix")>>,
                Decision("none", "nothing", 0))
=============================================================================
