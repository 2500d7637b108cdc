----------------------------- MODULE Blocklist -----------------------------
(***************************************************************************)
(* What a blocklist file means and what a matcher built from it decides    *)
(* (internal/blocklist).                                                   *)
(*                                                                         *)
(* A domain name is the sequence of its labels.  A line of a file is the   *)
(* sequence of its fields after the comment has been cut, with a mark for  *)
(* cosmetic Adblock filters; a field is an address, or a name in one of    *)
(* the forms "plain" (ads.com), "wildcard" ( *.ads.com) and "adblock"      *)
(* (||ads.com^).  Anything else in a field is a malformed plain name.      *)
(***************************************************************************)
EXTENDS Naturals, Sequences

CONSTANTS
    Names,      \* domain names
    Malformed,  \* those that validDomain refuses
    LocalNames, \* those that hosts files give to the machine itself
    Bundled     \* the entries of the bundled list, empty when it is disabled

ASSUME BlocklistAssumption == Malformed \subseteq Names /\ LocalNames \subseteq Names

-----------------------------------------------------------------------------
validDomain(name) == name \notin Malformed
validBlocklistDomain(name) == validDomain(name) /\ name \notin LocalNames

(* The entries of one field, none or one.                                  *)
normalizeEntryDomain(field) ==
    IF field.form = "address" \/ ~validBlocklistDomain(field.name)
    THEN {}
    ELSE {[domain |-> field.name,
           kind |-> IF field.form = "plain" THEN "exact" ELSE "suffix"]}

(* A cosmetic filter means nothing to DNS.  After an address every field   *)
(* is a name; without one, a line of several fields is not a hosts line.   *)
parseLine(line) ==
    LET fields == line.fields
        hosts == fields # <<>> /\ Head(fields).form = "address"
        named == IF hosts THEN Tail(fields)
                 ELSE IF Len(fields) = 1 THEN fields ELSE <<>>
    IN  IF line.cosmetic
        THEN {}
        ELSE UNION {normalizeEntryDomain(named[k]) : k \in 1 .. Len(named)}

Parse(lines) == UNION {parseLine(lines[k]) : k \in 1 .. Len(lines)}

-----------------------------------------------------------------------------
(* d is the name p or lies below it.                                       *)
Under(d, p) == \E k \in 1 .. Len(d) : SubSeq(d, k, Len(d)) = p

(* The matcher keeps four sets of names; here they are one set of entries  *)
(* [domain, kind, allow] without those that normalizeStoredEntry refuses.  *)
NewMatcher(entries) ==
    {e \in entries \cup Bundled :
        /\ e.kind \in {"exact", "suffix"}
        /\ validBlocklistDomain(e.domain)}

matches(entries, d) ==
    \E e \in entries :
        \/ e.kind = "exact" /\ e.domain = d
        \/ e.kind = "suffix" /\ Under(d, e.domain)

(* "allow" and "block" when an entry matches, "none" when none does.       *)
MatcherDecide(matcher, d) ==
    IF ~validDomain(d)
    THEN "none"
    ELSE IF matches({e \in matcher : e.allow}, d)
    THEN "allow"
    ELSE IF matches({e \in matcher : ~e.allow}, d) THEN "block" ELSE "none"
=============================================================================
