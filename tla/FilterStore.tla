---------------------------- MODULE FilterStore ----------------------------
(***************************************************************************)
(* The filter tables, the handlers that edit them (filter_api.go), the     *)
(* refresh that imports a list (Service.RefreshList), and what is in       *)
(* service after their reloads.                                            *)
(*                                                                         *)
(* FilterReload is about how reloads overlap; here a reload is one step,   *)
(* that succeeds or fails, and the subject is which edits ask for one and  *)
(* what the queries are answered by afterwards.                            *)
(***************************************************************************)
EXTENDS FilterDecision

CONSTANTS
    Absent,        \* a field that the request does not have
    ListInputs,    \* bodies of requests, as rows; enabled may be Absent
    RuleInputs,
    ClientInputs,
    GroupInputs,
    EntryInputs,   \* [pattern, enabled]
    Downloads,     \* contents a list's source may have: sequences of lines
    Files,         \* contents of the blocklist files that the YAML names
    InitialTables, \* what an earlier run may have left
    MaxRows,       \* bound: rows ever created in each table
    MaxEdits       \* bound: committed edits

VARIABLES
    db,       \* the tables
    served,   \* [rules, matcher]: what the runtime decides with
    reload,   \* "done", "due", or "owed": it failed, or nobody asked for it
    put,      \* the PUT in flight: what it has read of its row
    refresh,  \* the list the worker is refreshing, 0 for none
    edits     \* edits committed so far

vars == <<db, served, reload, put, refresh, edits>>

NoPut == [table |-> "none", id |-> 0, enabled |-> FALSE]

-----------------------------------------------------------------------------
(* What the schema keeps of the tables (internal/storage/storage.go): its  *)
(* columns, CHECK constraints and AUTOINCREMENT keys ...                   *)
Kinds == {"allow", "deny"}
MatchTypes == {"exact", "suffix", "regex"}

WellTyped(tables) ==
    /\ DOMAIN tables = DOMAIN Empty
    /\ DOMAIN tables.next = Tables
    /\ \A t \in Tables :
        /\ tables.next[t] \in 1 .. MaxRows + 1
        /\ DOMAIN tables[t] \subseteq 1 .. tables.next[t] - 1
        /\ \A id \in DOMAIN tables[t] : tables[t][id].enabled \in BOOLEAN
    /\ \A id \in DOMAIN tables.lists : tables.lists[id].kind \in Kinds
    /\ \A e \in tables.entries : e.enabled \in BOOLEAN /\ e.pattern.type \in MatchTypes

(* ... its UNIQUE patterns, and its foreign keys.                          *)
EntryFree(e, others) == \A f \in others : ~SameEntry(e, f)

Consistent(tables) ==
    LET refer(pairs, t) ==
            \A p \in pairs : Has(tables, t, p[1]) /\ Has(tables, "groups", p[2])
    IN  /\ refer(tables.listGroups, "lists")
        /\ refer(tables.ruleGroups, "rules")
        /\ refer(tables.clientGroups, "clients")
        /\ \A e \in tables.entries :
            Has(tables, "lists", e.list) /\ EntryFree(e, tables.entries \ {e})

(* The handlers refuse other rows, the bundled list went through the       *)
(* parser, and an earlier run had the same schema.                         *)
Optional == BOOLEAN \cup {Absent}
Rows == ListInputs \cup RuleInputs \cup ClientInputs \cup GroupInputs

ASSUME FilterStoreAssumption ==
    /\ MaxRows \in Nat /\ MaxEdits \in Nat
    /\ \A row \in Rows : "enabled" \in DOMAIN row /\ row.enabled \in Optional
    /\ \A row \in ListInputs : row.kind \in Kinds
    /\ \A a \in Addresses : a = [ip |-> a.ip, mapped |-> a.mapped] /\ a.mapped \in BOOLEAN
    /\ \A row \in EntryInputs : row.enabled \in Optional /\ row.pattern.type \in MatchTypes
    /\ \A e \in Bundled :
        e.kind \in {"exact", "suffix"} /\ validBlocklistDomain(e.domain) /\ ~e.allow
    /\ \A tables \in InitialTables : WellTyped(tables) /\ Consistent(tables)

-----------------------------------------------------------------------------
(* Manager.loadEntries: the files, all of which deny, then the tables.     *)
FileEntries ==
    {[domain |-> e.domain, kind |-> e.kind, allow |-> FALSE] : e \in UNION {Parse(f) : f \in Files}}

Snapshot(content) ==
    [rules |-> RuleSnapshot(content),
     matcher |-> NewMatcher(FileEntries \cup BlocklistEntries(content))]

(* Serve installs AllowAll; the loader's reload is due.                    *)
Init ==
    /\ db \in InitialTables
    /\ served = [rules |-> RuleSnapshot(Empty), matcher |-> {}]
    /\ reload = "due"
    /\ put = NoPut
    /\ refresh = 0
    /\ edits = 0

-----------------------------------------------------------------------------
(* A handler commits an edit, then asks for a reload, or does not.         *)
Commit(content) ==
    /\ edits < MaxEdits
    /\ edits' = edits + 1
    /\ db' = content
CommitAndReload(content) ==
    /\ Commit(content)
    /\ reload' = "due"
    /\ UNCHANGED <<served, refresh>>

(* An INSERT or an UPDATE reads its row back before its handler asks; when *)
(* that fails the client is told of an error, the edit stays, and only a   *)
(* reload that somebody else asks for brings it into service.              *)
ReadBackFails == reload' = IF reload = "due" THEN "due" ELSE "owed"
SaveAndReload(content) ==
    /\ Commit(content)
    /\ reload' = "due" \/ ReadBackFails
    /\ UNCHANGED <<served, refresh>>

Room(t) == db.next[t] <= MaxRows
Given(row, default) == [row EXCEPT !.enabled = IF @ = Absent THEN default ELSE @]

(* A new list has no entries, so its handler leaves the runtime alone.     *)
PostList ==
    \E row \in ListInputs :
        /\ Room("lists")
        /\ Commit(CreateList(db, Given(row, TRUE)))
        /\ UNCHANGED <<served, reload, put, refresh>>

PostRule ==
    \E row \in RuleInputs :
        /\ Room("rules")
        /\ SaveAndReload(CreateRule(db, Given(row, TRUE)))
        /\ UNCHANGED put

(* The address of a client is UNIQUE.                                      *)
AddressFree(address, id) ==
    \A c \in DOMAIN db.clients \ {id} : db.clients[c].address # address

PostClient ==
    \E row \in ClientInputs :
        /\ Room("clients")
        /\ AddressFree(row.address, 0)
        /\ SaveAndReload(CreateClient(db, Given(row, TRUE)))
        /\ UNCHANGED put

PostGroup ==
    \E row \in GroupInputs :
        /\ Room("groups")
        /\ SaveAndReload(CreateGroup(db, Given(row, TRUE)))
        /\ UNCHANGED put

(* A PUT reads the row, and writes later; what it has read is the default  *)
(* for enabled, everything else is the request's.                          *)
PutReads ==
    /\ put = NoPut
    /\ \E t \in Tables : \E id \in DOMAIN db[t] :
        put' = [table |-> t, id |-> id, enabled |-> db[t][id].enabled]
    /\ UNCHANGED <<db, served, reload, refresh, edits>>

Putting(t) == put.table = t /\ put' = NoPut

(* The row has been deleted since: UPDATE touches nothing, 404.            *)
PutMissing ==
    /\ put # NoPut
    /\ ~Has(db, put.table, put.id)
    /\ put' = NoPut
    /\ UNCHANGED <<db, served, reload, refresh, edits>>

(* Mutant: the row is written, whether it is still there or not.           *)
PutListAnyway ==
    /\ Putting("lists")
    /\ \E row \in ListInputs :
        SaveAndReload([db EXCEPT !.lists = [i \in DOMAIN @ \cup {put.id} |->
                            IF i = put.id THEN Given(row, put.enabled) ELSE @[i]]])

PutList ==
    /\ Putting("lists")
    /\ Has(db, "lists", put.id)
    /\ \E row \in ListInputs : SaveAndReload(UpdateList(db, put.id, Given(row, put.enabled)))

PutRule ==
    /\ Putting("rules")
    /\ Has(db, "rules", put.id)
    /\ \E row \in RuleInputs : SaveAndReload(UpdateRule(db, put.id, Given(row, put.enabled)))

PutClient ==
    /\ Putting("clients")
    /\ Has(db, "clients", put.id)
    /\ \E row \in ClientInputs :
        /\ AddressFree(row.address, put.id)
        /\ SaveAndReload(UpdateClient(db, put.id, Given(row, put.enabled)))

PutGroup ==
    /\ Putting("groups")
    /\ Has(db, "groups", put.id)
    /\ \E row \in GroupInputs : SaveAndReload(UpdateGroup(db, put.id, Given(row, put.enabled)))

RemoveList == \E id \in DOMAIN db.lists : CommitAndReload(DeleteList(db, id)) /\ UNCHANGED put
RemoveRule == \E id \in DOMAIN db.rules : CommitAndReload(DeleteRule(db, id)) /\ UNCHANGED put
RemoveClient == \E id \in DOMAIN db.clients : CommitAndReload(DeleteClient(db, id)) /\ UNCHANGED put
RemoveGroup == \E id \in DOMAIN db.groups : CommitAndReload(DeleteGroup(db, id)) /\ UNCHANGED put

-----------------------------------------------------------------------------
(* Entries by hand.  The pattern is UNIQUE in its list.                    *)
EntryOf(id, input) ==
    [list |-> id, pattern |-> input.pattern,
     enabled |-> IF input.enabled = Absent THEN TRUE ELSE input.enabled]

(* Mutant: the handler does not reload.                                    *)
PostListEntryQuietly ==
    \E id \in DOMAIN db.lists, input \in EntryInputs :
        /\ EntryFree(EntryOf(id, input), db.entries)
        /\ Commit(CreateListEntry(db, EntryOf(id, input)))
        /\ UNCHANGED <<served, reload, put, refresh>>

PostListEntry ==
    \E id \in DOMAIN db.lists, input \in EntryInputs :
        /\ EntryFree(EntryOf(id, input), db.entries)
        /\ SaveAndReload(CreateListEntry(db, EntryOf(id, input)))
        /\ UNCHANGED put

(* The request names the list anew.                                        *)
PutListEntry ==
    \E old \in db.entries, id \in DOMAIN db.lists, input \in EntryInputs :
        /\ EntryFree(EntryOf(id, input), db.entries \ {old})
        /\ SaveAndReload(UpdateListEntry(db, old, EntryOf(id, input)))
        /\ UNCHANGED put

RemoveListEntry ==
    \E e \in db.entries : CommitAndReload(DeleteListEntry(db, e)) /\ UNCHANGED put

(* Both ends of a mapping are looked up first; the foreign keys refuse it  *)
(* when one is deleted in between.                                         *)
Mapped(t, m) ==
    \E id \in DOMAIN db[t], g \in DOMAIN db.groups :
        /\ \/ CommitAndReload(addMapping(db, m, id, g))
           \/ <<id, g>> \in db[m] /\ CommitAndReload(removeMapping(db, m, id, g))
        /\ UNCHANGED put

ListGroups == Mapped("lists", "listGroups")
RuleGroups == Mapped("rules", "ruleGroups")
ClientGroups == Mapped("clients", "clientGroups")

-----------------------------------------------------------------------------
(* RefreshList, by the one worker.                                         *)
RefreshBegins ==
    /\ refresh = 0
    /\ refresh' \in DOMAIN db.lists
    /\ UNCHANGED <<db, served, reload, put, edits>>

importListEntries(lines) ==
    {[type |-> e.kind, name |-> e.domain] : e \in Parse(lines)}

(* The list may be gone by now: the transaction fails on its foreign key,  *)
(* or on the UPDATE that touches nothing.  After it the list is read back  *)
(* and the job saved before the worker reloads; either can fail.           *)
RefreshImports ==
    /\ Has(db, "lists", refresh)
    /\ \E lines \in Downloads :
        /\ importListEntries(lines) # {}
        /\ Commit(ReplaceListEntries(db, refresh, importListEntries(lines)))
    /\ reload' = "due" \/ ReadBackFails
    /\ refresh' = 0
    /\ UNCHANGED <<served, put>>

(* No source, a status, a parse error, nothing supported in it, the list   *)
(* deleted: the entries stay.                                              *)
RefreshFails ==
    /\ refresh # 0
    /\ refresh' = 0
    /\ UNCHANGED <<db, served, reload, put, edits>>

Reload ==
    /\ reload = "due"
    /\ reload' = "done"
    /\ served' = Snapshot(db)
    /\ UNCHANGED <<db, put, refresh, edits>>

ReloadFails ==
    /\ reload = "due"
    /\ reload' = "owed"
    /\ UNCHANGED <<db, served, put, refresh, edits>>

Handlers ==
    \/ PostList \/ PostRule \/ PostClient \/ PostGroup
    \/ PutReads \/ PutMissing \/ PutList \/ PutRule \/ PutClient \/ PutGroup
    \/ RemoveList \/ RemoveRule \/ RemoveClient \/ RemoveGroup
    \/ PostListEntry \/ PutListEntry \/ RemoveListEntry
    \/ ListGroups \/ RuleGroups \/ ClientGroups

Next == Handlers \/ RefreshBegins \/ RefreshImports \/ RefreshFails \/ Reload \/ ReloadFails

Spec == Init /\ [][Next]_vars

-----------------------------------------------------------------------------
TypeOK ==
    /\ WellTyped(db)
    /\ reload \in {"done", "due", "owed"}
    /\ put \in [table : Tables \cup {"none"}, id : 0 .. MaxRows, enabled : BOOLEAN]
    /\ refresh \in 0 .. MaxRows
    /\ edits \in 0 .. MaxEdits

(* Nothing refers to a row that is not there, and no list has two entries  *)
(* for one pattern, whatever is deleted, imported, moved or put meanwhile. *)
MappingsRefer == Consistent(db)

-----------------------------------------------------------------------------
(* The meaning of the tables, stated apart from how either decider works.  *)
(* A client is the machine whose address, an IPv4 address in its own form, *)
(* prints as the client's row; a row in another form is nobody.            *)
Printed(a) == [ip |-> a.ip, form |-> "plain"]

RuleApplies(r, a, d) ==
    LET rule == db.rules[r]
        groups == {p[2] : p \in {q \in db.ruleGroups : q[1] = r}}
    IN  /\ rule.enabled
        /\ matchesPattern(d, rule.pattern)
        /\ \/ groups = {}
           \/ \E g \in groups, c \in DOMAIN db.clients :
                /\ db.groups[g].enabled
                /\ db.clients[c].enabled /\ db.clients[c].address = Printed(a)
                /\ <<c, g>> \in db.clientGroups

Listed(kind, d) ==
    /\ validDomain(d)
    /\ \E e \in db.entries :
        /\ e.enabled /\ db.lists[e.list].enabled
        /\ db.lists[e.list].kind = kind
        /\ e.pattern.type # "regex"
        /\ validBlocklistDomain(e.pattern.name)
        /\ matchesPattern(d, e.pattern)

(* The bundled list and the files of the YAML configuration.               *)
BesideTables(d) == validDomain(d) /\ matches(Bundled \cup FileEntries, d)

Blocked(a, d) ==
    LET says(kind, types) ==
            \E r \in DOMAIN db.rules :
                /\ db.rules[r].kind = kind
                /\ db.rules[r].pattern.type \in types
                /\ RuleApplies(r, a, d)
    IN  /\ ~says("allow", {"exact", "regex", "suffix"})
        /\ \/ says("deny", {"exact"})
           \/ /\ ~Listed("allow", d)
              /\ Listed("deny", d) \/ BesideTables(d) \/ says("deny", {"regex", "suffix"})

Answer(a, d) == RuntimeDecide(served.rules, served.matcher, a, d)

(* The oldest rule of its kind and match type that applies to this client  *)
(* and name.                                                               *)
Oldest(id, a, d) ==
    /\ RuleApplies(id, a, d)
    /\ \A r \in DOMAIN db.rules :
        /\ RuleApplies(r, a, d)
        /\ db.rules[r].kind = db.rules[id].kind
        /\ db.rules[r].pattern.type = db.rules[id].pattern.type
        => id <= r

(* Once a reload has succeeded after the last edit, queries are decided as *)
(* the tables say, the edits whose requests ended in an error included:    *)
(* every handler that changes an answer reloads, the order of the levels   *)
(* is the documented one (allow rules, exact deny rules, lists, the other  *)
(* deny rules), and the rule a decision is logged with is the oldest of    *)
(* its level that applies.                                                 *)
DecisionsFollowTables ==
    reload = "done" =>
        \A a \in Addresses, d \in Names :
            LET answer == Answer(a, d) IN
            /\ (answer.action = "block") <=> Blocked(a, d)
            /\ answer.by = "rule" => Oldest(answer.id, a, d)

(* The preview (Service.Decide) and the runtime, two programs for one      *)
(* policy, block the same names for the same rule.  They part where the    *)
(* preview looks at what the runtime does not: the groups of lists,        *)
(* regular expressions in lists, names that are no domain names; on the    *)
(* bundled list and the files, that only the runtime has; and on IPv4      *)
(* addresses in their IPv6 form, that only the runtime unmaps.             *)
PreviewAgrees ==
    /\ reload = "done"
    /\ db.listGroups = {}
    /\ \A e \in db.entries :
        e.pattern.type # "regex" /\ validBlocklistDomain(e.pattern.name)
    => \A a \in {x \in Addresses : ~x.mapped}, d \in {n \in Names \ Malformed : ~BesideTables(n)} :
            LET preview == PreviewDecide(db, a, d) IN
            /\ (preview.action = "block") <=> (Answer(a, d).action = "block")
            /\ preview.by = Answer(a, d).by
            /\ preview.by = "rule" => preview.id = Answer(a, d).id

(* A deleted row never comes back, whatever had been read of it before.    *)
NothingResurrected ==
    [][\A t \in Tables : \A id \in 1 .. db.next[t] - 1 :
            ~Has(db, t, id) => ~Has(db, t, id)']_vars
=============================================================================
