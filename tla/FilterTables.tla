---------------------------- MODULE FilterTables ----------------------------
(***************************************************************************)
(* The tables behind filtering (internal/filter/repository.go): each       *)
(* statement or transaction as an operator from one content of the tables  *)
(* to the next.                                                            *)
(*                                                                         *)
(* lists, rules, clients and groups are functions from row id to row; an   *)
(* id is never used twice (AUTOINCREMENT).  entries is a set of rows that  *)
(* differ in list, pattern or match type (the table's UNIQUE); the three   *)
(* mapping tables are sets of pairs.  Names, comments and the refresh      *)
(* metadata of a list are left out: no decision depends on them.           *)
(***************************************************************************)
EXTENDS Naturals, FiniteSets

Tables == {"lists", "rules", "clients", "groups"}

Empty == [lists |-> <<>>, rules |-> <<>>, clients |-> <<>>, groups |-> <<>>,
          entries |-> {}, listGroups |-> {}, ruleGroups |-> {}, clientGroups |-> {},
          next |-> [t \in Tables |-> 1]]

Has(db, t, id) == id \in DOMAIN db[t]

Insert(db, t, row) ==
    LET id == db.next[t]
    IN  [db EXCEPT ![t] = [i \in DOMAIN db[t] \cup {id} |-> IF i = id THEN row ELSE db[t][i]],
                   !.next[t] = id + 1]

Without(rows, id) == [i \in DOMAIN rows \ {id} |-> rows[i]]
Unowned(pairs, id) == {p \in pairs : p[1] # id}

-----------------------------------------------------------------------------
CreateList(db, row) == Insert(db, "lists", row)
CreateRule(db, row) == Insert(db, "rules", row)
CreateClient(db, row) == Insert(db, "clients", row)
CreateGroup(db, row) == Insert(db, "groups", row)

(* UPDATE ... WHERE id: requireAffected makes a missing row an error.      *)
UpdateList(db, id, row) == [db EXCEPT !.lists[id] = row]
UpdateRule(db, id, row) == [db EXCEPT !.rules[id] = row]
UpdateClient(db, id, row) == [db EXCEPT !.clients[id] = row]
UpdateGroup(db, id, row) == [db EXCEPT !.groups[id] = row]

(* Mutant: the entries of the list stay.                                   *)
DeleteListRow(db, id) ==
    [db EXCEPT !.lists = Without(@, id), !.listGroups = Unowned(@, id)]

(* A row takes what refers to it along (ON DELETE CASCADE).                *)
DeleteList(db, id) ==
    [db EXCEPT !.lists = Without(@, id),
               !.entries = {e \in @ : e.list # id},
               !.listGroups = Unowned(@, id)]
DeleteRule(db, id) ==
    [db EXCEPT !.rules = Without(@, id), !.ruleGroups = Unowned(@, id)]
DeleteClient(db, id) ==
    [db EXCEPT !.clients = Without(@, id), !.clientGroups = Unowned(@, id)]

DeleteGroup(db, id) ==
    LET others(pairs) == {p \in pairs : p[2] # id}
    IN  [db EXCEPT !.groups = Without(@, id),
                   !.listGroups = others(@),
                   !.ruleGroups = others(@),
                   !.clientGroups = others(@)]

addMapping(db, m, owner, group) == [db EXCEPT ![m] = @ \cup {<<owner, group>>}]
removeMapping(db, m, owner, group) == [db EXCEPT ![m] = @ \ {<<owner, group>>}]

-----------------------------------------------------------------------------
SameEntry(e, f) == e.list = f.list /\ e.pattern = f.pattern

CreateListEntry(db, e) == [db EXCEPT !.entries = @ \cup {e}]
UpdateListEntry(db, old, new) == [db EXCEPT !.entries = (@ \ {old}) \cup {new}]
DeleteListEntry(db, e) == [db EXCEPT !.entries = @ \ {e}]

(* One transaction: the entries of the list are exactly the imported ones. *)
ReplaceListEntries(db, id, imported) ==
    [db EXCEPT !.entries =
        {e \in @ : e.list # id} \cup
        {[list |-> id, pattern |-> p, enabled |-> TRUE] : p \in imported}]

-----------------------------------------------------------------------------
(* What the runtime reads: the enabled exact and suffix entries of the     *)
(* enabled lists, whatever group the list is in ...                        *)
BlocklistEntries(db) ==
    {[domain |-> e.pattern.name, kind |-> e.pattern.type,
      allow |-> db.lists[e.list].kind = "allow"] :
        e \in {x \in db.entries :
                /\ x.enabled
                /\ db.lists[x.list].enabled
                /\ x.pattern.type \in {"exact", "suffix"}}}

(* ... the groups of a client, if it and they are enabled ...              *)
clientGroupIDs(db, address) ==
    {g \in DOMAIN db.groups :
        /\ db.groups[g].enabled
        /\ \E c \in DOMAIN db.clients :
            /\ db.clients[c].address = address
            /\ db.clients[c].enabled
            /\ <<c, g>> \in db.clientGroups}

(* The groups an owner is mapped to, 0 when there is none (LEFT JOIN).     *)
Scopes(pairs, owner) ==
    LET groups == {p[2] : p \in {q \in pairs : q[1] = owner}}
    IN  IF groups = {} THEN {0} ELSE groups

(* ... and the rules, one row for each of their groups.                    *)
decisionRules(db) ==
    UNION {{[id |-> r, group |-> g, rule |-> db.rules[r]] : g \in Scopes(db.ruleGroups, r)} :
            r \in DOMAIN db.rules}

(* What the preview reads instead of BlocklistEntries.                     *)
decisionEntries(db) ==
    UNION {{[list |-> e.list, group |-> g, pattern |-> e.pattern,
             kind |-> db.lists[e.list].kind,
             enabled |-> e.enabled /\ db.lists[e.list].enabled] :
                g \in Scopes(db.listGroups, e.list)} :
            e \in db.entries}
=============================================================================
