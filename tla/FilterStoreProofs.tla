------------------------- MODULE FilterStoreProofs -------------------------
(***************************************************************************)
(* Proofs about the filter tables, for any inputs, downloads and bounds.   *)
(***************************************************************************)
EXTENDS FilterStore, FiniteSetTheorems, TLAPS

Whole(tables) == WellTyped(tables) /\ Consistent(tables)

-----------------------------------------------------------------------------
(* Each statement and transaction keeps the tables whole.                  *)

LEMMA InsertKeepsWhole ==
    ASSUME NEW tables, Whole(tables), NEW t \in Tables, NEW row,
           row.enabled \in BOOLEAN, t = "lists" => row.kind \in Kinds,
           tables.next[t] <= MaxRows
    PROVE  Whole(Insert(tables, t, row))
<1> DEFINE id == tables.next[t]
           new == Insert(tables, t, row)
<1>1. /\ new.next = [tables.next EXCEPT ![t] = id + 1]
      /\ new[t] = [i \in DOMAIN tables[t] \cup {id} |-> IF i = id THEN row ELSE tables[t][i]]
      /\ DOMAIN new = DOMAIN tables
      /\ \A f \in DOMAIN tables \ {t, "next"} : new[f] = tables[f]
  BY DEF Whole, WellTyped, Insert, Empty, Tables
<1>2. /\ new.entries = tables.entries
      /\ new.listGroups = tables.listGroups
      /\ new.ruleGroups = tables.ruleGroups
      /\ new.clientGroups = tables.clientGroups
  BY <1>1 DEF Whole, WellTyped, Empty, Tables
<1>3. \A s \in Tables : DOMAIN tables[s] \subseteq DOMAIN new[s]
  BY <1>1 DEF Whole, WellTyped, Empty, Tables
<1> HIDE DEF new
<1>4. WellTyped(new)
  <2>1. DOMAIN new = DOMAIN Empty /\ DOMAIN new.next = Tables
    BY <1>1 DEF Whole, WellTyped
  <2>2. ASSUME NEW s \in Tables
        PROVE  /\ new.next[s] \in 1 .. MaxRows + 1
               /\ DOMAIN new[s] \subseteq 1 .. new.next[s] - 1
               /\ \A i \in DOMAIN new[s] : new[s][i].enabled \in BOOLEAN
    <3>1. CASE s = t
      BY <3>1, <1>1, FilterStoreAssumption DEF Whole, WellTyped
    <3>2. CASE s # t
      BY <3>2, <1>1 DEF Whole, WellTyped, Empty, Tables
    <3> QED BY <3>1, <3>2
  <2>3. \A i \in DOMAIN new.lists : new.lists[i].kind \in Kinds
    <3>1. CASE t = "lists"
      BY <3>1, <1>1 DEF Whole, WellTyped
    <3>2. CASE t # "lists"
      BY <3>2, <1>1 DEF Whole, WellTyped, Empty, Tables
    <3> QED BY <3>1, <3>2
  <2> QED BY <2>1, <2>2, <2>3, <1>2 DEF Whole, WellTyped
<1>5. Consistent(new)
  BY <1>2, <1>3 DEF Whole, Consistent, Has, Tables
<1> QED BY <1>4, <1>5 DEF Whole, new

(* A row that is there is replaced by one of the same kind.                *)
LEMMA UpdateKeepsWhole ==
    ASSUME NEW tables, Whole(tables), NEW t \in Tables, NEW id \in DOMAIN tables[t], NEW row,
           row.enabled \in BOOLEAN, t = "lists" => row.kind \in Kinds
    PROVE  Whole([tables EXCEPT ![t] = [@ EXCEPT ![id] = row]])
<1> DEFINE new == [tables EXCEPT ![t] = [@ EXCEPT ![id] = row]]
<1>1. /\ new[t] = [tables[t] EXCEPT ![id] = row]
      /\ DOMAIN new = DOMAIN tables
      /\ \A f \in DOMAIN tables \ {t} : new[f] = tables[f]
  BY DEF Whole, WellTyped, Empty, Tables
<1>2. /\ new.entries = tables.entries
      /\ new.listGroups = tables.listGroups
      /\ new.ruleGroups = tables.ruleGroups
      /\ new.clientGroups = tables.clientGroups
      /\ new.next = tables.next
  BY <1>1 DEF Whole, WellTyped, Empty, Tables
<1>3. \A s \in Tables : DOMAIN new[s] = DOMAIN tables[s]
  BY <1>1 DEF Whole, WellTyped, Empty, Tables
<1> HIDE DEF new
<1>4. WellTyped(new)
  <2>1. \A s \in Tables : \A i \in DOMAIN new[s] : new[s][i].enabled \in BOOLEAN
    <3>1. ASSUME NEW s \in Tables, s # t PROVE new[s] = tables[s]
      BY <3>1, <1>1 DEF Whole, WellTyped, Empty, Tables
    <3> QED BY <3>1, <1>1 DEF Whole, WellTyped
  <2>2. \A i \in DOMAIN new.lists : new.lists[i].kind \in Kinds
    <3>1. CASE t = "lists"
      BY <3>1, <1>1 DEF Whole, WellTyped
    <3>2. CASE t # "lists"
      BY <3>2, <1>1 DEF Whole, WellTyped, Empty, Tables
    <3> QED BY <3>1, <3>2
  <2> QED BY <2>1, <2>2, <1>1, <1>2, <1>3 DEF Whole, WellTyped
<1>5. Consistent(new)
  BY <1>2, <1>3 DEF Whole, Consistent, Has, Tables
<1> QED BY <1>4, <1>5 DEF Whole, new

(* A row goes, and everything that refers to it.                           *)
LEMMA DeleteListKeepsWhole ==
    ASSUME NEW tables, Whole(tables), NEW id PROVE Whole(DeleteList(tables, id))
<1> DEFINE new == DeleteList(tables, id)
<1>1. /\ new.lists = Without(tables.lists, id)
      /\ new.entries = {e \in tables.entries : e.list # id}
      /\ new.listGroups = Unowned(tables.listGroups, id)
      /\ \A f \in {"rules", "clients", "groups", "ruleGroups", "clientGroups", "next"} :
            new[f] = tables[f]
      /\ DOMAIN new = DOMAIN tables
  BY DEF Whole, WellTyped, DeleteList, Empty, Tables
<1> HIDE DEF new
<1>2. WellTyped(new)
  BY <1>1 DEF Whole, WellTyped, Without, Tables
<1>3. Consistent(new)
  BY <1>1 DEF Whole, Consistent, Has, EntryFree, Without, Unowned
<1> QED BY <1>2, <1>3 DEF Whole, new

LEMMA DeleteRuleKeepsWhole ==
    ASSUME NEW tables, Whole(tables), NEW id PROVE Whole(DeleteRule(tables, id))
<1> DEFINE new == DeleteRule(tables, id)
<1>1. /\ new.rules = Without(tables.rules, id)
      /\ new.ruleGroups = Unowned(tables.ruleGroups, id)
      /\ \A f \in {"lists", "clients", "groups", "entries", "listGroups", "clientGroups", "next"} :
            new[f] = tables[f]
      /\ DOMAIN new = DOMAIN tables
  BY DEF Whole, WellTyped, DeleteRule, Empty, Tables
<1> HIDE DEF new
<1>2. WellTyped(new)
  BY <1>1 DEF Whole, WellTyped, Without, Tables
<1>3. Consistent(new)
  BY <1>1 DEF Whole, Consistent, Has, Without, Unowned
<1> QED BY <1>2, <1>3 DEF Whole, new

LEMMA DeleteClientKeepsWhole ==
    ASSUME NEW tables, Whole(tables), NEW id PROVE Whole(DeleteClient(tables, id))
<1> DEFINE new == DeleteClient(tables, id)
<1>1. /\ new.clients = Without(tables.clients, id)
      /\ new.clientGroups = Unowned(tables.clientGroups, id)
      /\ \A f \in {"lists", "rules", "groups", "entries", "listGroups", "ruleGroups", "next"} :
            new[f] = tables[f]
      /\ DOMAIN new = DOMAIN tables
  BY DEF Whole, WellTyped, DeleteClient, Empty, Tables
<1> HIDE DEF new
<1>2. WellTyped(new)
  BY <1>1 DEF Whole, WellTyped, Without, Tables
<1>3. Consistent(new)
  BY <1>1 DEF Whole, Consistent, Has, Without, Unowned
<1> QED BY <1>2, <1>3 DEF Whole, new

LEMMA DeleteGroupKeepsWhole ==
    ASSUME NEW tables, Whole(tables), NEW id PROVE Whole(DeleteGroup(tables, id))
<1> DEFINE new == DeleteGroup(tables, id)
           others(pairs) == {p \in pairs : p[2] # id}
<1>1. /\ new.groups = Without(tables.groups, id)
      /\ new.listGroups = others(tables.listGroups)
      /\ new.ruleGroups = others(tables.ruleGroups)
      /\ new.clientGroups = others(tables.clientGroups)
      /\ \A f \in {"lists", "rules", "clients", "entries", "next"} : new[f] = tables[f]
      /\ DOMAIN new = DOMAIN tables
  BY DEF Whole, WellTyped, DeleteGroup, Empty, Tables
<1> HIDE DEF new
<1>2. WellTyped(new)
  BY <1>1 DEF Whole, WellTyped, Without, Tables
<1>3. Consistent(new)
  BY <1>1 DEF Whole, Consistent, Has, Without
<1> QED BY <1>2, <1>3 DEF Whole, new

(* Only one of the mapping tables changes, and by rows that are there.     *)
MappingsOf(t) ==
    CASE t = "lists" -> "listGroups" [] t = "rules" -> "ruleGroups" [] t = "clients" -> "clientGroups"

LEMMA MappingKeepsWhole ==
    ASSUME NEW tables, Whole(tables), NEW t \in {"lists", "rules", "clients"}, NEW pairs,
           \A p \in pairs : Has(tables, t, p[1]) /\ Has(tables, "groups", p[2])
    PROVE  Whole([tables EXCEPT ![MappingsOf(t)] = pairs])
<1> DEFINE new == [tables EXCEPT ![MappingsOf(t)] = pairs]
<1>1. /\ DOMAIN new = DOMAIN tables
      /\ \A f \in Tables \cup {"entries", "next"} : new[f] = tables[f]
      /\ \A s \in {"lists", "rules", "clients"} :
            new[MappingsOf(s)] = IF s = t THEN pairs ELSE tables[MappingsOf(s)]
  BY DEF Whole, WellTyped, Empty, Tables, MappingsOf
<1> HIDE DEF new
<1>2. WellTyped(new)
  BY <1>1 DEF Whole, WellTyped, Tables
<1>3. Consistent(new)
  <2>1. \A s \in {"lists", "rules", "clients"} : \A p \in new[MappingsOf(s)] :
            Has(tables, s, p[1]) /\ Has(tables, "groups", p[2])
    BY <1>1 DEF Whole, Consistent, MappingsOf
  <2> QED BY <2>1, <1>1 DEF Whole, Consistent, Has, Tables, MappingsOf
<1> QED BY <1>2, <1>3 DEF Whole, new

(* Entries of lists that are there, no two alike.                          *)
LEMMA EntriesKeepWhole ==
    ASSUME NEW tables, Whole(tables), NEW entries,
           \A e \in entries :
              /\ e.enabled \in BOOLEAN /\ e.pattern.type \in MatchTypes
              /\ Has(tables, "lists", e.list)
              /\ EntryFree(e, entries \ {e})
    PROVE  Whole([tables EXCEPT !.entries = entries])
<1> DEFINE new == [tables EXCEPT !.entries = entries]
<1>1. /\ DOMAIN new = DOMAIN tables
      /\ new.entries = entries
      /\ \A f \in DOMAIN tables \ {"entries"} : new[f] = tables[f]
  BY DEF Whole, WellTyped, Empty
<1> HIDE DEF new
<1>2. \A f \in Tables \cup {"listGroups", "ruleGroups", "clientGroups", "next"} :
            new[f] = tables[f]
  BY <1>1 DEF Whole, WellTyped, Empty, Tables
<1>3. WellTyped(new)
  BY <1>1, <1>2 DEF Whole, WellTyped, Tables
<1>4. Consistent(new)
  BY <1>1, <1>2 DEF Whole, Consistent, Has, Tables
<1> QED BY <1>3, <1>4 DEF Whole, new

-----------------------------------------------------------------------------
(* The inductive invariant: the tables are whole, and unless a reload is   *)
(* due or owed, what is in service is what they say.                       *)
ServedInv == reload = "done" => served = Snapshot(db)

IInv == TypeOK /\ MappingsRefer /\ ServedInv

LEMMA InitKeeps == ASSUME Init PROVE IInv
BY FilterStoreAssumption DEF Init, IInv, TypeOK, MappingsRefer, ServedInv, NoPut

LEMMA WholeTables == ASSUME IInv PROVE Whole(db)
BY DEF IInv, TypeOK, MappingsRefer, Whole

LEMMA NoPutTyped == NoPut \in [table : Tables \cup {"none"}, id : 0 .. MaxRows, enabled : BOOLEAN]
<1>1. 0 \in 0 .. MaxRows
  BY FilterStoreAssumption
<1> QED BY <1>1 DEF NoPut

(* An edit that keeps the tables whole, whether or not its reload is asked *)
(* for.                                                                    *)
LEMMA EditKeeps ==
    ASSUME IInv, NEW content, CommitAndReload(content) \/ SaveAndReload(content),
           Whole(content), put' \in {put, NoPut}
    PROVE  IInv'
<1>1. /\ db' = content /\ reload' \in {"due", "owed"} /\ refresh' = refresh
      /\ edits < MaxEdits /\ edits' = edits + 1
  BY DEF CommitAndReload, SaveAndReload, ReadBackFails, Commit
<1>2. edits' \in 0 .. MaxEdits
  BY <1>1, FilterStoreAssumption DEF IInv, TypeOK
<1>3. put' \in [table : Tables \cup {"none"}, id : 0 .. MaxRows, enabled : BOOLEAN]
  BY NoPutTyped DEF IInv, TypeOK
<1> QED BY <1>1, <1>2, <1>3 DEF IInv, TypeOK, MappingsRefer, ServedInv, Whole

LEMMA GivenRow ==
    ASSUME NEW row \in Rows, NEW default \in BOOLEAN
    PROVE  /\ Given(row, default).enabled \in BOOLEAN
           /\ row \in ListInputs => Given(row, default).kind \in Kinds
BY FilterStoreAssumption DEF Given, Optional

(* A list without entries changes nothing that the queries depend on.      *)
LEMMA NewListUnseen ==
    ASSUME NEW tables, Whole(tables), NEW row
    PROVE  Snapshot(CreateList(tables, row)) = Snapshot(tables)
<1> DEFINE new == CreateList(tables, row)
           rulesOf(rules, pairs) ==
               UNION {{[id |-> r, group |-> g, rule |-> rules[r]] : g \in Scopes(pairs, r)} :
                       r \in DOMAIN rules}
           groupsOf(groups, clients, pairs, a) ==
               {g \in DOMAIN groups :
                   /\ groups[g].enabled
                   /\ \E c \in DOMAIN clients :
                       /\ clients[c].address = a
                       /\ clients[c].enabled
                       /\ <<c, g>> \in pairs}
<1>1. /\ new.rules = tables.rules /\ new.ruleGroups = tables.ruleGroups
      /\ new.groups = tables.groups /\ new.clients = tables.clients
      /\ new.clientGroups = tables.clientGroups
      /\ new.entries = tables.entries
      /\ \A id \in DOMAIN tables.lists : new.lists[id] = tables.lists[id]
  BY DEF CreateList, Insert, Whole, WellTyped, Empty, Tables
<1>2. decisionRules(new) = decisionRules(tables)
  <2>1. /\ decisionRules(new) = rulesOf(new.rules, new.ruleGroups)
        /\ decisionRules(tables) = rulesOf(tables.rules, tables.ruleGroups)
    BY DEF decisionRules
  <2> QED BY <2>1, <1>1
<1>3. \A a : clientGroupIDs(new, a) = clientGroupIDs(tables, a)
  <2>1. SUFFICES ASSUME NEW a
                 PROVE  clientGroupIDs(new, a) = clientGroupIDs(tables, a)
    OBVIOUS
  <2>2. /\ clientGroupIDs(new, a) = groupsOf(new.groups, new.clients, new.clientGroups, a)
        /\ clientGroupIDs(tables, a) = groupsOf(tables.groups, tables.clients, tables.clientGroups, a)
    BY DEF clientGroupIDs
  <2> QED BY <2>2, <1>1
<1>4. BlocklistEntries(new) = BlocklistEntries(tables)
  <2>1. \A e \in tables.entries : new.lists[e.list] = tables.lists[e.list]
    BY <1>1 DEF Whole, Consistent, Has
  <2> DEFINE rows(t) == {x \in t.entries :
                            /\ x.enabled
                            /\ t.lists[x.list].enabled
                            /\ x.pattern.type \in {"exact", "suffix"}}
             entry(t, e) == [domain |-> e.pattern.name, kind |-> e.pattern.type,
                             allow |-> t.lists[e.list].kind = "allow"]
  <2>2. rows(new) = rows(tables)
    BY <1>1, <2>1
  <2>3. \A e \in rows(tables) : entry(new, e) = entry(tables, e)
    BY <2>1
  <2>4. {entry(new, e) : e \in rows(new)} = {entry(tables, e) : e \in rows(tables)}
    <3> HIDE DEF rows, entry, new
    <3> QED BY <2>2, <2>3
  <2> QED BY <2>4 DEF BlocklistEntries
<1> HIDE DEF new
<1> QED BY <1>2, <1>3, <1>4 DEF Snapshot, RuleSnapshot, new

-----------------------------------------------------------------------------
(* Each action keeps it.                                                   *)

LEMMA PostWhole ==
    ASSUME IInv, NEW t \in Tables, db.next[t] <= MaxRows, NEW row \in Rows,
           t = "lists" => row \in ListInputs
    PROVE  Whole(Insert(db, t, Given(row, TRUE)))
<1>1. PICK given : given = Given(row, TRUE)
  OBVIOUS
<1>2. given.enabled \in BOOLEAN /\ (t = "lists" => given.kind \in Kinds)
  BY <1>1, GivenRow
<1>3. Whole(Insert(db, t, given))
  BY <1>2, WholeTables, InsertKeepsWhole
<1> QED BY <1>1, <1>3

LEMMA PostListKeeps == ASSUME IInv, PostList PROVE IInv'
<1>1. PICK row \in ListInputs :
        /\ db.next["lists"] <= MaxRows
        /\ Commit(CreateList(db, Given(row, TRUE)))
        /\ UNCHANGED <<served, reload, put, refresh>>
  BY DEF PostList, Room
<1>2. Whole(db')
  BY <1>1, PostWhole DEF Commit, CreateList, Rows, Tables
<1>3. Snapshot(db') = Snapshot(db)
  BY <1>1, WholeTables, NewListUnseen DEF Commit
<1>4. edits' \in 0 .. MaxEdits
  BY <1>1, FilterStoreAssumption DEF Commit, IInv, TypeOK
<1>5. TypeOK' /\ MappingsRefer'
  BY <1>1, <1>2, <1>4 DEF IInv, TypeOK, MappingsRefer, Whole
<1>6. ServedInv'
  <2>1. reload' = "done" => served' = Snapshot(db')
    BY <1>1, <1>3 DEF IInv, ServedInv
  <2> QED BY <2>1 DEF ServedInv, Snapshot, RuleSnapshot
<1> QED BY <1>5, <1>6 DEF IInv

LEMMA PostRuleKeeps == ASSUME IInv, PostRule PROVE IInv'
<1>1. PICK row \in RuleInputs :
        /\ db.next["rules"] <= MaxRows
        /\ SaveAndReload(CreateRule(db, Given(row, TRUE)))
        /\ put' = put
  BY DEF PostRule, Room
<1>2. Whole(CreateRule(db, Given(row, TRUE)))
  BY <1>1, PostWhole DEF CreateRule, Rows, Tables
<1> QED BY <1>1, <1>2, EditKeeps

LEMMA PostClientKeeps == ASSUME IInv, PostClient PROVE IInv'
<1>1. PICK row \in ClientInputs :
        /\ db.next["clients"] <= MaxRows
        /\ SaveAndReload(CreateClient(db, Given(row, TRUE)))
        /\ put' = put
  BY DEF PostClient, Room
<1>2. Whole(CreateClient(db, Given(row, TRUE)))
  BY <1>1, PostWhole DEF CreateClient, Rows, Tables
<1> QED BY <1>1, <1>2, EditKeeps

LEMMA PostGroupKeeps == ASSUME IInv, PostGroup PROVE IInv'
<1>1. PICK row \in GroupInputs :
        /\ db.next["groups"] <= MaxRows
        /\ SaveAndReload(CreateGroup(db, Given(row, TRUE)))
        /\ put' = put
  BY DEF PostGroup, Room
<1>2. Whole(CreateGroup(db, Given(row, TRUE)))
  BY <1>1, PostWhole DEF CreateGroup, Rows, Tables
<1> QED BY <1>1, <1>2, EditKeeps

LEMMA PutReadsKeeps == ASSUME IInv, PutReads PROVE IInv'
<1>0. PICK t \in Tables : \E id \in DOMAIN db[t] :
        put' = [table |-> t, id |-> id, enabled |-> db[t][id].enabled]
  BY DEF PutReads
<1>1. PICK id \in DOMAIN db[t] : put' = [table |-> t, id |-> id, enabled |-> db[t][id].enabled]
  BY <1>0
<1>2. id \in 0 .. MaxRows /\ db[t][id].enabled \in BOOLEAN
  BY FilterStoreAssumption DEF IInv, TypeOK, WellTyped
<1>3. put' \in [table : Tables \cup {"none"}, id : 0 .. MaxRows, enabled : BOOLEAN]
  BY <1>1, <1>2
<1> QED BY <1>3 DEF PutReads, IInv, TypeOK, MappingsRefer, ServedInv, Snapshot, RuleSnapshot

LEMMA PutMissingKeeps == ASSUME IInv, PutMissing PROVE IInv'
BY NoPutTyped DEF PutMissing, IInv, TypeOK, MappingsRefer, ServedInv, Snapshot, RuleSnapshot

LEMMA PutWhole ==
    ASSUME IInv, NEW t \in Tables, put.table = t, put.id \in DOMAIN db[t], NEW row \in Rows,
           t = "lists" => row \in ListInputs
    PROVE  Whole([db EXCEPT ![t] = [@ EXCEPT ![put.id] = Given(row, put.enabled)]])
<1>1. put.enabled \in BOOLEAN
  BY DEF IInv, TypeOK
<1>2. /\ Given(row, put.enabled).enabled \in BOOLEAN
      /\ t = "lists" => Given(row, put.enabled).kind \in Kinds
  BY <1>1, GivenRow
<1> QED BY <1>2, WholeTables, UpdateKeepsWhole

LEMMA PutListKeeps == ASSUME IInv, PutList PROVE IInv'
<1>1. PICK row \in ListInputs : SaveAndReload(UpdateList(db, put.id, Given(row, put.enabled)))
  BY DEF PutList
<1>2. Whole(UpdateList(db, put.id, Given(row, put.enabled)))
  BY PutWhole DEF PutList, Putting, Has, UpdateList, Rows, Tables
<1> QED BY <1>1, <1>2, EditKeeps DEF PutList, Putting

LEMMA PutRuleKeeps == ASSUME IInv, PutRule PROVE IInv'
<1>1. PICK row \in RuleInputs : SaveAndReload(UpdateRule(db, put.id, Given(row, put.enabled)))
  BY DEF PutRule
<1>2. Whole(UpdateRule(db, put.id, Given(row, put.enabled)))
  BY PutWhole DEF PutRule, Putting, Has, UpdateRule, Rows, Tables
<1> QED BY <1>1, <1>2, EditKeeps DEF PutRule, Putting

LEMMA PutClientKeeps == ASSUME IInv, PutClient PROVE IInv'
<1>1. PICK row \in ClientInputs : SaveAndReload(UpdateClient(db, put.id, Given(row, put.enabled)))
  BY DEF PutClient
<1>2. Whole(UpdateClient(db, put.id, Given(row, put.enabled)))
  BY PutWhole DEF PutClient, Putting, Has, UpdateClient, Rows, Tables
<1> QED BY <1>1, <1>2, EditKeeps DEF PutClient, Putting

LEMMA PutGroupKeeps == ASSUME IInv, PutGroup PROVE IInv'
<1>1. PICK row \in GroupInputs : SaveAndReload(UpdateGroup(db, put.id, Given(row, put.enabled)))
  BY DEF PutGroup
<1>2. Whole(UpdateGroup(db, put.id, Given(row, put.enabled)))
  BY PutWhole DEF PutGroup, Putting, Has, UpdateGroup, Rows, Tables
<1> QED BY <1>1, <1>2, EditKeeps DEF PutGroup, Putting

LEMMA RemoveKeeps ==
    ASSUME IInv, RemoveList \/ RemoveRule \/ RemoveClient \/ RemoveGroup PROVE IInv'
<1>1. PICK id : \/ CommitAndReload(DeleteList(db, id))
                \/ CommitAndReload(DeleteRule(db, id))
                \/ CommitAndReload(DeleteClient(db, id))
                \/ CommitAndReload(DeleteGroup(db, id))
  BY DEF RemoveList, RemoveRule, RemoveClient, RemoveGroup
<1>2. put' = put
  BY DEF RemoveList, RemoveRule, RemoveClient, RemoveGroup
<1>3. /\ Whole(DeleteList(db, id)) /\ Whole(DeleteRule(db, id))
      /\ Whole(DeleteClient(db, id)) /\ Whole(DeleteGroup(db, id))
  BY WholeTables, DeleteListKeepsWhole, DeleteRuleKeepsWhole, DeleteClientKeepsWhole,
     DeleteGroupKeepsWhole
<1> QED BY <1>1, <1>2, <1>3, EditKeeps

(* The entries of the tables, as EntriesKeepWhole asks for them.           *)
GoodEntry(e) ==
    e.enabled \in BOOLEAN /\ e.pattern.type \in MatchTypes /\ Has(db, "lists", e.list)

LEMMA EntriesGood ==
    ASSUME IInv
    PROVE  \A e \in db.entries : GoodEntry(e) /\ EntryFree(e, db.entries \ {e})
BY DEF IInv, TypeOK, MappingsRefer, WellTyped, Consistent, GoodEntry

LEMMA EntryOfGood ==
    ASSUME NEW id \in DOMAIN db.lists, NEW input \in EntryInputs
    PROVE  GoodEntry(EntryOf(id, input))
BY FilterStoreAssumption DEF GoodEntry, EntryOf, Optional, Has

LEMMA PostListEntryKeeps == ASSUME IInv, PostListEntry PROVE IInv'
<1>1. PICK id \in DOMAIN db.lists, input \in EntryInputs :
        /\ EntryFree(EntryOf(id, input), db.entries)
        /\ SaveAndReload(CreateListEntry(db, EntryOf(id, input)))
        /\ put' = put
  BY DEF PostListEntry
<1> DEFINE e == EntryOf(id, input)
           entries == db.entries \cup {e}
<1>2. GoodEntry(e)
  BY EntryOfGood
<1> HIDE DEF e
<1>3. \A f \in entries : GoodEntry(f) /\ EntryFree(f, entries \ {f})
  BY <1>1, <1>2, EntriesGood DEF EntryFree, SameEntry, e
<1>4. Whole([db EXCEPT !.entries = entries])
  BY <1>3, WholeTables, EntriesKeepWhole DEF GoodEntry
<1> QED BY <1>1, <1>4, EditKeeps DEF CreateListEntry, e

LEMMA PutListEntryKeeps == ASSUME IInv, PutListEntry PROVE IInv'
<1>1. PICK old \in db.entries, id \in DOMAIN db.lists, input \in EntryInputs :
        /\ EntryFree(EntryOf(id, input), db.entries \ {old})
        /\ SaveAndReload(UpdateListEntry(db, old, EntryOf(id, input)))
        /\ put' = put
  BY DEF PutListEntry
<1> DEFINE e == EntryOf(id, input)
           entries == (db.entries \ {old}) \cup {e}
<1>2. GoodEntry(e)
  BY EntryOfGood
<1> HIDE DEF e
<1>3. \A f \in entries : GoodEntry(f) /\ EntryFree(f, entries \ {f})
  BY <1>1, <1>2, EntriesGood DEF EntryFree, SameEntry, e
<1>4. Whole([db EXCEPT !.entries = entries])
  BY <1>3, WholeTables, EntriesKeepWhole DEF GoodEntry
<1> QED BY <1>1, <1>4, EditKeeps DEF UpdateListEntry, e

LEMMA RemoveListEntryKeeps == ASSUME IInv, RemoveListEntry PROVE IInv'
<1>1. PICK e \in db.entries : CommitAndReload(DeleteListEntry(db, e)) /\ put' = put
  BY DEF RemoveListEntry
<1> DEFINE entries == db.entries \ {e}
<1>2. \A f \in entries : GoodEntry(f) /\ EntryFree(f, entries \ {f})
  BY EntriesGood DEF EntryFree
<1>3. Whole([db EXCEPT !.entries = entries])
  BY <1>2, WholeTables, EntriesKeepWhole DEF GoodEntry
<1> QED BY <1>1, <1>3, EditKeeps DEF DeleteListEntry

LEMMA MappedKeeps ==
    ASSUME IInv, NEW t \in {"lists", "rules", "clients"}, Mapped(t, MappingsOf(t))
    PROVE  IInv'
<1> DEFINE m == MappingsOf(t)
<1>1. PICK id \in DOMAIN db[t], g \in DOMAIN db.groups :
        /\ \/ CommitAndReload([db EXCEPT ![m] = db[m] \cup {<<id, g>>}])
           \/ CommitAndReload([db EXCEPT ![m] = db[m] \ {<<id, g>>}])
        /\ put' = put
  BY DEF Mapped, addMapping, removeMapping
<1>2. \A p \in db[m] : Has(db, t, p[1]) /\ Has(db, "groups", p[2])
  BY DEF IInv, MappingsRefer, Consistent, MappingsOf
<1>3. ASSUME NEW pairs, pairs \subseteq db[m] \cup {<<id, g>>}
      PROVE  Whole([db EXCEPT ![m] = pairs])
  <2>1. \A p \in pairs : Has(db, t, p[1]) /\ Has(db, "groups", p[2])
    BY <1>2, <1>3 DEF Has
  <2> QED BY <2>1, WholeTables, MappingKeepsWhole
<1>4. /\ Whole([db EXCEPT ![m] = db[m] \cup {<<id, g>>}])
      /\ Whole([db EXCEPT ![m] = db[m] \ {<<id, g>>}])
  BY <1>3
<1> QED BY <1>1, <1>4, EditKeeps

LEMMA MappingActionsKeep == ASSUME IInv, ListGroups \/ RuleGroups \/ ClientGroups PROVE IInv'
BY MappedKeeps DEF ListGroups, RuleGroups, ClientGroups, MappingsOf

LEMMA ParsedTypes ==
    \A lines : \A e \in Parse(lines) :
        e.kind \in {"exact", "suffix"} /\ validBlocklistDomain(e.domain)
<1>1. \A field : \A e \in normalizeEntryDomain(field) :
        e.kind \in {"exact", "suffix"} /\ validBlocklistDomain(e.domain)
  BY DEF normalizeEntryDomain
<1>2. \A line : \A e \in parseLine(line) : \E field : e \in normalizeEntryDomain(field)
  BY DEF parseLine
<1>3. \A lines : \A e \in Parse(lines) : \E line : e \in parseLine(line)
  BY DEF Parse
<1> QED BY <1>1, <1>2, <1>3

LEMMA RefreshBeginsKeeps == ASSUME IInv, RefreshBegins PROVE IInv'
<1>1. refresh' \in 0 .. MaxRows
  BY FilterStoreAssumption DEF RefreshBegins, IInv, TypeOK, WellTyped, Tables
<1> QED BY <1>1 DEF RefreshBegins, IInv, TypeOK, MappingsRefer, ServedInv, Snapshot, RuleSnapshot

(* The imported entries replace those of their list, one for each pattern. *)
LEMMA RefreshImportsKeeps == ASSUME IInv, RefreshImports PROVE IInv'
<1>1. PICK lines \in Downloads :
        Commit(ReplaceListEntries(db, refresh, importListEntries(lines)))
  BY DEF RefreshImports
<1> DEFINE kept == {e \in db.entries : e.list # refresh}
           imported == {[list |-> refresh, pattern |-> p, enabled |-> TRUE] :
                            p \in importListEntries(lines)}
           entries == kept \cup imported
<1>2. \A p \in importListEntries(lines) : p.type \in MatchTypes
  BY ParsedTypes DEF importListEntries, MatchTypes
<1>3. \A e \in imported :
        /\ e.list = refresh /\ e.enabled = TRUE /\ e.pattern.type \in MatchTypes
        /\ \A f \in imported : e.pattern = f.pattern => e = f
  <2>1. ASSUME NEW e \in imported
        PROVE  e.list = refresh /\ e.enabled = TRUE /\ e.pattern \in importListEntries(lines)
    OBVIOUS
  <2>2. ASSUME NEW e \in imported, NEW f \in imported, e.pattern = f.pattern PROVE e = f
    <3>1. PICK p \in importListEntries(lines) : e = [list |-> refresh, pattern |-> p, enabled |-> TRUE]
      OBVIOUS
    <3>2. PICK q \in importListEntries(lines) : f = [list |-> refresh, pattern |-> q, enabled |-> TRUE]
      OBVIOUS
    <3>3. e.pattern = p /\ f.pattern = q
      BY <3>1, <3>2
    <3> QED BY <2>2, <3>1, <3>2, <3>3
  <2> HIDE DEF imported
  <2> QED BY <2>1, <2>2, <1>2
<1>4. Has(db, "lists", refresh)
  BY DEF RefreshImports
<1> HIDE DEF imported
<1>5. \A e \in entries : GoodEntry(e)
  BY <1>3, <1>4, EntriesGood DEF GoodEntry
<1>6. \A e \in entries : EntryFree(e, entries \ {e})
  BY <1>3, EntriesGood DEF EntryFree, SameEntry
<1>7. Whole([db EXCEPT !.entries = entries])
  BY <1>5, <1>6, WholeTables, EntriesKeepWhole DEF GoodEntry
<1>8. db' = [db EXCEPT !.entries = entries]
  BY <1>1 DEF Commit, ReplaceListEntries, imported
<1>9. edits' \in 0 .. MaxEdits /\ 0 \in 0 .. MaxRows
  BY <1>1, FilterStoreAssumption DEF Commit, IInv, TypeOK
<1>10. reload' \in {"due", "owed"} /\ refresh' = 0 /\ put' = put
  BY DEF RefreshImports, ReadBackFails
<1> QED BY <1>7, <1>8, <1>9, <1>10 DEF IInv, TypeOK, MappingsRefer, ServedInv, Whole

LEMMA RefreshFailsKeeps == ASSUME IInv, RefreshFails PROVE IInv'
<1>1. 0 \in 0 .. MaxRows
  BY FilterStoreAssumption
<1> QED BY <1>1 DEF RefreshFails, IInv, TypeOK, MappingsRefer, ServedInv, Snapshot, RuleSnapshot

LEMMA ReloadsKeep == ASSUME IInv, Reload \/ ReloadFails PROVE IInv'
<1>1. TypeOK' /\ MappingsRefer'
  BY DEF Reload, ReloadFails, IInv, TypeOK, MappingsRefer
<1>2. ServedInv'
  BY DEF Reload, ReloadFails, ServedInv, Snapshot, RuleSnapshot
<1> QED BY <1>1, <1>2 DEF IInv

LEMMA StutterKeeps == ASSUME IInv, UNCHANGED vars PROVE IInv'
BY DEF vars, IInv, TypeOK, MappingsRefer, ServedInv, Snapshot, RuleSnapshot

LEMMA StepKeeps == ASSUME IInv, [Next]_vars PROVE IInv'
BY PostListKeeps, PostRuleKeeps, PostClientKeeps, PostGroupKeeps, PutReadsKeeps, PutMissingKeeps,
   PutListKeeps, PutRuleKeeps, PutClientKeeps, PutGroupKeeps, RemoveKeeps, PostListEntryKeeps,
   PutListEntryKeeps, RemoveListEntryKeeps, MappingActionsKeep, RefreshBeginsKeeps,
   RefreshImportsKeeps, RefreshFailsKeeps, ReloadsKeep, StutterKeeps
   DEF Next, Handlers

-----------------------------------------------------------------------------
(* The tables are whole and what is in service is what they say, or a      *)
(* reload is due or has failed, in every reachable state.                  *)
THEOREM InductiveInvariant == Spec => []IInv
BY InitKeeps, StepKeeps, PTL DEF Spec

(* Type correctness, with the columns and keys of the schema.              *)
THEOREM TypeCorrect == Spec => []TypeOK
<1>1. IInv => TypeOK
  BY DEF IInv
<1> QED BY <1>1, InductiveInvariant, PTL

(* No mapping and no entry outlives what it refers to, whatever handlers   *)
(* and refreshes do at the same time (the cascades of the schema, the      *)
(* import of Service.RefreshList).                                         *)
THEOREM NothingDangles == Spec => []MappingsRefer
<1>1. IInv => MappingsRefer
  BY DEF IInv
<1> QED BY <1>1, InductiveInvariant, PTL

-----------------------------------------------------------------------------
(* A PUT writes only a row that is still there, and a POST takes a new id. *)
LEMMA RowsStayGone ==
    ASSUME IInv, [Next]_vars, NEW t \in Tables, NEW id \in 1 .. db.next[t] - 1, ~Has(db, t, id)
    PROVE  ~Has(db, t, id)'
<1>1. DOMAIN db = DOMAIN Empty /\ db.next[t] \in Nat
  BY FilterStoreAssumption DEF IInv, TypeOK, WellTyped
<1>2. ASSUME NEW s \in Tables, NEW row, db' = Insert(db, s, row)
      PROVE  ~Has(db, t, id)'
  <2>1. db'[s] = [i \in DOMAIN db[s] \cup {db.next[s]} |-> IF i = db.next[s] THEN row ELSE db[s][i]]
    BY <1>1, <1>2 DEF Insert, Empty, Tables
  <2>2. s # t => db'[t] = db[t]
    BY <1>1, <1>2 DEF Insert, Empty, Tables
  <2> QED BY <1>1, <2>1, <2>2 DEF Has
<1>3. ASSUME NEW s \in Tables, NEW i \in DOMAIN db[s], NEW row,
             db' = [db EXCEPT ![s] = [@ EXCEPT ![i] = row]]
      PROVE  ~Has(db, t, id)'
  BY <1>1, <1>3 DEF Has, Empty, Tables
<1>4. CASE PostList \/ PostRule \/ PostClient \/ PostGroup
  BY <1>4, <1>2 DEF PostList, PostRule, PostClient, PostGroup, SaveAndReload, Commit,
     CreateList, CreateRule, CreateClient, CreateGroup, Tables
<1>5. CASE PutList \/ PutRule \/ PutClient \/ PutGroup
  BY <1>5, <1>3 DEF PutList, PutRule, PutClient, PutGroup, SaveAndReload, Commit, Has,
     UpdateList, UpdateRule, UpdateClient, UpdateGroup, Tables
<1>6. CASE RemoveList \/ RemoveRule \/ RemoveClient \/ RemoveGroup
  <2>1. PICK i : db' \in {DeleteList(db, i), DeleteRule(db, i), DeleteClient(db, i), DeleteGroup(db, i)}
    BY <1>6 DEF RemoveList, RemoveRule, RemoveClient, RemoveGroup, CommitAndReload, Commit
  <2>2. DOMAIN db'[t] \subseteq DOMAIN db[t]
    <3>1. CASE db' = DeleteList(db, i)
      BY <3>1, <1>1 DEF DeleteList, Without, Empty, Tables
    <3>2. CASE db' = DeleteRule(db, i)
      BY <3>2, <1>1 DEF DeleteRule, Without, Empty, Tables
    <3>3. CASE db' = DeleteClient(db, i)
      BY <3>3, <1>1 DEF DeleteClient, Without, Empty, Tables
    <3>4. CASE db' = DeleteGroup(db, i)
      BY <3>4, <1>1 DEF DeleteGroup, Without, Empty, Tables
    <3> QED BY <2>1, <3>1, <3>2, <3>3, <3>4
  <2> QED BY <2>2 DEF Has
<1>7. CASE PostListEntry \/ PutListEntry \/ RemoveListEntry \/ RefreshImports
  BY <1>7, <1>1 DEF PostListEntry, PutListEntry, RemoveListEntry, RefreshImports, CommitAndReload,
     SaveAndReload, Commit, CreateListEntry, UpdateListEntry, DeleteListEntry, ReplaceListEntries, Has, Empty, Tables
<1>8. CASE ListGroups \/ RuleGroups \/ ClientGroups
  BY <1>8, <1>1 DEF ListGroups, RuleGroups, ClientGroups, Mapped, CommitAndReload, Commit,
     addMapping, removeMapping, Has, Empty, Tables
<1>9. CASE UNCHANGED db
  BY <1>9 DEF Has
<1> QED BY <1>4, <1>5, <1>6, <1>7, <1>8, <1>9
     DEF Next, Handlers, PutReads, PutMissing, RefreshBegins, RefreshFails, Reload, ReloadFails, vars

(* A deleted row never comes back (the conditions of the UPDATEs, and the  *)
(* AUTOINCREMENT of the keys).                                             *)
THEOREM DeletedForGood == Spec => NothingResurrected
<1>1. IInv /\ [Next]_vars =>
        [\A t \in Tables : \A id \in 1 .. db.next[t] - 1 : ~Has(db, t, id) => ~Has(db, t, id)']_vars
  BY RowsStayGone
<1> QED BY <1>1, InductiveInvariant, PTL DEF Spec, NothingResurrected

-----------------------------------------------------------------------------
(* Choices of a least element and of a first alternative.                  *)

LEMMA LeastIsLeast ==
    ASSUME NEW S \in SUBSET Nat, S # {}
    PROVE  Least(S) \in S /\ \A y \in S : Least(S) <= y
<1>1. PICK n \in S : TRUE
  OBVIOUS
<1> DEFINE Below(m) == {y \in 0 .. n : y \in S /\ y < m}
           Sets == {Below(m) : m \in {x \in S : x <= n}}
           R == StrictSubsetOrdering(0 .. n)
<1>2. IsWellFoundedOn(R, FiniteSubsetsOf(0 .. n))
  BY FS_StrictSubsetOrderingWellFounded
<1>3. Sets \subseteq FiniteSubsetsOf(0 .. n)
  <2>1. IsFiniteSet(0 .. n)
    BY FS_Interval
  <2> QED BY <2>1, FS_Subset DEF FiniteSubsetsOf
<1>4. Sets # {}
  <2>1. Below(n) \in Sets
    OBVIOUS
  <2> QED BY <2>1
<1>5. PICK B \in Sets : \A C \in Sets : <<C, B>> \notin R
  <2> HIDE DEF Sets, R
  <2> QED BY <1>2, <1>3, <1>4, WFMin
<1>6. PICK m \in S : m <= n /\ B = Below(m)
  OBVIOUS
<1>7. \A y \in S : m <= y
  <2>1. SUFFICES ASSUME NEW y \in S, y < m PROVE FALSE
    OBVIOUS
  <2>2. y \in Below(m) /\ y \notin Below(y) /\ Below(y) \subseteq Below(m)
    BY <2>1, <1>6
  <2>3. Below(y) \in Sets
    BY <2>1, <1>6
  <2> QED BY <2>2, <2>3, <1>5, <1>6 DEF StrictSubsetOrdering
<1> QED BY <1>7 DEF Least

FirstAt(alternatives, k, x) ==
    /\ Len(alternatives) \in Nat /\ k \in 1 .. Len(alternatives)
    /\ alternatives[k] = {x}
    /\ \A j \in 1 .. k - 1 : alternatives[j] = {}

LEMMA FirstDecides ==
    ASSUME NEW alternatives, NEW otherwise, NEW k, NEW x, FirstAt(alternatives, k, x)
    PROVE  FirstOf(alternatives, otherwise) = x
<1>0. /\ Len(alternatives) \in Nat /\ k \in 1 .. Len(alternatives)
      /\ alternatives[k] = {x}
      /\ \A j \in 1 .. k - 1 : alternatives[j] = {}
  BY DEF FirstAt
<1> DEFINE decides == {j \in 1 .. Len(alternatives) : alternatives[j] # {}}
<1>1. k \in decides /\ \A j \in decides : k <= j
  <2>1. k \in decides
    BY <1>0
  <2>2. ASSUME NEW j \in decides, ~(k <= j) PROVE FALSE
    <3>1. j \in 1 .. k - 1
      BY <2>2, <1>0
    <3> QED BY <3>1, <1>0
  <2> QED BY <2>1, <2>2
<1>2. decides \in SUBSET Nat
  BY <1>0
<1> HIDE DEF decides
<1>3. Least(decides) = k
  <2>1. Least(decides) \in decides /\ Least(decides) <= k
    BY <1>1, <1>2, LeastIsLeast
  <2>2. k <= Least(decides) /\ k \in Nat /\ Least(decides) \in Nat
    BY <2>1, <1>1, <1>2
  <2> QED BY <2>1, <2>2
<1>4. FirstOf(alternatives, otherwise) = CHOOSE d \in alternatives[k] : TRUE
  BY <1>1, <1>3 DEF FirstOf, decides
<1> QED BY <1>0, <1>4

LEMMA NoneDecides ==
    ASSUME NEW alternatives, NEW otherwise,
           \A j \in 1 .. Len(alternatives) : alternatives[j] = {}
    PROVE  FirstOf(alternatives, otherwise) = otherwise
BY DEF FirstOf

-----------------------------------------------------------------------------
(* The text that a query's machine is looked up by, and that of a preview  *)
(* for an address that is not an IPv4 address in its IPv6 form.            *)
LEMMA PrintedForm ==
    ASSUME NEW a \in Addresses
    PROVE  String(Unmap(a)) = Printed(a) /\ (~a.mapped => String(a) = Printed(a))
<1>1. a = [ip |-> a.ip, mapped |-> a.mapped] /\ a.mapped \in BOOLEAN
  BY FilterStoreAssumption
<1>2. Unmap(a).ip = a.ip /\ Unmap(a).mapped = FALSE
  BY <1>1 DEF Unmap
<1> QED BY <1>2 DEF String, Printed

(* A level of rules decides by the oldest rule of the level that applies.  *)
Applying(kind, type, a, d) ==
    {r \in DOMAIN db.rules :
        /\ db.rules[r].kind = kind
        /\ db.rules[r].pattern.type = type
        /\ RuleApplies(r, a, d)}

Level(kind, type, a, d) ==
    IF Applying(kind, type, a, d) = {} THEN {}
    ELSE {Decision(actionForKind(kind), "rule", Least(Applying(kind, type, a, d)))}

LEMMA LevelDecides ==
    ASSUME IInv, NEW a, NEW d, NEW kind, NEW type
    PROVE  firstMatchingRule(decisionRules(db), clientGroupIDs(db, Printed(a)), d, kind, type)
              = Level(kind, type, a, d)
<1> DEFINE hits == {r \in decisionRules(db) :
                      /\ r.rule.enabled
                      /\ r.rule.kind = kind
                      /\ r.rule.pattern.type = type
                      /\ inScope(r.group, clientGroupIDs(db, Printed(a)))
                      /\ matchesPattern(d, r.rule.pattern)}
           groups(r) == {p[2] : p \in {q \in db.ruleGroups : q[1] = r}}
<1>1. \A r : groups(r) \subseteq DOMAIN db.groups
  BY DEF IInv, MappingsRefer, Consistent, Has
<1>2. 0 \notin DOMAIN db.groups
  BY FilterStoreAssumption DEF IInv, TypeOK, WellTyped, Tables
<1>3. ASSUME NEW r \in DOMAIN db.rules
      PROVE  (\E g \in Scopes(db.ruleGroups, r) : inScope(g, clientGroupIDs(db, Printed(a))))
                <=> (\/ groups(r) = {}
                     \/ \E g \in groups(r), c \in DOMAIN db.clients :
                          /\ db.groups[g].enabled
                          /\ db.clients[c].enabled /\ db.clients[c].address = Printed(a)
                          /\ <<c, g>> \in db.clientGroups)
  <2>1. CASE groups(r) = {}
    BY <2>1 DEF Scopes, inScope
  <2>2. CASE groups(r) # {}
    <3>1. Scopes(db.ruleGroups, r) = groups(r)
      BY <2>2 DEF Scopes
    <3>2. \A g \in groups(r) :
            inScope(g, clientGroupIDs(db, Printed(a))) <=> g \in clientGroupIDs(db, Printed(a))
      BY <1>1, <1>2 DEF inScope
    <3>3. \A g \in groups(r) :
            g \in clientGroupIDs(db, Printed(a)) <=>
                /\ db.groups[g].enabled
                /\ \E c \in DOMAIN db.clients :
                    /\ db.clients[c].address = Printed(a)
                    /\ db.clients[c].enabled
                    /\ <<c, g>> \in db.clientGroups
      BY <1>1 DEF clientGroupIDs
    <3> HIDE DEF groups
    <3> QED BY <2>2, <3>1, <3>2, <3>3
  <2> QED BY <2>1, <2>2
<1>4. ASSUME NEW r \in hits PROVE r.id \in Applying(kind, type, a, d)
  <2>1. PICK i \in DOMAIN db.rules : \E g \in Scopes(db.ruleGroups, i) :
          r = [id |-> i, group |-> g, rule |-> db.rules[i]]
    BY DEF decisionRules
  <2>2. PICK g \in Scopes(db.ruleGroups, i) : r = [id |-> i, group |-> g, rule |-> db.rules[i]]
    BY <2>1
  <2>3. r.id = i /\ r.rule = db.rules[i] /\ inScope(g, clientGroupIDs(db, Printed(a)))
    BY <2>2
  <2> QED BY <2>2, <2>3, <1>3 DEF Applying, RuleApplies
<1>5. ASSUME NEW i \in Applying(kind, type, a, d) PROVE \E r \in hits : r.id = i
  <2>1. PICK g \in Scopes(db.ruleGroups, i) : inScope(g, clientGroupIDs(db, Printed(a)))
    BY <1>3 DEF Applying, RuleApplies
  <2> DEFINE r == [id |-> i, group |-> g, rule |-> db.rules[i]]
  <2>2. r \in decisionRules(db)
    BY <2>1 DEF decisionRules, Applying
  <2>3. r \in hits
    BY <2>1, <2>2 DEF Applying, RuleApplies
  <2> QED BY <2>3
<1> HIDE DEF hits
<1>6. {r.id : r \in hits} = Applying(kind, type, a, d)
  BY <1>4, <1>5
<1>7. hits = {} <=> Applying(kind, type, a, d) = {}
  BY <1>4, <1>5
<1> QED BY <1>6, <1>7 DEF firstMatchingRule, Level, hits

LEMMA LevelOldest ==
    ASSUME IInv, NEW a, NEW d, NEW kind, NEW type, Applying(kind, type, a, d) # {}
    PROVE  Oldest(Least(Applying(kind, type, a, d)), a, d)
<1> DEFINE S == Applying(kind, type, a, d)
<1>1. S \in SUBSET Nat
  BY FilterStoreAssumption DEF Applying, IInv, TypeOK, WellTyped, Tables
<1>2. Least(S) \in S /\ \A y \in S : Least(S) <= y
  BY <1>1, LeastIsLeast
<1> QED BY <1>2 DEF Oldest, Applying

(* The lists decide by their entries, those that allow first.              *)
Denied(d) == Listed("deny", d) \/ BesideTables(d)

(* What the files say is usable, and denies.                               *)
LEMMA FilesDeny ==
    \A e \in FileEntries : e.kind \in {"exact", "suffix"} /\ validBlocklistDomain(e.domain) /\ ~e.allow
<1> SUFFICES ASSUME NEW e \in FileEntries
             PROVE  e.kind \in {"exact", "suffix"} /\ validBlocklistDomain(e.domain) /\ ~e.allow
  OBVIOUS
<1>1. PICK parsed \in UNION {Parse(f) : f \in Files} :
        e = [domain |-> parsed.domain, kind |-> parsed.kind, allow |-> FALSE]
  BY DEF FileEntries
<1>2. parsed.kind \in {"exact", "suffix"} /\ validBlocklistDomain(parsed.domain)
  BY ParsedTypes
<1>3. e.domain = parsed.domain /\ e.kind = parsed.kind /\ e.allow = FALSE
  BY <1>1
<1> QED BY <1>2, <1>3

LEMMA EntriesDecide ==
    ASSUME IInv, NEW d, validDomain(d)
    PROVE  LET matcher == NewMatcher(FileEntries \cup BlocklistEntries(db))
           IN  /\ matches({e \in matcher : e.allow}, d) <=> Listed("allow", d)
               /\ matches({e \in matcher : ~e.allow}, d) <=> Denied(d)
<1> DEFINE matcher == NewMatcher(FileEntries \cup BlocklistEntries(db))
           beside == Bundled \cup FileEntries
           shown(e) == [domain |-> e.pattern.name, kind |-> e.pattern.type,
                        allow |-> db.lists[e.list].kind = "allow"]
           usable(e) == /\ e.enabled
                        /\ db.lists[e.list].enabled
                        /\ e.pattern.type \in {"exact", "suffix"}
                        /\ validBlocklistDomain(e.pattern.name)
           hits(e) == \/ e.kind = "exact" /\ e.domain = d
                      \/ e.kind = "suffix" /\ Under(d, e.domain)
<1>1. \A m \in matcher : m \in beside \/ \E e \in db.entries : usable(e) /\ m = shown(e)
  BY DEF NewMatcher, BlocklistEntries
<1>2. \A e \in db.entries : usable(e) => shown(e) \in matcher
  BY DEF NewMatcher, BlocklistEntries
<1>3. beside \subseteq matcher /\ \A m \in beside : ~m.allow
  BY FilterStoreAssumption, FilesDeny DEF NewMatcher
<1>4. \A e \in db.entries : e.pattern.type \in MatchTypes /\ db.lists[e.list].kind \in Kinds
  BY DEF IInv, TypeOK, MappingsRefer, WellTyped, Consistent, Has
<1>5. \A e \in db.entries : usable(e) =>
        /\ shown(e).allow <=> db.lists[e.list].kind = "allow"
        /\ ~shown(e).allow <=> db.lists[e.list].kind = "deny"
        /\ hits(shown(e)) <=> matchesPattern(d, e.pattern)
  BY <1>4 DEF matchesPattern, Kinds
<1>6. \A e \in db.entries :
        /\ e.enabled /\ db.lists[e.list].enabled /\ e.pattern.type # "regex"
        /\ validBlocklistDomain(e.pattern.name)
        <=> usable(e)
  BY <1>4 DEF MatchTypes
<1> HIDE DEF matcher, beside, shown, usable, hits
<1>7. ASSUME NEW kind
      PROVE  Listed(kind, d) <=> \E e \in db.entries :
                usable(e) /\ db.lists[e.list].kind = kind /\ matchesPattern(d, e.pattern)
  BY <1>6 DEF Listed
<1>8. \A set : matches(set, d) <=> \E m \in set : hits(m)
  BY DEF matches, hits
<1>9. matches({m \in matcher : m.allow}, d) <=> Listed("allow", d)
  BY <1>1, <1>2, <1>3, <1>5, <1>7, <1>8
<1>10. matches({m \in matcher : ~m.allow}, d) <=> Denied(d)
  <2>1. BesideTables(d) <=> matches(beside, d)
    BY DEF BesideTables, beside
  <2> QED BY <1>1, <1>2, <1>3, <1>5, <1>7, <1>8, <2>1 DEF Denied
<1> QED BY <1>9, <1>10 DEF matcher

LEMMA Verdict ==
    ASSUME IInv, NEW d
    PROVE  MatcherDecide(NewMatcher(FileEntries \cup BlocklistEntries(db)), d)
              = IF Listed("allow", d) THEN "allow" ELSE IF Denied(d) THEN "block" ELSE "none"
<1>1. CASE validDomain(d)
  BY <1>1, EntriesDecide DEF MatcherDecide
<1>2. CASE ~validDomain(d)
  BY <1>2 DEF MatcherDecide, Listed, Denied, BesideTables
<1> QED BY <1>1, <1>2

ByLists(d) ==
    IF Listed("allow", d) THEN {Decision("allow", "list", 0)}
    ELSE IF Denied(d) THEN {Decision("block", "list", 0)} ELSE {}

(* What the runtime answers with the tables in service, level by level.    *)
LEMMA RuntimeLevels ==
    ASSUME IInv, NEW a \in Addresses, NEW d
    PROVE  RuntimeDecide(Snapshot(db).rules, Snapshot(db).matcher, a, d)
              = FirstOf(<<Level("allow", "exact", a, d), Level("allow", "regex", a, d),
                          Level("allow", "suffix", a, d), Level("deny", "exact", a, d),
                          ByLists(d),
                          Level("deny", "regex", a, d), Level("deny", "suffix", a, d)>>,
                        Decision("allow", "nothing", 0))
<1> DEFINE verdict == MatcherDecide(NewMatcher(FileEntries \cup BlocklistEntries(db)), d)
           text == String(Unmap(a))
<1>1. /\ Snapshot(db).rules = RuleSnapshot(db)
      /\ Snapshot(db).matcher = NewMatcher(FileEntries \cup BlocklistEntries(db))
      /\ RuleSnapshot(db).rules = decisionRules(db)
      /\ RuleSnapshot(db).clients[text] = clientGroupIDs(db, text)
      /\ text = Printed(a)
  BY PrintedForm DEF Snapshot, RuleSnapshot
<1>2. ASSUME NEW kind, NEW type
      PROVE  firstMatchingRule(RuleSnapshot(db).rules, RuleSnapshot(db).clients[text], d, kind, type)
                = Level(kind, type, a, d)
  BY <1>1, LevelDecides
<1>3. (IF verdict = "none" THEN {} ELSE {Decision(verdict, "list", 0)}) = ByLists(d)
  BY Verdict DEF ByLists
<1> QED BY <1>1, <1>2, <1>3 DEF RuntimeDecide

(* What the tables decide: the first level of rules with one that applies, *)
(* and between the exact and the other deny rules the lists.               *)
Silent(kind, type, a, d) == Applying(kind, type, a, d) = {}

ByRule(x, kind, type, a, d) ==
    x.action = actionForKind(kind) /\ x.by = "rule" /\ x.id = Least(Applying(kind, type, a, d))

Follows(x, a, d) ==
    IF ~Silent("allow", "exact", a, d) THEN ByRule(x, "allow", "exact", a, d)
    ELSE IF ~Silent("allow", "regex", a, d) THEN ByRule(x, "allow", "regex", a, d)
    ELSE IF ~Silent("allow", "suffix", a, d) THEN ByRule(x, "allow", "suffix", a, d)
    ELSE IF ~Silent("deny", "exact", a, d) THEN ByRule(x, "deny", "exact", a, d)
    ELSE IF Listed("allow", d) THEN x.action = "allow" /\ x.by = "list"
    ELSE IF Denied(d) THEN x.action = "block" /\ x.by = "list"
    ELSE IF ~Silent("deny", "regex", a, d) THEN ByRule(x, "deny", "regex", a, d)
    ELSE IF ~Silent("deny", "suffix", a, d) THEN ByRule(x, "deny", "suffix", a, d)
    ELSE x.action # "block" /\ x.by = "nothing"

LEMMA LevelDecision ==
    ASSUME NEW a, NEW d, NEW kind, NEW type, ~Silent(kind, type, a, d)
    PROVE  \E x : Level(kind, type, a, d) = {x} /\ ByRule(x, kind, type, a, d)
<1> DEFINE x == Decision(actionForKind(kind), "rule", Least(Applying(kind, type, a, d)))
<1>1. Level(kind, type, a, d) = {x}
  BY DEF Level, Silent
<1>2. ByRule(x, kind, type, a, d)
  BY DEF Decision, ByRule
<1> HIDE DEF x
<1> QED BY <1>1, <1>2

(* Alternatives in that order, whatever those of the lists are, at 5 up to *)
(* last - 2.                                                               *)
InOrder(alternatives, last, a, d) ==
    /\ last \in Nat /\ last >= 6 /\ Len(alternatives) = last
    /\ alternatives[1] = Level("allow", "exact", a, d)
    /\ alternatives[2] = Level("allow", "regex", a, d)
    /\ alternatives[3] = Level("allow", "suffix", a, d)
    /\ alternatives[4] = Level("deny", "exact", a, d)
    /\ Listed("allow", d) \/ Denied(d) =>
          \E k \in 5 .. last - 2 : \E x :
              /\ alternatives[k] = {x} /\ \A j \in 5 .. k - 1 : alternatives[j] = {}
              /\ x.action = (IF Listed("allow", d) THEN "allow" ELSE "block")
              /\ x.by = "list"
    /\ ~Listed("allow", d) /\ ~Denied(d) => \A j \in 5 .. last - 2 : alternatives[j] = {}
    /\ alternatives[last - 1] = Level("deny", "regex", a, d)
    /\ alternatives[last] = Level("deny", "suffix", a, d)

LEMMA AlternativesFollow ==
    ASSUME NEW a, NEW d, NEW alternatives, NEW last, InOrder(alternatives, last, a, d),
           NEW otherwise, otherwise.action # "block", otherwise.by = "nothing"
    PROVE  Follows(FirstOf(alternatives, otherwise), a, d)
<1> USE DEF InOrder
<1> DEFINE answer == FirstOf(alternatives, otherwise)
           Quiet(kind, type) == Silent(kind, type, a, d)
           Before(k) == \A j \in 1 .. k - 1 : alternatives[j] = {}
<1>1. SUFFICES Follows(answer, a, d)
  OBVIOUS
<1>2. \A kind, type : Quiet(kind, type) => Level(kind, type, a, d) = {}
  BY DEF Level, Silent
<1>3. ASSUME NEW k \in 1 .. last, NEW x, alternatives[k] = {x}, Before(k)
      PROVE  answer = x
  <2>1. FirstAt(alternatives, k, x)
    BY <1>3 DEF FirstAt
  <2> QED BY <2>1, FirstDecides
<1>4. ASSUME NEW kind, NEW type, ~Quiet(kind, type), NEW k \in 1 .. last,
             alternatives[k] = Level(kind, type, a, d), Before(k)
      PROVE  ByRule(answer, kind, type, a, d)
  <2>1. PICK x : Level(kind, type, a, d) = {x} /\ ByRule(x, kind, type, a, d)
    BY <1>4, LevelDecision
  <2>2. answer = x
    BY <1>3, <1>4, <2>1
  <2> QED BY <2>1, <2>2
<1>5. /\ Before(1)
      /\ \A k \in 1 .. last : Before(k) /\ alternatives[k] = {} => Before(k + 1)
  OBVIOUS
<1>6. Before(last + 1) => answer = otherwise
  BY NoneDecides
<1>7. CASE ~Quiet("allow", "exact")
  BY <1>7, <1>4, <1>5 DEF Follows
<1>8. CASE Quiet("allow", "exact") /\ ~Quiet("allow", "regex")
  <2>1. Before(2)
    BY <1>8, <1>2, <1>5
  <2> QED BY <1>8, <2>1, <1>4 DEF Follows
<1>9. CASE Quiet("allow", "exact") /\ Quiet("allow", "regex") /\ ~Quiet("allow", "suffix")
  <2>1. Before(2) /\ Before(3)
    BY <1>9, <1>2, <1>5
  <2> QED BY <1>9, <2>1, <1>4 DEF Follows
<1>10. CASE Quiet("allow", "exact") /\ Quiet("allow", "regex") /\ Quiet("allow", "suffix")
  <2>1. Before(2) /\ Before(3) /\ Before(4)
    BY <1>10, <1>2, <1>5
  <2>2. CASE ~Quiet("deny", "exact")
    BY <1>10, <2>1, <2>2, <1>4 DEF Follows
  <2>3. CASE Quiet("deny", "exact")
    <3>1. Before(5)
      BY <1>2, <1>5, <2>1, <2>3
    <3>2. CASE Listed("allow", d) \/ Denied(d)
      <4>1. PICK k \in 5 .. last - 2 : \E x :
                /\ alternatives[k] = {x} /\ \A j \in 5 .. k - 1 : alternatives[j] = {}
                /\ x.action = (IF Listed("allow", d) THEN "allow" ELSE "block")
                /\ x.by = "list"
        BY <3>2
      <4>2. Before(k)
        BY <3>1, <4>1
      <4>3. PICK x : /\ alternatives[k] = {x}
                     /\ x.action = (IF Listed("allow", d) THEN "allow" ELSE "block")
                     /\ x.by = "list"
        BY <4>1
      <4>4. answer = x
        <5>1. k \in 1 .. last
          OBVIOUS
        <5> QED BY <4>2, <4>3, <5>1, <1>3
      <4> QED BY <4>3, <4>4, <3>2, <2>3, <1>10 DEF Follows
    <3>3. CASE ~Listed("allow", d) /\ ~Denied(d)
      <4>1. Before(last - 1)
        BY <3>1, <3>3
      <4>2. CASE ~Quiet("deny", "regex")
        BY <1>4, <1>10, <2>3, <3>3, <4>1, <4>2 DEF Follows
      <4>3. CASE Quiet("deny", "regex")
        <5>1. Before(last)
          BY <1>2, <1>5, <4>1, <4>3
        <5>2. CASE ~Quiet("deny", "suffix")
          BY <1>4, <1>10, <2>3, <3>3, <4>3, <5>1, <5>2 DEF Follows
        <5>3. CASE Quiet("deny", "suffix")
          <6>1. Before(last + 1)
            BY <1>2, <1>5, <5>1, <5>3
          <6> QED BY <1>6, <1>10, <2>3, <3>3, <4>3, <5>3, <6>1 DEF Follows
        <5> QED BY <5>2, <5>3
      <4> QED BY <4>2, <4>3
    <3> QED BY <3>2, <3>3
  <2> QED BY <2>2, <2>3
<1> QED BY <1>7, <1>8, <1>9, <1>10

LEMMA RuntimeFollows ==
    ASSUME IInv, NEW a \in Addresses, NEW d
    PROVE  Follows(RuntimeDecide(Snapshot(db).rules, Snapshot(db).matcher, a, d), a, d)
<1> DEFINE alternatives == <<Level("allow", "exact", a, d), Level("allow", "regex", a, d),
                             Level("allow", "suffix", a, d), Level("deny", "exact", a, d),
                             ByLists(d),
                             Level("deny", "regex", a, d), Level("deny", "suffix", a, d)>>
           otherwise == Decision("allow", "nothing", 0)
<1>1. /\ Len(alternatives) = 7
      /\ alternatives[1] = Level("allow", "exact", a, d)
      /\ alternatives[2] = Level("allow", "regex", a, d)
      /\ alternatives[3] = Level("allow", "suffix", a, d)
      /\ alternatives[4] = Level("deny", "exact", a, d)
      /\ alternatives[5] = ByLists(d)
      /\ alternatives[7 - 1] = Level("deny", "regex", a, d)
      /\ alternatives[7] = Level("deny", "suffix", a, d)
  OBVIOUS
<1>2. otherwise.action # "block" /\ otherwise.by = "nothing"
  BY DEF Decision
<1> HIDE DEF alternatives, otherwise
<1>3. Listed("allow", d) \/ Denied(d) =>
        \E k \in 5 .. 7 - 2 : \E x :
            /\ alternatives[k] = {x} /\ \A j \in 5 .. k - 1 : alternatives[j] = {}
            /\ x.action = (IF Listed("allow", d) THEN "allow" ELSE "block")
            /\ x.by = "list"
  <2>1. SUFFICES ASSUME Listed("allow", d) \/ Denied(d)
                 PROVE  \E x : /\ alternatives[5] = {x}
                               /\ x.action = (IF Listed("allow", d) THEN "allow" ELSE "block")
                               /\ x.by = "list"
    OBVIOUS
  <2>2. PICK x : x = Decision(IF Listed("allow", d) THEN "allow" ELSE "block", "list", 0)
    OBVIOUS
  <2>3. ByLists(d) = {x}
    BY <2>1, <2>2 DEF ByLists
  <2>4. x.action = (IF Listed("allow", d) THEN "allow" ELSE "block") /\ x.by = "list"
    BY <2>2 DEF Decision
  <2> QED BY <1>1, <2>3, <2>4
<1>4. ~Listed("allow", d) /\ ~Denied(d) => \A j \in 5 .. 7 - 2 : alternatives[j] = {}
  BY <1>1 DEF ByLists
<1>5. Follows(FirstOf(alternatives, otherwise), a, d)
  <2>1. InOrder(alternatives, 7, a, d)
    BY <1>1, <1>3, <1>4 DEF InOrder
  <2> QED BY <1>2, <2>1, AlternativesFollow
<1> QED BY <1>5, RuntimeLevels DEF alternatives, otherwise

(* The preview reads the entries of the lists themselves.                  *)
LEMMA PreviewLists ==
    ASSUME IInv, db.listGroups = {}, NEW a, NEW d, validDomain(d), NEW kind,
           \A e \in db.entries : e.pattern.type # "regex" /\ validBlocklistDomain(e.pattern.name)
    PROVE  LET found == firstMatchingEntry(decisionEntries(db), clientGroupIDs(db, String(a)), d, kind)
           IN  /\ ~Listed(kind, d) => found = {}
               /\ Listed(kind, d) =>
                    \E x : found = {x} /\ x.action = actionForKind(kind) /\ x.by = "list"
<1> DEFINE hits == {e \in decisionEntries(db) :
                      /\ e.enabled
                      /\ e.kind = kind
                      /\ inScope(e.group, clientGroupIDs(db, String(a)))
                      /\ matchesPattern(d, e.pattern)}
<1>1. \A id : Scopes(db.listGroups, id) = {0}
  BY DEF Scopes
<1>2. ASSUME NEW h \in hits PROVE Listed(kind, d)
  <2>1. PICK e \in db.entries :
          h = [list |-> e.list, group |-> 0, pattern |-> e.pattern,
               kind |-> db.lists[e.list].kind,
               enabled |-> e.enabled /\ db.lists[e.list].enabled]
    BY <1>1 DEF decisionEntries
  <2>2. /\ h.pattern = e.pattern /\ h.kind = db.lists[e.list].kind
        /\ h.enabled <=> e.enabled /\ db.lists[e.list].enabled
    BY <2>1
  <2>3. h.enabled /\ h.kind = kind /\ matchesPattern(d, h.pattern)
    OBVIOUS
  <2> QED BY <2>2, <2>3 DEF Listed
<1>3. ASSUME Listed(kind, d) PROVE hits # {}
  <2>1. PICK e \in db.entries :
          /\ e.enabled /\ db.lists[e.list].enabled
          /\ db.lists[e.list].kind = kind
          /\ matchesPattern(d, e.pattern)
    BY <1>3 DEF Listed
  <2>2. PICK h : h = [list |-> e.list, group |-> 0, pattern |-> e.pattern,
                      kind |-> db.lists[e.list].kind,
                      enabled |-> e.enabled /\ db.lists[e.list].enabled]
    OBVIOUS
  <2>3. h \in decisionEntries(db)
    BY <1>1, <2>2 DEF decisionEntries
  <2>4. /\ h.enabled /\ h.kind = kind /\ h.group = 0
        /\ matchesPattern(d, h.pattern)
    BY <2>1, <2>2
  <2> QED BY <2>3, <2>4 DEF inScope
<1> HIDE DEF hits
<1>4. firstMatchingEntry(decisionEntries(db), clientGroupIDs(db, String(a)), d, kind)
        = IF hits = {} THEN {}
          ELSE {Decision(actionForKind(kind), "list", Least({e.list : e \in hits}))}
  BY DEF firstMatchingEntry, hits
<1>5. \A id : LET x == Decision(actionForKind(kind), "list", id)
              IN  x.action = actionForKind(kind) /\ x.by = "list"
  BY DEF Decision
<1> QED BY <1>2, <1>3, <1>4, <1>5

LEMMA PreviewFollows ==
    ASSUME IInv, db.listGroups = {}, NEW a, NEW d, validDomain(d), ~BesideTables(d),
           String(a) = Printed(a),
           \A e \in db.entries : e.pattern.type # "regex" /\ validBlocklistDomain(e.pattern.name)
    PROVE  Follows(PreviewDecide(db, a, d), a, d)
<1> DEFINE entry(kind) == firstMatchingEntry(decisionEntries(db), clientGroupIDs(db, String(a)), d, kind)
           alternatives == <<Level("allow", "exact", a, d), Level("allow", "regex", a, d),
                             Level("allow", "suffix", a, d), Level("deny", "exact", a, d),
                             entry("allow"), entry("deny"),
                             Level("deny", "regex", a, d), Level("deny", "suffix", a, d)>>
           otherwise == Decision("none", "nothing", 0)
<1>1. /\ ~Listed("allow", d) => entry("allow") = {}
      /\ Listed("allow", d) => \E x : entry("allow") = {x} /\ x.action = "allow" /\ x.by = "list"
      /\ ~Listed("deny", d) => entry("deny") = {}
      /\ Listed("deny", d) => \E x : entry("deny") = {x} /\ x.action = "block" /\ x.by = "list"
  <2>1. actionForKind("allow") = "allow" /\ actionForKind("deny") = "block"
    BY DEF actionForKind
  <2> QED BY <2>1, PreviewLists
<1>2. Denied(d) <=> Listed("deny", d)
  BY DEF Denied
<1> HIDE DEF entry
<1>3. /\ Len(alternatives) = 8
      /\ alternatives[1] = Level("allow", "exact", a, d)
      /\ alternatives[2] = Level("allow", "regex", a, d)
      /\ alternatives[3] = Level("allow", "suffix", a, d)
      /\ alternatives[4] = Level("deny", "exact", a, d)
      /\ alternatives[5] = entry("allow")
      /\ alternatives[6] = entry("deny")
      /\ alternatives[8 - 1] = Level("deny", "regex", a, d)
      /\ alternatives[8] = Level("deny", "suffix", a, d)
  OBVIOUS
<1>4. otherwise.action # "block" /\ otherwise.by = "nothing"
  BY DEF Decision
<1> HIDE DEF alternatives, otherwise
<1>5. Listed("allow", d) \/ Denied(d) =>
        \E k \in 5 .. 8 - 2 : \E x :
            /\ alternatives[k] = {x} /\ \A j \in 5 .. k - 1 : alternatives[j] = {}
            /\ x.action = (IF Listed("allow", d) THEN "allow" ELSE "block")
            /\ x.by = "list"
  <2>1. CASE Listed("allow", d)
    <3>1. PICK x : alternatives[5] = {x} /\ x.action = "allow" /\ x.by = "list"
      BY <2>1, <1>1, <1>3
    <3> QED BY <2>1, <3>1
  <2>2. CASE ~Listed("allow", d) /\ Listed("deny", d)
    <3>1. PICK x : alternatives[6] = {x} /\ x.action = "block" /\ x.by = "list"
      BY <2>2, <1>1, <1>3
    <3>2. \A j \in 5 .. 6 - 1 : alternatives[j] = {}
      BY <2>2, <1>1, <1>3
    <3> QED BY <2>2, <3>1, <3>2
  <2> QED BY <2>1, <2>2, <1>2
<1>6. ~Listed("allow", d) /\ ~Denied(d) => \A j \in 5 .. 8 - 2 : alternatives[j] = {}
  BY <1>1, <1>2, <1>3
<1>7. Follows(FirstOf(alternatives, otherwise), a, d)
  <2>1. InOrder(alternatives, 8, a, d)
    BY <1>3, <1>5, <1>6 DEF InOrder
  <2> QED BY <1>4, <2>1, AlternativesFollow
<1>8. ASSUME NEW kind, NEW type
      PROVE  firstMatchingRule(decisionRules(db), clientGroupIDs(db, String(a)), d, kind, type)
                = Level(kind, type, a, d)
  BY LevelDecides
<1> QED BY <1>7, <1>8 DEF PreviewDecide, alternatives, otherwise, entry

-----------------------------------------------------------------------------
(* To decide so is to decide as the tables mean it.                        *)
LEMMA FollowsMeans ==
    ASSUME IInv, NEW a, NEW d, NEW x, Follows(x, a, d)
    PROVE  /\ (x.action = "block") <=> Blocked(a, d)
           /\ x.by = "rule" => Oldest(x.id, a, d)
<1> DEFINE quiet(kind, type) == Silent(kind, type, a, d)
<1>1. actionForKind("allow") = "allow" /\ actionForKind("deny") = "block"
  BY DEF actionForKind
<1>2. Blocked(a, d) <=>
        /\ quiet("allow", "exact") /\ quiet("allow", "regex") /\ quiet("allow", "suffix")
        /\ \/ ~quiet("deny", "exact")
           \/ /\ ~Listed("allow", d)
              /\ Denied(d) \/ ~quiet("deny", "regex") \/ ~quiet("deny", "suffix")
  <2> DEFINE says(kind, types) ==
                \E r \in DOMAIN db.rules :
                    /\ db.rules[r].kind = kind
                    /\ db.rules[r].pattern.type \in types
                    /\ RuleApplies(r, a, d)
  <2>1. \A kind, types : says(kind, types) <=> \E t \in types : ~quiet(kind, t)
    BY DEF Applying, Silent
  <2>2. Blocked(a, d) <=>
          /\ ~says("allow", {"exact", "regex", "suffix"})
          /\ \/ says("deny", {"exact"})
             \/ /\ ~Listed("allow", d)
                /\ Denied(d) \/ says("deny", {"regex", "suffix"})
    BY DEF Blocked, Denied
  <2> HIDE DEF says, quiet
  <2> QED BY <2>1, <2>2
<1>3. \A kind, type : ~quiet(kind, type) /\ ByRule(x, kind, type, a, d) => Oldest(x.id, a, d)
  BY LevelOldest DEF ByRule, Silent
<1>4. (x.action = "block") <=> Blocked(a, d)
  BY <1>1, <1>2 DEF Follows, ByRule
<1>5. x.by = "rule" => Oldest(x.id, a, d)
  BY <1>3 DEF Follows
<1> QED BY <1>4, <1>5

LEMMA FollowsAgree ==
    ASSUME NEW a, NEW d, NEW x, NEW y, Follows(x, a, d), Follows(y, a, d)
    PROVE  /\ (x.action = "block") <=> (y.action = "block")
           /\ x.by = y.by
           /\ x.by = "rule" => x.id = y.id
BY DEF Follows, ByRule, actionForKind

-----------------------------------------------------------------------------
(* Once the reloads that edits ask for have succeeded, queries are decided *)
(* as the tables say, and logged with the oldest rule of the deciding      *)
(* level, for every table content, client and name (RuleDecider.Decide     *)
(* over Manager.Decide, and the reloads of the handlers).                  *)
THEOREM QueriesFollowTables == Spec => []DecisionsFollowTables
<1>1. ASSUME IInv PROVE DecisionsFollowTables
  <2>1. SUFFICES ASSUME reload = "done", NEW a \in Addresses, NEW d \in Names
                 PROVE  /\ (Answer(a, d).action = "block") <=> Blocked(a, d)
                        /\ Answer(a, d).by = "rule" => Oldest(Answer(a, d).id, a, d)
    BY DEF DecisionsFollowTables
  <2>2. Follows(Answer(a, d), a, d)
    BY <1>1, <2>1, RuntimeFollows DEF IInv, ServedInv, Answer
  <2> QED BY <1>1, <2>2, FollowsMeans
<1> QED BY <1>1, InductiveInvariant, PTL

(* The preview of the console and the runtime, two programs for one        *)
(* policy, decide alike wherever they read the same (Service.Decide).      *)
THEOREM PreviewFollowsRuntime == Spec => []PreviewAgrees
<1>1. ASSUME IInv PROVE PreviewAgrees
  <2>1. SUFFICES ASSUME reload = "done", db.listGroups = {},
                        \A e \in db.entries :
                            e.pattern.type # "regex" /\ validBlocklistDomain(e.pattern.name),
                        NEW a \in Addresses, ~a.mapped,
                        NEW d \in Names \ Malformed, ~BesideTables(d)
                 PROVE  LET preview == PreviewDecide(db, a, d)
                        IN  /\ (preview.action = "block") <=> (Answer(a, d).action = "block")
                            /\ preview.by = Answer(a, d).by
                            /\ preview.by = "rule" => preview.id = Answer(a, d).id
    BY DEF PreviewAgrees
  <2>2. Follows(Answer(a, d), a, d)
    BY <1>1, <2>1, RuntimeFollows DEF IInv, ServedInv, Answer
  <2>3. Follows(PreviewDecide(db, a, d), a, d)
    BY <1>1, <2>1, PreviewFollows, PrintedForm DEF validDomain
  <2> QED BY <2>2, <2>3, FollowsAgree
<1> QED BY <1>1, InductiveInvariant, PTL
=============================================================================
