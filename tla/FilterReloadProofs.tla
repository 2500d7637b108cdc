------------------------- MODULE FilterReloadProofs -------------------------
(***************************************************************************)
(* Proofs about the reloads of the filter runtime (FilterReload), for any  *)
(* number of callers, queries, edits, ended contexts and failed reads.     *)
(***************************************************************************)
EXTENDS FilterReload, FiniteSetTheorems, TLAPS

-----------------------------------------------------------------------------
(* What a caller has done with a part in the Reload it is in: it is still  *)
(* to be read, it has been read and not installed, it is in service.       *)

Due(c, p) ==
    \/ pc[c] \in {"waiting", "locked"}
    \/ pc[c] \in {"store", "rules"} /\ p # "entries"
    \/ pc[c] = "clients" /\ p = "clients"

InHand(c, p) ==
    \/ pc[c] = "store" /\ p = "entries"
    \/ pc[c] = "clients" /\ p = "rules"
    \/ pc[c] = "snapshot" /\ p # "entries"

Installed(c, p) ==
    \/ pc[c] \in {"rules", "clients", "snapshot"} /\ p = "entries"
    \/ pc[c] = "decider"

-----------------------------------------------------------------------------
(* The inductive invariant.                                                *)

(* Whoever is between Lock and Unlock holds the mutex.                     *)
MutexInv == \A c \in Callers : pc[c] \notin {"idle", "waiting"} <=> mu = c

(* Nothing is newer than what is committed.                                *)
TableInv ==
    /\ \A p \in Parts : table[p] <= edits
    /\ Covers(table, InService)
    /\ \A c \in Callers : Covers(table, loaded[c]) /\ Covers(table, wants[c])

(* What the holder has in hand is as new as what is in service and as what *)
(* it was called for; what it has installed, as what it was called for.    *)
HolderInv ==
    \A c \in Callers, p \in Parts :
        /\ InHand(c, p) => InService[p] <= loaded[c][p] /\ wants[c][p] <= loaded[c][p]
        /\ Installed(c, p) => wants[c][p] <= InService[p]

(* What a query has not yet loaded is in service; what it has loaded was.  *)
QueryInv ==
    \A q \in Queries :
        LET asked == query[q].floor
            used  == query[q].used
        IN  /\ query[q].at = "snapshot" => Covers(InService, asked)
            /\ query[q].at = "matcher" =>
                  /\ asked["entries"] <= matcher
                  /\ asked["rules"] <= used["rules"]
                  /\ asked["clients"] <= used["clients"]

(* As long as no reload fails, somebody will bring what is not in service  *)
(* and was not left without a reload.                                      *)
CarriedInv ==
    ~failed =>
        /\ \A p \in Parts \ skipped :
              \/ InService[p] = table[p]
              \/ \E c \in Callers :
                    Due(c, p) \/ (InHand(c, p) /\ loaded[c][p] = table[p])
        /\ decider = "rules" \/ \E c \in Callers : ~At(c, "idle")

IInv ==
    /\ TypeOK
    /\ MutexInv
    /\ TableInv
    /\ HolderInv
    /\ SuccessIsActive
    /\ QueryInv
    /\ QueryIsCurrent
    /\ CarriedInv

-----------------------------------------------------------------------------
(* What is in service is a version of every part.                          *)
LEMMA ServiceTyped == ASSUME TypeOK PROVE InService \in Versions
BY DEF TypeOK, InService, Versions, Parts

(* Each action keeps it.                                                   *)

LEMMA InitKeeps == Init => IInv
<1> SUFFICES ASSUME Init PROVE IInv  OBVIOUS
<1> USE FilterReloadAssumption DEF FilterReloadAssumption
<1>1. Zero \in Versions /\ \A p \in Parts : Zero[p] = 0  BY DEF Zero, Versions
<1>2. TypeOK
  <2>1. NoQuery \in [at    : {"none", "snapshot", "matcher", "answered"},
                     floor : Versions,
                     used  : Versions]
    BY <1>1 DEF NoQuery
  <2>2. snapshot \in [{"rules", "clients"} -> 0 .. MaxEdits]  BY DEF Init
  <2>3. query \in [Queries -> [at    : {"none", "snapshot", "matcher", "answered"},
                               floor : Versions,
                               used  : Versions]]
    BY <2>1 DEF Init
  <2>4. pc \in [Callers -> {"idle", "waiting", "locked", "store", "rules", "clients",
                            "snapshot", "decider"}]
    BY DEF Init
  <2>5. loaded \in [Callers -> Versions] /\ wants \in [Callers -> Versions]
    BY <1>1 DEF Init
  <2>6. failed \in BOOLEAN  BY DEF Init
  <2>7. QED  BY <1>1, <2>2, <2>3, <2>4, <2>5, <2>6 DEF TypeOK, Init
<1>3. MutexInv  BY DEF MutexInv, Init, Callers
<1>4. InService = Zero  BY DEF InService, Zero, Init, Parts
<1>5. TableInv  BY <1>1, <1>4 DEF TableInv, Init, Covers
<1>6. HolderInv  BY DEF HolderInv, InHand, Installed, Init
<1>7. SuccessIsActive  BY <1>1, <1>4 DEF SuccessIsActive, Init, Covers
<1>8. QueryInv /\ QueryIsCurrent  BY DEF QueryInv, QueryIsCurrent, Init, NoQuery
<1>9. CarriedInv
  <2>1. InService = table  BY <1>4 DEF Init
  <2>2. Loader \in Callers /\ ~At(Loader, "idle")  BY DEF Init, Callers, At
  <2>3. QED  BY <2>1, <2>2 DEF CarriedInv
<1>10. QED  BY <1>2, <1>3, <1>5, <1>6, <1>7, <1>8, <1>9 DEF IInv

(* An edit makes its caller due for every part.                            *)
LEMMA EditKeeps ==
    ASSUME IInv, NEW c \in Callers, NEW p \in Parts, Edit(c, p) PROVE IInv'
<1> USE FilterReloadAssumption DEF FilterReloadAssumption
<1>1. /\ table' = [table EXCEPT ![p] = @ + 1]
      /\ wants' = [wants EXCEPT ![c] = table']
      /\ pc' = [pc EXCEPT ![c] = "waiting"]
      /\ pc[c] = "idle"
      /\ edits' = edits + 1 /\ edits < MaxEdits
      /\ skipped' = {}
      /\ UNCHANGED <<mu, gone, loaded, matcher, snapshot, decider, query, ends,
                     faults, acked, before, failed>>
  BY DEF Edit, Commit, At, Goto, served
<1>2. /\ \A a \in Parts : table[a] <= table'[a] /\ table'[a] <= edits'
      /\ table' \in Versions
  BY <1>1 DEF IInv, TypeOK, TableInv, Versions
<1>3. TypeOK'
  <2>1. query' \in [Queries -> [at    : {"none", "snapshot", "matcher", "answered"},
                                floor : Versions,
                                used  : Versions]]
    BY <1>1 DEF IInv, TypeOK
  <2>2. QED  BY <1>1, <1>2, <2>1 DEF IInv, TypeOK
<1>4. InService' = InService  BY <1>1 DEF InService
<1>5. MutexInv'  BY <1>1 DEF IInv, TypeOK, MutexInv
<1>6. TableInv'
  <2>1. Covers(table', InService')
    BY <1>1, <1>2, <1>4, ServiceTyped DEF IInv, TableInv, Covers, TypeOK, Versions
  <2>2. ASSUME NEW d \in Callers PROVE Covers(table', loaded'[d])
    BY <1>1, <1>2 DEF IInv, TableInv, Covers, TypeOK, Versions
  <2>3. ASSUME NEW d \in Callers PROVE Covers(table', wants'[d])
    BY <1>1, <1>2 DEF IInv, TableInv, Covers, TypeOK, Versions
  <2>4. QED  BY <1>2, <2>1, <2>2, <2>3 DEF TableInv
<1>7. HolderInv'
  BY <1>1, <1>4 DEF IInv, TypeOK, HolderInv, InHand, Installed
<1>8. SuccessIsActive'  BY <1>1, <1>4 DEF IInv, SuccessIsActive, Covers
<1>9. QueryInv' /\ QueryIsCurrent'
  BY <1>1, <1>4 DEF IInv, QueryInv, QueryIsCurrent, Covers
<1>10. CarriedInv'
  BY <1>1 DEF IInv, TypeOK, CarriedInv, Due, At
<1>11. QED  BY <1>3, <1>5, <1>6, <1>7, <1>8, <1>9, <1>10 DEF IInv

(* An edit without a reload leaves the other parts as they are.            *)
LEMMA EditReportsErrorKeeps ==
    ASSUME IInv, NEW c \in Callers, NEW p \in Parts, EditReportsError(c, p) PROVE IInv'
<1> USE FilterReloadAssumption DEF FilterReloadAssumption
<1>1. /\ table' = [table EXCEPT ![p] = @ + 1]
      /\ edits' = edits + 1 /\ edits < MaxEdits
      /\ faults' = faults + 1 /\ faults < MaxFaults
      /\ skipped' = skipped \cup {p}
      /\ UNCHANGED <<pc, mu, gone, loaded, matcher, snapshot, decider, query, ends,
                     wants, acked, before, failed>>
  BY DEF EditReportsError, Commit, served
<1>2. /\ \A a \in Parts : table[a] <= table'[a] /\ table'[a] <= edits'
      /\ \A a \in Parts \ {p} : table'[a] = table[a]
      /\ table' \in Versions
  BY <1>1 DEF IInv, TypeOK, TableInv, Versions
<1>3. TypeOK'  BY <1>1, <1>2 DEF IInv, TypeOK
<1>4. InService' = InService  BY <1>1 DEF InService
<1>5. MutexInv'  BY <1>1 DEF IInv, MutexInv
<1>6. TableInv'
  <2>1. \A v \in Versions : Covers(table, v) => Covers(table', v)
    BY <1>2 DEF IInv, TypeOK, Covers, Versions
  <2>2. InService \in Versions /\ \A d \in Callers : loaded[d] \in Versions /\ wants[d] \in Versions
    BY ServiceTyped DEF IInv, TypeOK
  <2>3. QED  BY <1>1, <1>2, <1>4, <2>1, <2>2 DEF IInv, TableInv
<1>7. HolderInv'  BY <1>1, <1>4 DEF IInv, HolderInv, InHand, Installed
<1>8. SuccessIsActive' /\ QueryInv' /\ QueryIsCurrent'
  BY <1>1, <1>4 DEF IInv, SuccessIsActive, QueryInv, QueryIsCurrent
<1>9. CarriedInv'
  BY <1>1, <1>2, <1>4 DEF IInv, CarriedInv, Due, InHand, At
<1>10. QED  BY <1>3, <1>5, <1>6, <1>7, <1>8, <1>9 DEF IInv

(* A context that ends changes nothing by itself.                          *)
LEMMA EndKeeps == ASSUME IInv, NEW c \in Callers, End(c) PROVE IInv'
<1>1. /\ gone' \subseteq Callers
      /\ ends' \in 0 .. MaxGone
      /\ UNCHANGED <<table, pc, mu, loaded, served, query, edits, faults, wants,
                     acked, before, failed, skipped>>
  BY FilterReloadAssumption DEF End, IInv, TypeOK
<1>2. InService' = InService  BY <1>1 DEF InService, served
<1>3. TypeOK'  BY <1>1 DEF IInv, TypeOK, served
<1>4. MutexInv' /\ TableInv'  BY <1>1, <1>2 DEF IInv, MutexInv, TableInv
<1>5. HolderInv'  BY <1>1, <1>2 DEF IInv, HolderInv, InHand, Installed
<1>6. SuccessIsActive' /\ QueryInv' /\ QueryIsCurrent'
  BY <1>1, <1>2 DEF IInv, SuccessIsActive, QueryInv, QueryIsCurrent, served
<1>7. CarriedInv'
  BY <1>1, <1>2 DEF IInv, CarriedInv, Due, InHand, At, served
<1>8. QED  BY <1>3, <1>4, <1>5, <1>6, <1>7 DEF IInv

(* The caller that gets the mutex is due for every part, as before.        *)
LEMMA LockKeeps == ASSUME IInv, NEW c \in Callers, Lock(c) PROVE IInv'
<1> USE FilterReloadAssumption DEF FilterReloadAssumption
<1>1. /\ pc[c] = "waiting"
      /\ mu = NoCaller
      /\ mu' = c
      /\ before' = matcher
      /\ pc' = [pc EXCEPT ![c] = "locked"]
      /\ UNCHANGED <<table, gone, loaded, matcher, snapshot, decider, query, edits,
                     ends, faults, wants, acked, failed, skipped>>
  BY DEF Lock, At, Goto, served, bounds
<1>2. InService' = InService  BY <1>1 DEF InService
<1>3. TypeOK'  BY <1>1 DEF IInv, TypeOK
<1>4. MutexInv'  BY <1>1 DEF IInv, TypeOK, MutexInv
<1>5. TableInv'  BY <1>1, <1>2 DEF IInv, TableInv
<1>6. HolderInv'  BY <1>1, <1>2 DEF IInv, TypeOK, HolderInv, InHand, Installed
<1>7. SuccessIsActive' /\ QueryInv' /\ QueryIsCurrent'
  BY <1>1, <1>2 DEF IInv, SuccessIsActive, QueryInv, QueryIsCurrent
<1>8. CarriedInv'
  BY <1>1, <1>2 DEF IInv, TypeOK, CarriedInv, Due, InHand, At
<1>9. QED  BY <1>3, <1>4, <1>5, <1>6, <1>7, <1>8 DEF IInv

(* An error path releases the mutex and leaves what is in service alone.   *)
LEMMA FailKeeps ==
    ASSUME IInv, NEW c \in Callers, pc[c] \notin {"idle", "waiting"}, ReadFails(c)
    PROVE  IInv'
<1> USE FilterReloadAssumption DEF FilterReloadAssumption
<1>1. /\ pc' = [pc EXCEPT ![c] = "idle"]
      /\ mu' = NoCaller
      /\ gone' \subseteq Callers
      /\ loaded' = [loaded EXCEPT ![c] = Zero]
      /\ failed' = TRUE
      /\ faults' \in 0 .. MaxFaults
      /\ UNCHANGED <<table, matcher, snapshot, decider, query, edits, ends, wants,
                     acked, before, skipped>>
  BY DEF ReadFails, Fail, Goto, Left, served, IInv, TypeOK
<1>2. InService' = InService  BY <1>1 DEF InService
<1>3. Zero \in Versions /\ \A p \in Parts : Zero[p] = 0  BY DEF Zero, Versions
<1>4. TypeOK'  BY <1>1, <1>3 DEF IInv, TypeOK
<1>5. MutexInv'  BY <1>1 DEF IInv, TypeOK, MutexInv
<1>6. TableInv'
  BY <1>1, <1>2, <1>3 DEF IInv, TypeOK, TableInv, Covers, Versions
<1>7. HolderInv'
  BY <1>1, <1>2 DEF IInv, TypeOK, HolderInv, InHand, Installed
<1>8. SuccessIsActive' /\ QueryInv' /\ QueryIsCurrent' /\ CarriedInv'
  BY <1>1, <1>2 DEF IInv, SuccessIsActive, QueryInv, QueryIsCurrent, CarriedInv
<1>9. QED  BY <1>4, <1>5, <1>6, <1>7, <1>8 DEF IInv

(* What the holder reads is the newest there is, so it is at least as new  *)
(* as what is in service and as what the holder was called for.            *)
LEMMA ReadKeeps ==
    ASSUME IInv, NEW c \in Callers, NEW p \in Parts, NEW to, Read(c, p), Goto(c, to),
           \/ pc[c] = "locked" /\ p = "entries" /\ to = "store"
           \/ pc[c] = "rules" /\ p = "rules" /\ to = "clients"
           \/ pc[c] = "clients" /\ p = "clients" /\ to = "snapshot"
    PROVE  IInv'
<1> USE FilterReloadAssumption DEF FilterReloadAssumption
<1>1. /\ pc' = [pc EXCEPT ![c] = to]
      /\ loaded' = [loaded EXCEPT ![c][p] = table[p]]
      /\ UNCHANGED <<table, mu, gone, matcher, snapshot, decider, query, edits, ends,
                     faults, wants, acked, before, failed, skipped>>
  BY DEF Read, Goto, served, bounds
<1>2. InService' = InService  BY <1>1 DEF InService
<1>3. /\ loaded'[c][p] = table[p]
      /\ \A a \in Parts \ {p} : loaded'[c][a] = loaded[c][a]
      /\ \A d \in Callers \ {c} : loaded'[d] = loaded[d]
      /\ loaded' \in [Callers -> Versions]
  BY <1>1 DEF IInv, TypeOK, Versions
<1>4. TypeOK'  BY <1>1, <1>3 DEF IInv, TypeOK
<1>5. MutexInv'  BY <1>1 DEF IInv, TypeOK, MutexInv
<1>6. TableInv'
  BY <1>1, <1>2, <1>3 DEF IInv, TypeOK, TableInv, Covers, Versions
<1>7. HolderInv'
  BY <1>1, <1>2, <1>3 DEF IInv, TypeOK, TableInv, HolderInv, InHand, Installed, Covers, Parts
<1>8. SuccessIsActive' /\ QueryInv' /\ QueryIsCurrent'
  BY <1>1, <1>2 DEF IInv, SuccessIsActive, QueryInv, QueryIsCurrent
<1>9. CarriedInv'
  BY <1>1, <1>2, <1>3 DEF IInv, TypeOK, CarriedInv, Due, InHand, At, Parts
<1>10. QED  BY <1>4, <1>5, <1>6, <1>7, <1>8, <1>9 DEF IInv

(* What only grows in service covers all that it covered before.           *)
LEMMA GrowthKeeps ==
    ASSUME IInv, InService' \in Versions, Covers(InService', InService),
           UNCHANGED <<decider, query, acked>>, TypeOK'
    PROVE  SuccessIsActive' /\ QueryInv' /\ QueryIsCurrent'
<1>1. InService \in Versions  BY ServiceTyped DEF IInv
<1>2. \A w \in Versions : Covers(InService, w) => Covers(InService', w)
  BY <1>1, FilterReloadAssumption DEF Covers, Versions
<1>3. acked \in Versions /\ \A q \in Queries : query[q].floor \in Versions
  BY DEF IInv, TypeOK
<1>4. SuccessIsActive'  BY <1>2, <1>3 DEF IInv, SuccessIsActive
<1>5. matcher \in Nat /\ matcher' \in Nat /\ matcher <= matcher'
  <2>1. "entries" \in Parts  BY DEF Parts
  <2>2. InService["entries"] = matcher /\ InService'["entries"] = matcher'
    BY <2>1 DEF InService
  <2>3. QED
    BY <1>1, <2>1, <2>2, FilterReloadAssumption DEF Covers, Versions
<1>6. ASSUME NEW q \in Queries, query[q].floor["entries"] <= matcher
      PROVE  query[q].floor["entries"] <= matcher'
  BY <1>3, <1>5, <1>6, FilterReloadAssumption DEF Versions, Parts
<1>7. QueryInv'  BY <1>2, <1>3, <1>6 DEF IInv, QueryInv
<1>8. QueryIsCurrent'  BY DEF IInv, QueryIsCurrent
<1>9. QED  BY <1>4, <1>7, <1>8

(* Only the holder of the mutex is past Lock.                              *)
LEMMA OneHolder ==
    ASSUME IInv, NEW c \in Callers, NEW d \in Callers,
           pc[c] \notin {"idle", "waiting"}, pc[d] \notin {"idle", "waiting"}
    PROVE  c = d
BY DEF IInv, MutexInv

LEMMA StoreMatcherKeeps ==
    ASSUME IInv, NEW c \in Callers, StoreMatcher(c)
    PROVE  IInv' /\ Covers(InService', InService)
<1> USE FilterReloadAssumption DEF FilterReloadAssumption
<1>1. /\ pc[c] = "store"
      /\ pc' = [pc EXCEPT ![c] = "rules"]
      /\ matcher' = loaded[c]["entries"]
      /\ UNCHANGED <<table, mu, gone, loaded, snapshot, decider, query, edits, ends,
                     faults, wants, acked, before, failed, skipped>>
  BY DEF StoreMatcher, At, Goto, bounds
<1>2. /\ InService'["entries"] = loaded[c]["entries"]
      /\ \A p \in Parts \ {"entries"} : InService'[p] = InService[p]
  BY <1>1 DEF InService, Parts
<1>3. TypeOK'
  BY <1>1 DEF IInv, TypeOK, Versions, Parts
<1>4. InService \in Versions /\ InService' \in Versions
  BY <1>3, ServiceTyped DEF IInv, TypeOK, InService, Versions, Parts
<1>5. InHand(c, "entries")  BY <1>1 DEF InHand
<1>6. Covers(InService', InService)
  BY <1>2, <1>4, <1>5 DEF IInv, HolderInv, Covers, Versions, Parts
<1>7. MutexInv'  BY <1>1 DEF IInv, TypeOK, MutexInv
<1>8. TableInv'
  BY <1>1, <1>2 DEF IInv, TableInv, Covers, Parts
<1>9. HolderInv'
  <2> SUFFICES ASSUME NEW d \in Callers, NEW p \in Parts
               PROVE  /\ InHand(d, p)' => /\ InService'[p] <= loaded[d][p]
                                          /\ wants[d][p] <= loaded[d][p]
                      /\ Installed(d, p)' => wants[d][p] <= InService'[p]
    BY <1>1 DEF HolderInv
  <2>1. CASE d = c
    <3>1. ~InHand(c, p)'  BY <1>1, <2>1 DEF InHand, IInv, TypeOK
    <3>2. Installed(c, p)' => p = "entries"
      BY <1>1 DEF Installed, IInv, TypeOK
    <3>3. wants[c]["entries"] <= InService'["entries"]
      BY <1>2, <1>5 DEF IInv, HolderInv, Parts
    <3>4. QED  BY <2>1, <3>1, <3>2, <3>3
  <2>2. CASE d # c
    <3>1. pc'[d] = pc[d] /\ pc[d] \in {"idle", "waiting"}
      BY <1>1, <2>2, OneHolder DEF IInv, TypeOK
    <3>2. QED  BY <3>1 DEF InHand, Installed
  <2>3. QED  BY <2>1, <2>2
<1>10. SuccessIsActive' /\ QueryInv' /\ QueryIsCurrent'
  BY <1>1, <1>3, <1>4, <1>6, GrowthKeeps
<1>11. CarriedInv'
  <2> SUFFICES ASSUME ~failed
               PROVE  /\ \A p \in Parts \ skipped :
                           \/ InService'[p] = table[p]
                           \/ \E d \in Callers :
                                 \/ Due(d, p)'
                                 \/ InHand(d, p)' /\ loaded[d][p] = table[p]
                      /\ decider = "rules" \/ \E d \in Callers : ~At(d, "idle")'
    BY <1>1 DEF CarriedInv
  <2>1. ~At(c, "idle")'  BY <1>1 DEF At, IInv, TypeOK
  <2>2. ASSUME NEW p \in Parts \ skipped
        PROVE  \/ InService'[p] = table[p]
               \/ \E d \in Callers :
                     Due(d, p)' \/ (InHand(d, p)' /\ loaded[d][p] = table[p])
    <3>1. CASE InService[p] = table[p]
      <4>1. /\ InService[p] \in Nat
            /\ InService'[p] \in Nat
            /\ InService[p] <= InService'[p]
            /\ InService'[p] <= table[p]
        BY <1>1, <1>4, <1>6, <1>8 DEF TableInv, Covers, Versions
      <4>2. QED  BY <3>1, <4>1
    <3>2. CASE InService[p] # table[p]
      <4>1. PICK d \in Callers :
               Due(d, p) \/ (InHand(d, p) /\ loaded[d][p] = table[p])
        BY <3>2 DEF IInv, CarriedInv
      <4>2. CASE d = c /\ p = "entries"
        BY <1>1, <1>2, <4>1, <4>2 DEF Due
      <4>3. CASE d = c /\ p # "entries"
        BY <1>1, <4>1, <4>3 DEF Due, InHand, IInv, TypeOK
      <4>4. CASE d # c
        BY <1>1, <4>1, <4>4 DEF Due, InHand, IInv, TypeOK
      <4>5. QED  BY <4>2, <4>3, <4>4
    <3>3. QED  BY <3>1, <3>2
  <2>3. QED  BY <2>1, <2>2
<1>12. QED  BY <1>3, <1>6, <1>7, <1>8, <1>9, <1>10, <1>11 DEF IInv

LEMMA StoreSnapshotKeeps ==
    ASSUME IInv, NEW c \in Callers, StoreSnapshot(c)
    PROVE  IInv' /\ Covers(InService', InService)
<1> USE FilterReloadAssumption DEF FilterReloadAssumption
<1>1. /\ pc[c] = "snapshot"
      /\ pc' = [pc EXCEPT ![c] = "decider"]
      /\ snapshot' = [p \in {"rules", "clients"} |-> loaded[c][p]]
      /\ UNCHANGED <<table, mu, gone, loaded, matcher, decider, query, edits, ends,
                     faults, wants, acked, before, failed, skipped>>
  BY DEF StoreSnapshot, At, Goto, bounds
<1>2. /\ InService'["entries"] = InService["entries"]
      /\ \A p \in Parts \ {"entries"} : InService'[p] = loaded[c][p]
  BY <1>1 DEF InService, Parts
<1>3. TypeOK'
  <2>1. snapshot' \in [{"rules", "clients"} -> 0 .. MaxEdits]
    BY <1>1 DEF IInv, TypeOK, Versions, Parts
  <2>2. QED  BY <1>1, <2>1 DEF IInv, TypeOK
<1>4. InService \in Versions /\ InService' \in Versions
  BY <1>3, ServiceTyped DEF IInv, TypeOK, InService, Versions, Parts
<1>5. /\ \A p \in Parts \ {"entries"} : InHand(c, p)
      /\ Installed(c, "entries")
  BY <1>1 DEF InHand, Installed
<1>6. Covers(InService', InService)
  BY <1>2, <1>4, <1>5 DEF IInv, HolderInv, Covers, Versions, Parts
<1>7. MutexInv'  BY <1>1 DEF IInv, TypeOK, MutexInv
<1>8. TableInv'
  BY <1>1, <1>2 DEF IInv, TableInv, Covers, Parts
<1>9. HolderInv'
  <2> SUFFICES ASSUME NEW d \in Callers, NEW p \in Parts
               PROVE  /\ InHand(d, p)' => /\ InService'[p] <= loaded[d][p]
                                          /\ wants[d][p] <= loaded[d][p]
                      /\ Installed(d, p)' => wants[d][p] <= InService'[p]
    BY <1>1 DEF HolderInv
  <2>1. CASE d = c
    <3>1. ~InHand(c, p)'  BY <1>1, <2>1 DEF InHand, IInv, TypeOK
    <3>2. wants[c][p] <= InService'[p]
      BY <1>2, <1>5 DEF IInv, HolderInv, Parts
    <3>3. QED  BY <2>1, <3>1, <3>2
  <2>2. CASE d # c
    <3>1. pc'[d] = pc[d] /\ pc[d] \in {"idle", "waiting"}
      BY <1>1, <2>2, OneHolder DEF IInv, TypeOK
    <3>2. QED  BY <3>1 DEF InHand, Installed
  <2>3. QED  BY <2>1, <2>2
<1>10. SuccessIsActive' /\ QueryInv' /\ QueryIsCurrent'
  BY <1>1, <1>3, <1>4, <1>6, GrowthKeeps
<1>11. CarriedInv'
  <2> SUFFICES ASSUME ~failed
               PROVE  /\ \A p \in Parts \ skipped :
                           \/ InService'[p] = table[p]
                           \/ \E d \in Callers :
                                 \/ Due(d, p)'
                                 \/ InHand(d, p)' /\ loaded[d][p] = table[p]
                      /\ decider = "rules" \/ \E d \in Callers : ~At(d, "idle")'
    BY <1>1 DEF CarriedInv
  <2>1. ~At(c, "idle")'  BY <1>1 DEF At, IInv, TypeOK
  <2>2. ASSUME NEW p \in Parts \ skipped
        PROVE  \/ InService'[p] = table[p]
               \/ \E d \in Callers :
                     Due(d, p)' \/ (InHand(d, p)' /\ loaded[d][p] = table[p])
    <3>1. CASE InService[p] = table[p]
      <4>1. /\ InService[p] \in Nat
            /\ InService'[p] \in Nat
            /\ InService[p] <= InService'[p]
            /\ InService'[p] <= table[p]
        BY <1>1, <1>4, <1>6, <1>8 DEF TableInv, Covers, Versions
      <4>2. QED  BY <3>1, <4>1
    <3>2. CASE InService[p] # table[p]
      <4>1. PICK d \in Callers :
               Due(d, p) \/ (InHand(d, p) /\ loaded[d][p] = table[p])
        BY <3>2 DEF IInv, CarriedInv
      <4>2. CASE d = c
        BY <1>1, <1>2, <4>1, <4>2 DEF Due, InHand
      <4>3. CASE d # c
        BY <1>1, <4>1, <4>3 DEF Due, InHand, IInv, TypeOK
      <4>4. QED  BY <4>2, <4>3
    <3>3. QED  BY <3>1, <3>2
  <2>3. QED  BY <2>1, <2>2
<1>12. QED  BY <1>3, <1>6, <1>7, <1>8, <1>9, <1>10, <1>11 DEF IInv

(* What a successful reload promises is in service when it returns.        *)
LEMMA SucceedKeeps == ASSUME IInv, NEW c \in Callers, Succeed(c) PROVE IInv'
<1> USE FilterReloadAssumption DEF FilterReloadAssumption
<1>1. /\ pc[c] = "decider"
      /\ pc' = [pc EXCEPT ![c] = "idle"]
      /\ decider' = "rules"
      /\ mu' = NoCaller
      /\ gone' \subseteq Callers
      /\ loaded' = [loaded EXCEPT ![c] = Zero]
      /\ acked' = Latest(acked, wants[c])
      /\ UNCHANGED <<table, matcher, snapshot, query, edits, ends, faults, wants,
                     before, failed, skipped>>
  BY DEF Succeed, At, Goto, Left, bounds, IInv, TypeOK
<1>2. InService' = InService  BY <1>1 DEF InService
<1>3. Zero \in Versions /\ \A p \in Parts : Zero[p] = 0  BY DEF Zero, Versions
<1>4. /\ acked \in Versions /\ wants[c] \in Versions
      /\ acked' \in Versions
  BY <1>1 DEF IInv, TypeOK, Latest, Versions
<1>5. TypeOK'  BY <1>1, <1>3, <1>4 DEF IInv, TypeOK
<1>6. MutexInv'  BY <1>1 DEF IInv, TypeOK, MutexInv
<1>7. TableInv'
  BY <1>1, <1>2, <1>3 DEF IInv, TypeOK, TableInv, Covers, Versions
<1>8. HolderInv'
  BY <1>1, <1>2 DEF IInv, TypeOK, HolderInv, InHand, Installed
<1>9. SuccessIsActive'
  <2>1. \A p \in Parts : wants[c][p] <= InService[p]
    BY <1>1 DEF IInv, HolderInv, Installed
  <2>2. Covers(InService, acked)  BY DEF IInv, SuccessIsActive
  <2>3. \A p \in Parts : acked'[p] = acked[p] \/ acked'[p] = wants[c][p]
    BY <1>1 DEF Latest
  <2>4. QED  BY <1>1, <1>2, <2>1, <2>2, <2>3 DEF SuccessIsActive, Covers
<1>10. QueryInv' /\ QueryIsCurrent'
  BY <1>1, <1>2 DEF IInv, QueryInv, QueryIsCurrent
<1>11. CarriedInv'
  <2>1. \A p \in Parts : ~Due(c, p) /\ ~InHand(c, p)
    BY <1>1 DEF Due, InHand
  <2>2. \A d \in Callers \ {c} : pc'[d] = pc[d] /\ loaded'[d] = loaded[d]
    BY <1>1 DEF IInv, TypeOK
  <2>3. QED
    BY <1>1, <1>2, <2>1, <2>2 DEF IInv, CarriedInv, Due, InHand
<1>12. QED  BY <1>5, <1>6, <1>7, <1>8, <1>9, <1>10, <1>11 DEF IInv

(* A query starts from the promise there is; what it loads afterwards is   *)
(* in service then, and covers it.                                         *)
LEMMA QueryKeeps == ASSUME IInv, NEW q \in Queries, Query(q) PROVE IInv'
<1> USE FilterReloadAssumption DEF FilterReloadAssumption
<1>1. UNCHANGED <<table, pc, mu, gone, loaded, matcher, snapshot, decider, edits,
                  ends, faults, wants, acked, before, failed, skipped>>
  BY DEF Query, served, bounds
<1>2. InService' = InService  BY <1>1 DEF InService
<1>3. Zero \in Versions  BY DEF Zero, Versions
<1>4. /\ query[q] \in [at    : {"none", "snapshot", "matcher", "answered"},
                       floor : Versions,
                       used  : Versions]
      /\ acked \in Versions
  BY DEF IInv, TypeOK
<1> DEFINE New == query'[q]
<1>5. /\ query' = [query EXCEPT ![q] = New]
      /\ New \in [at    : {"none", "snapshot", "matcher", "answered"},
                  floor : Versions,
                  used  : Versions]
      /\ New.at = "snapshot" => Covers(InService, New.floor)
      /\ New.at = "matcher" =>
            /\ New.floor["entries"] <= matcher
            /\ New.floor["rules"] <= New.used["rules"]
            /\ New.floor["clients"] <= New.used["clients"]
      /\ New.at = "answered" => Covers(New.used, New.floor)
  <2>1. CASE Ask(q)
    <3>1. New = [at    |-> IF decider = "rules" THEN "snapshot" ELSE "answered",
                 floor |-> acked,
                 used  |-> Zero]
      BY <2>1 DEF Ask, IInv, TypeOK
    <3>2. query' = [query EXCEPT ![q] = New]
      BY <2>1, <3>1 DEF Ask
    <3>3. Covers(InService, acked)  BY DEF IInv, SuccessIsActive
    <3>4. New.at = "answered" => Covers(New.used, New.floor)
      <4>1. decider # "rules" => acked = Zero  BY DEF IInv, SuccessIsActive
      <4>2. Covers(Zero, Zero)  BY <1>3 DEF Covers, Zero
      <4>3. QED  BY <3>1, <4>1, <4>2
    <3>5. QED  BY <1>3, <1>4, <3>1, <3>2, <3>3, <3>4
  <2>2. CASE LoadSnapshot(q)
    <3>1. New = [query[q] EXCEPT !.at = "matcher",
                                 !.used["rules"] = snapshot["rules"],
                                 !.used["clients"] = snapshot["clients"]]
      BY <2>2 DEF LoadSnapshot, IInv, TypeOK
    <3>2. query' = [query EXCEPT ![q] = New]
      BY <2>2 DEF LoadSnapshot, IInv, TypeOK
    <3>3. /\ New.at = "matcher"
          /\ New.floor = query[q].floor
          /\ New.used = [query[q].used EXCEPT !["rules"] = snapshot["rules"],
                                              !["clients"] = snapshot["clients"]]
          /\ New = [at |-> New.at, floor |-> New.floor, used |-> New.used]
      BY <1>4, <3>1
    <3>4. /\ New.used \in Versions
          /\ New.used["rules"] = snapshot["rules"]
          /\ New.used["clients"] = snapshot["clients"]
      <4>1. query[q].used \in [{"entries", "rules", "clients"} -> 0 .. MaxEdits]
        BY <1>4 DEF Versions, Parts
      <4>2. snapshot["rules"] \in 0 .. MaxEdits /\ snapshot["clients"] \in 0 .. MaxEdits
        BY DEF IInv, TypeOK
      <4>3. QED  BY <3>3, <4>1, <4>2 DEF Versions, Parts
    <3>5. Covers(InService, query[q].floor)
      BY <2>2 DEF LoadSnapshot, IInv, QueryInv
    <3>6. /\ New.floor["entries"] <= matcher
          /\ New.floor["rules"] <= New.used["rules"]
          /\ New.floor["clients"] <= New.used["clients"]
      BY <3>3, <3>4, <3>5 DEF Covers, InService, Parts
    <3>7. QED  BY <1>4, <3>2, <3>3, <3>4, <3>6
  <2>3. CASE LoadMatcher(q)
    <3>1. New = [query[q] EXCEPT !.at = "answered", !.used["entries"] = matcher]
      BY <2>3 DEF LoadMatcher, IInv, TypeOK
    <3>2. query' = [query EXCEPT ![q] = New]
      BY <2>3 DEF LoadMatcher, IInv, TypeOK
    <3>3. /\ New.at = "answered"
          /\ New.floor = query[q].floor
          /\ New.used = [query[q].used EXCEPT !["entries"] = matcher]
          /\ New = [at |-> New.at, floor |-> New.floor, used |-> New.used]
      BY <1>4, <3>1
    <3>4. /\ New.used \in Versions
          /\ New.used["entries"] = matcher
          /\ \A p \in Parts \ {"entries"} : New.used[p] = query[q].used[p]
      BY <1>4, <3>3 DEF IInv, TypeOK, Versions, Parts
    <3>5. /\ query[q].floor["entries"] <= matcher
          /\ query[q].floor["rules"] <= query[q].used["rules"]
          /\ query[q].floor["clients"] <= query[q].used["clients"]
      BY <2>3 DEF LoadMatcher, IInv, QueryInv
    <3>6. Covers(New.used, New.floor)
      BY <3>3, <3>4, <3>5 DEF Covers, Parts
    <3>7. QED  BY <1>4, <3>2, <3>3, <3>4, <3>6
  <2>4. CASE Answer(q)
    <3>1. New = NoQuery /\ query' = [query EXCEPT ![q] = New]
      BY <2>4 DEF Answer, IInv, TypeOK
    <3>2. QED  BY <1>3, <3>1 DEF NoQuery
  <2>5. QED  BY <2>1, <2>2, <2>3, <2>4 DEF Query
<1> HIDE DEF New
<1>6. TypeOK'  BY <1>1, <1>5 DEF IInv, TypeOK
<1>7. MutexInv' /\ TableInv'  BY <1>1, <1>2 DEF IInv, MutexInv, TableInv
<1>8. HolderInv' /\ SuccessIsActive'
  BY <1>1, <1>2 DEF IInv, HolderInv, InHand, Installed, SuccessIsActive
<1>9. QueryInv' /\ QueryIsCurrent'
  <2>1. query \in [Queries -> [at    : {"none", "snapshot", "matcher", "answered"},
                               floor : Versions,
                               used  : Versions]]
    BY DEF IInv, TypeOK
  <2>2. \A r \in Queries : query'[r] = IF r = q THEN New ELSE query[r]
    BY <1>5, <2>1
  <2>3. QED
    BY <1>1, <1>2, <1>5, <2>2 DEF IInv, QueryInv, QueryIsCurrent
<1>10. CarriedInv'
  BY <1>1, <1>2 DEF IInv, CarriedInv, Due, InHand, At
<1>11. QED  BY <1>6, <1>7, <1>8, <1>9, <1>10 DEF IInv

-----------------------------------------------------------------------------
(* Theorems.                                                               *)

(* Every step of a Reload keeps the invariant, and only moves forward.     *)
LEMMA ReloadKeeps ==
    ASSUME IInv, NEW c \in Callers, Reload(c)
    PROVE  IInv' /\ Covers(InService', InService)
<1>1. Covers(InService, InService)
  BY ServiceTyped, FilterReloadAssumption DEF IInv, Covers, Versions
<1>2. ASSUME Fail(c) \/ (\E p \in Parts : Read(c, p)) PROVE InService' = InService
  BY <1>2 DEF Fail, Read, InService, served
<1>3. CASE Lock(c)
  BY <1>1, <1>3, LockKeeps DEF Lock, InService, served
<1>4. CASE ReadEntries(c)
  BY <1>1, <1>2, <1>4, FailKeeps, ReadKeeps DEF ReadEntries, ReadFails, At, Parts
<1>5. CASE ReadRules(c)
  BY <1>1, <1>2, <1>5, FailKeeps, ReadKeeps DEF ReadRules, ReadFails, At, Parts
<1>6. CASE ReadClients(c)
  BY <1>1, <1>2, <1>6, FailKeeps, ReadKeeps DEF ReadClients, ReadFails, At, Parts
<1>7. CASE StoreMatcher(c)  BY <1>7, StoreMatcherKeeps
<1>8. CASE StoreSnapshot(c)  BY <1>8, StoreSnapshotKeeps
<1>9. CASE Succeed(c)
  BY <1>1, <1>9, SucceedKeeps DEF Succeed, InService
<1>10. QED  BY <1>3, <1>4, <1>5, <1>6, <1>7, <1>8, <1>9 DEF Reload

LEMMA StepKeeps ==
    ASSUME IInv, [Next]_vars PROVE IInv' /\ Covers(InService', InService)
<1>1. Covers(InService, InService)
  BY ServiceTyped, FilterReloadAssumption DEF IInv, Covers, Versions
<1>2. ASSUME NEW c \in Callers, Reload(c) PROVE IInv' /\ Covers(InService', InService)
  BY <1>2, ReloadKeeps
<1>3. ASSUME NEW c \in Callers, End(c) PROVE IInv' /\ Covers(InService', InService)
  BY <1>1, <1>3, EndKeeps DEF End, InService, served
<1>4. ASSUME NEW c \in Callers, NEW p \in Parts, Edit(c, p)
      PROVE  IInv' /\ Covers(InService', InService)
  BY <1>1, <1>4, EditKeeps DEF Edit, InService, served
<1>5. ASSUME NEW q \in Queries, Query(q) PROVE IInv' /\ Covers(InService', InService)
  BY <1>1, <1>5, QueryKeeps DEF Query, InService, served
<1>6. ASSUME NEW c \in Callers, NEW p \in Parts, EditReportsError(c, p)
      PROVE  IInv' /\ Covers(InService', InService)
  BY <1>1, <1>6, EditReportsErrorKeeps DEF EditReportsError, InService, served
<1>7. CASE UNCHANGED vars
  <2>1. InService' = InService  BY <1>7 DEF vars, served, InService
  <2>2. IInv'
    BY <1>7 DEF vars, served, bounds, IInv, TypeOK, MutexInv, TableInv, HolderInv,
                InHand, Installed, SuccessIsActive, QueryInv, QueryIsCurrent,
                CarriedInv, Due, At, InService
  <2>3. QED  BY <1>1, <2>1, <2>2
<1>8. QED  BY <1>2, <1>3, <1>4, <1>5, <1>6, <1>7 DEF Next

(* The reload keeps its inductive invariant.                               *)
THEOREM InductiveInvariant == Spec => []IInv
BY InitKeeps, StepKeeps, PTL DEF Spec

(* The variables keep their types.                                         *)
THEOREM TypeCorrect == Spec => []TypeOK
<1>1. IInv => TypeOK  BY DEF IInv
<1>2. QED  BY <1>1, InductiveInvariant, PTL

(* A Reload that returned nil is in service, and stays so whatever reloads *)
(* follow it or overlap with it (internal/app/app.go).                     *)
THEOREM SuccessStaysActive == Spec => []SuccessIsActive
<1>1. IInv => SuccessIsActive  BY DEF IInv
<1>2. QED  BY <1>1, InductiveInvariant, PTL

(* A query that arrives after an edit was acknowledged is decided with it. *)
THEOREM QueriesAreCurrent == Spec => []QueryIsCurrent
<1>1. IInv => QueryIsCurrent  BY DEF IInv
<1>2. QED  BY <1>1, InductiveInvariant, PTL

(* With no reload failed and none under way, what is committed is served,  *)
(* but for what an edit answered by an error has left for the next reload. *)
THEOREM QuietRuntimeServesTables == Spec => []QuietRuntimeIsCurrent
<1>1. IInv => QuietRuntimeIsCurrent
  <2> SUFFICES ASSUME IInv, ~failed, \A c \in Callers : At(c, "idle")
               PROVE  /\ \A p \in Parts \ skipped : InService[p] = table[p]
                      /\ decider = "rules"
    BY DEF QuietRuntimeIsCurrent
  <2>1. \A c \in Callers, p \in Parts : ~Due(c, p) /\ ~InHand(c, p)
    BY DEF Due, InHand, At
  <2>2. QED  BY <2>1 DEF IInv, CarriedInv
<1>2. QED  BY <1>1, InductiveInvariant, PTL

(* No reload puts an older version of any part back into service.          *)
THEOREM ReloadsNeverGoBack == Spec => NeverBackwards
<1>1. IInv /\ [Next]_vars => [Covers(InService', InService)]_vars
  BY StepKeeps
<1>2. QED  BY <1>1, InductiveInvariant, PTL DEF Spec, NeverBackwards
=============================================================================
