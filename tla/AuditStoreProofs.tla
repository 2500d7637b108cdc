-------------------------- MODULE AuditStoreProofs --------------------------
(***************************************************************************)
(* Proofs about what the audit database keeps (AuditStore), for any        *)
(* events, batches, restarts, failures and settings, and any base of the   *)
(* timestamps; about the cache of its summary (SummaryCache, which is      *)
(* Caching), for any requests, cleanups, changes and term; and about the   *)
(* pages of its log and the summaries (AuditQueries, which is Reading).    *)
(***************************************************************************)
EXTENDS AuditDatabase, FiniteSetTheorems, SequenceTheorems, TLAPS

-----------------------------------------------------------------------------
(* The order of the timestamps.  As text it is not the order of the times  *)
(* within a second, but it is the order of the seconds.                    *)

LEMMA SecondFacts == ASSUME NEW t \in Nat PROVE SecondOf(t) \in Int
<1>1. Base \in Nat /\ Base >= 2
  BY AuditTimeAssumption
<1>2. Second \in Nat /\ Second > 0
  BY <1>1 DEF Second
<1> QED BY <1>2 DEF SecondOf

LEMMA TextFacts ==
    ASSUME NEW t \in Nat
    PROVE  /\ RFC3339Nano(t) \in Seq(Int)
           /\ RFC3339Nano(t)[1] = SecondOf(t)
<1>1. Base \in Nat /\ Base >= 2
  BY AuditTimeAssumption
<1>2. Second \in Nat /\ Second > 0
  BY <1>1 DEF Second
<1>3. SecondOf(t) \in Int /\ t % Second \in Int /\ t % Base \in Int
  BY <1>1, <1>2, SecondFacts
<1> DEFINE tenths == (t % Second) \div Base
           rest == t % Base
           fraction == CASE rest # 0 -> <<Dot, Digit(tenths), Digit(rest), Zed>>
                         [] rest = 0 /\ tenths # 0 -> <<Dot, Digit(tenths), Zed>>
                         [] OTHER -> <<Zed>>
<1>4. tenths \in Int /\ rest \in Int /\ Dot \in Int /\ Zed \in Int
  BY <1>1, <1>3 DEF Dot, Zed
<1>5. Digit(tenths) \in Int /\ Digit(rest) \in Int
  BY <1>4 DEF Digit
<1>6. fraction \in Seq(Int)
  <2> HIDE DEF tenths, rest
  <2>1. CASE rest # 0
    BY <1>4, <1>5, <2>1
  <2>2. CASE rest = 0 /\ tenths # 0
    BY <1>4, <1>5, <2>2
  <2>3. CASE rest = 0 /\ ~(tenths # 0)
    BY <1>4, <1>5, <2>3
  <2> QED BY <2>1, <2>2, <2>3
<1>7. RFC3339Nano(t) = <<SecondOf(t)>> \o fraction
  BY DEF RFC3339Nano
<1> HIDE DEF fraction
<1> QED BY <1>3, <1>6, <1>7

LEMMA EarlierTextEarlierSecond ==
    ASSUME NEW t \in Nat, NEW u \in Nat, Before(t, u)
    PROVE  SecondOf(t) <= SecondOf(u)
<1>1. /\ RFC3339Nano(t) \in Seq(Int) /\ RFC3339Nano(t)[1] = SecondOf(t)
      /\ RFC3339Nano(u) \in Seq(Int) /\ RFC3339Nano(u)[1] = SecondOf(u)
      /\ SecondOf(t) \in Int /\ SecondOf(u) \in Int
  BY TextFacts, SecondFacts
<1>2. PICK k \in DOMAIN RFC3339Nano(t) \cap DOMAIN RFC3339Nano(u) :
        /\ RFC3339Nano(t)[k] < RFC3339Nano(u)[k]
        /\ \A j \in 1..(k - 1) : RFC3339Nano(t)[j] = RFC3339Nano(u)[j]
  BY DEF Before, TextBefore
<1>3. k \in Nat /\ k >= 1
  BY <1>1
<1>4. CASE k = 1
  BY <1>1, <1>2, <1>4
<1>5. CASE k # 1
  <2>1. 1 \in 1..(k - 1)
    BY <1>3, <1>5
  <2> QED BY <1>1, <1>2, <2>1
<1> QED BY <1>4, <1>5

(* A batch counts no less than nothing of each action.                     *)
LEMMA CountFacts == ASSUME NEW batch \in Batches, NEW a \in Actions PROVE Count(batch, a) \in Nat
<1> DEFINE picked == {k \in DOMAIN batch : batch[k].action = a}
<1>1. DOMAIN batch \subseteq 1..2
  BY DEF Batches
<1>2. IsFiniteSet(1..2)
  <2>1. 1 \in Int /\ 2 \in Int
    OBVIOUS
  <2> QED BY <2>1, FS_Interval, Zenon
<1>3. IsFiniteSet(picked)
  BY <1>1, <1>2, FS_Subset
<1> QED BY <1>3, FS_CardinalityType DEF Count

-----------------------------------------------------------------------------
(* The inductive invariant.                                                *)

(* Nothing is counted before the first start.                              *)
NewInv == ~started => carried = 0 /\ \A a \in Actions : totals[a] = 0

(* What a user saved is dated, and no copy replaces it.                    *)
DatedInv == chosen # NoSettings => settings.dated

IInv == TypeOK /\ NewInv /\ DatedInv /\ StoreKeepsCount

LEMMA InitKeeps == ASSUME Init PROVE IInv
<1>1. LegacyTotals \in [Actions -> Nat] /\ Default \in Settings /\ Start \in Nat
  BY AuditStoreAssumption
<1>2. TypeOK
  <2>1. NoSettings \in Settings
    BY <1>1 DEF Settings, NoSettings
  <2>2. settings \in [value : Settings, dated : BOOLEAN] /\ started \in BOOLEAN
    BY <1>1 DEF Init
  <2>3. now \in Nat /\ now >= Start
    BY <1>1 DEF Init
  <2>4. /\ totals \in [Actions -> Nat] /\ inserted \in [Actions -> Nat]
        /\ cleaner \in [Cleaners ->
             {Idle} \cup [pc : {"delete"}, retention : 0..Start, at : {t \in Nat : t >= Start}]]
    BY DEF Init
  <2> QED BY <2>1, <2>2, <2>3, <2>4 DEF Init, TypeOK
<1>3. \A a \in Actions : 0 = 0 + 0 * LegacyTotals[a]
  BY <1>1
<1>4. TotalsCountEverything
  BY <1>3 DEF Init, TotalsCountEverything
<1> QED BY <1>2, <1>4 DEF Init, IInv, NewInv, DatedInv, StoreKeepsCount, ChosenSettingsStand

-----------------------------------------------------------------------------
(* Each action keeps it.                                                   *)

(* The counters are copied only while nothing is counted.                  *)
LEMMA CopyCounts ==
    ASSUME IInv, copyLegacyActionTotals, inserted' = inserted
    PROVE  /\ totals' \in [Actions -> Nat] /\ carried' \in Nat /\ carried' >= carried
           /\ (\E a \in Actions : LegacyTotals[a] > 0) => carried' <= 1
           /\ (started /\ faults = 0) \/ ~started => carried' >= 1
           /\ \A a \in Actions : totals'[a] = inserted'[a] + carried' * LegacyTotals[a]
<1>1. /\ LegacyTotals \in [Actions -> Nat]
      /\ totals \in [Actions -> Nat] /\ inserted \in [Actions -> Nat] /\ carried \in Nat
      /\ NewInv /\ TotalsCountEverything
  BY AuditStoreAssumption DEF IInv, TypeOK, StoreKeepsCount
<1>2. CASE \E a \in Actions : totals[a] > 0
  <2>1. totals' = totals /\ carried' = carried /\ started
    BY <1>1, <1>2 DEF copyLegacyActionTotals, NewInv
  <2> QED BY <1>1, <2>1 DEF TotalsCountEverything
<1>3. CASE ~\E a \in Actions : totals[a] > 0
  <2>1. totals' = LegacyTotals /\ carried' = carried + 1
    BY <1>3 DEF copyLegacyActionTotals
  <2>2. \A a \in Actions : totals[a] = 0 /\ totals[a] = inserted[a] + carried * LegacyTotals[a]
    BY <1>1, <1>3 DEF TotalsCountEverything
  <2>3. CASE \E a \in Actions : LegacyTotals[a] > 0
    <3>1. PICK a \in Actions : LegacyTotals[a] > 0
      BY <2>3
    <3>2. carried = 0 \/ carried = 1
      BY <1>1, <2>3 DEF TotalsCountEverything
    <3>3. carried = 0
      <4>1. ASSUME carried = 1 PROVE FALSE
        <5>1. 0 = inserted[a] + 1 * LegacyTotals[a]
          BY <2>2, <4>1
        <5> QED BY <1>1, <3>1, <5>1
      <4> QED BY <3>2, <4>1
    <3>4. \A b \in Actions : inserted[b] = 0
      <4> SUFFICES ASSUME NEW b \in Actions PROVE inserted[b] = 0
        OBVIOUS
      <4>1. 0 = inserted[b] + 0 * LegacyTotals[b]
        BY <2>2, <3>3
      <4> QED BY <1>1, <4>1
    <3>5. \A b \in Actions : LegacyTotals[b] = 0 + 1 * LegacyTotals[b]
      BY <1>1
    <3> QED BY <1>1, <2>1, <3>3, <3>4, <3>5
  <2>4. CASE ~\E a \in Actions : LegacyTotals[a] > 0
    <3>1. \A b \in Actions : LegacyTotals[b] = 0
      BY <1>1, <2>4
    <3>2. \A b \in Actions : inserted[b] = 0
      <4> SUFFICES ASSUME NEW b \in Actions PROVE inserted[b] = 0
        OBVIOUS
      <4>1. 0 = inserted[b] + carried * 0
        BY <2>2, <3>1
      <4> QED BY <1>1, <4>1
    <3>3. (carried + 1) * 0 = 0
      BY <1>1
    <3> QED BY <1>1, <2>1, <2>4, <3>1, <3>2, <3>3
  <2> QED BY <2>3, <2>4
<1> QED BY <1>2, <1>3

LEMMA CopySettingsTyped ==
    ASSUME IInv, UNCHANGED settings \/ copyLegacySettings, UNCHANGED chosen
    PROVE  settings' \in [value : Settings, dated : BOOLEAN] /\ DatedInv' /\ ChosenSettingsStand'
<1>1. /\ settings \in [value : Settings, dated : BOOLEAN] /\ LegacySettings \in Settings
      /\ DatedInv /\ ChosenSettingsStand
  BY AuditStoreAssumption DEF IInv, TypeOK, StoreKeepsCount
<1>2. CASE settings' = settings
  BY <1>1, <1>2 DEF DatedInv, ChosenSettingsStand
<1>3. CASE ~settings.dated /\ settings' = [value |-> LegacySettings, dated |-> TRUE]
  BY <1>1, <1>3 DEF DatedInv, ChosenSettingsStand
<1> QED BY <1>2, <1>3 DEF copyLegacySettings

LEMMA RestartKeeps == ASSUME IInv, Restart PROVE IInv'
<1>1. /\ started' = TRUE /\ inserted' = inserted /\ chosen' = chosen /\ now' = now
      /\ rows' = rows /\ lastId' = lastId /\ saves' = saves
      /\ restarts' = restarts + 1 /\ put' = NoSettings
      /\ cleaner' = [c \in Cleaners |-> Idle]
  BY DEF Restart
<1>2. \/ copyLegacyActionTotals /\ faults' = faults
      \/ totals' = totals /\ carried' = carried /\ faults' = faults + 1
  BY DEF Restart, Fault
<1>3. UNCHANGED settings \/ copyLegacySettings
  BY DEF Restart
<1>4. /\ settings' \in [value : Settings, dated : BOOLEAN] /\ DatedInv' /\ ChosenSettingsStand'
  BY <1>1, <1>3, CopySettingsTyped
<1>5. /\ totals' \in [Actions -> Nat] /\ carried' \in Nat /\ TotalsCountEverything'
  <2>1. CASE copyLegacyActionTotals /\ faults' = faults
    <3>1. /\ totals' \in [Actions -> Nat] /\ carried' \in Nat /\ carried' >= carried
          /\ (\E a \in Actions : LegacyTotals[a] > 0) => carried' <= 1
          /\ (started /\ faults = 0) \/ ~started => carried' >= 1
          /\ \A a \in Actions : totals'[a] = inserted'[a] + carried' * LegacyTotals[a]
      BY <1>1, <2>1, CopyCounts
    <3>2. started \in BOOLEAN
      BY DEF IInv, TypeOK
    <3> QED BY <1>1, <2>1, <3>1, <3>2 DEF TotalsCountEverything
  <2>2. CASE totals' = totals /\ carried' = carried /\ faults' = faults + 1
    <3>1. faults \in Nat /\ totals \in [Actions -> Nat] /\ carried \in Nat
      BY DEF IInv, TypeOK
    <3>2. faults' # 0
      BY <2>2, <3>1
    <3> QED BY <1>1, <2>2, <3>1, <3>2 DEF IInv, StoreKeepsCount, TotalsCountEverything
  <2> QED BY <1>2, <2>1, <2>2
<1>6. TypeOK'
  <2>1. faults \in Nat /\ faults' \in Nat /\ restarts' \in Nat
    BY <1>1, <1>2 DEF IInv, TypeOK
  <2>2. cleaner' \in [Cleaners ->
          {Idle} \cup [pc : {"delete"}, retention : 0..Start, at : {t \in Nat : t >= Start}]]
    BY <1>1
  <2>3. put' \in Settings
    BY <1>1, AuditStoreAssumption DEF Settings, NoSettings
  <2> QED BY <1>1, <1>4, <1>5, <2>1, <2>2, <2>3 DEF IInv, TypeOK
<1>7. NewInv'
  BY <1>1 DEF NewInv
<1> QED BY <1>4, <1>5, <1>6, <1>7 DEF IInv, StoreKeepsCount

LEMMA InsertKeeps == ASSUME IInv, NEW batch \in Batches, insertBatch(batch) PROVE IInv'
<1>1. /\ now' = now /\ settings' = settings /\ cleaner' = cleaner /\ put' = put /\ started' = started
      /\ restarts' = restarts /\ faults' = faults /\ saves' = saves
      /\ carried' = carried /\ chosen' = chosen /\ started
      /\ totals' = [a \in Actions |-> totals[a] + Count(batch, a)]
      /\ inserted' = [a \in Actions |-> inserted[a] + Count(batch, a)]
      /\ lastId' = lastId + Len(batch)
      /\ rows' = rows \cup {[id |-> lastId + k, at |-> batch[k].at] : k \in DOMAIN batch}
  BY DEF insertBatch, incrementActionTotals, bounds
<1>2. /\ now \in Nat /\ now >= Start /\ Start \in Nat \ {0} /\ lastId \in Nat
      /\ rows \subseteq [id : Nat, at : Nat]
      /\ totals \in [Actions -> Nat] /\ inserted \in [Actions -> Nat] /\ carried \in Nat
      /\ LegacyTotals \in [Actions -> Nat] /\ TotalsCountEverything
  BY AuditStoreAssumption DEF IInv, TypeOK, StoreKeepsCount
<1>3. totals' \in [Actions -> Nat] /\ inserted' \in [Actions -> Nat]
  BY <1>1, <1>2, CountFacts
<1>4. /\ DOMAIN batch \subseteq Nat /\ Len(batch) \in Nat
      /\ \A k \in DOMAIN batch : batch[k].at \in Nat
  BY <1>2 DEF Batches
<1>5. rows' \subseteq [id : Nat, at : Nat] /\ lastId' \in Nat
  <2>1. \A k \in DOMAIN batch : [id |-> lastId + k, at |-> batch[k].at] \in [id : Nat, at : Nat]
    BY <1>2, <1>4
  <2> QED BY <1>1, <1>2, <1>4, <2>1
<1>6. TypeOK'
  BY <1>1, <1>2, <1>3, <1>5 DEF IInv, TypeOK
<1>7. TotalsCountEverything'
  <2>1. ASSUME NEW a \in Actions PROVE totals'[a] = inserted'[a] + carried' * LegacyTotals[a]
    <3>1. Count(batch, a) \in Nat
      BY CountFacts
    <3>2. PICK copied : copied = carried * LegacyTotals[a]
      OBVIOUS
    <3>3. copied \in Int
      BY <1>2, <3>2
    <3>4. totals[a] = inserted[a] + copied
      BY <1>2, <3>2 DEF TotalsCountEverything
    <3>5. totals'[a] = totals[a] + Count(batch, a) /\ inserted'[a] = inserted[a] + Count(batch, a)
      BY <1>1
    <3>6. totals'[a] = inserted'[a] + copied
      BY <1>2, <3>1, <3>3, <3>4, <3>5
    <3> QED BY <1>1, <3>2, <3>6
  <2> QED BY <1>1, <1>2, <2>1 DEF TotalsCountEverything
<1>8. NewInv' /\ DatedInv' /\ ChosenSettingsStand'
  BY <1>1 DEF IInv, NewInv, DatedInv, StoreKeepsCount, ChosenSettingsStand
<1> QED BY <1>6, <1>7, <1>8 DEF IInv, StoreKeepsCount

(* A step that leaves the counters and the settings as they are.           *)
LEMMA RestKeeps ==
    ASSUME IInv, UNCHANGED <<totals, settings, started, inserted, carried, chosen>>,
           TypeOK', faults = 0 \/ faults' # 0
    PROVE  IInv'
BY DEF IInv, NewInv, DatedInv, StoreKeepsCount, TotalsCountEverything, ChosenSettingsStand

LEMMA CleanupKeeps == ASSUME IInv, NEW c \in Cleaners, Cleanup(c) PROVE IInv'
<1>1. /\ UNCHANGED <<now, totals, settings, lastId, put, started, restarts, saves, inserted, carried, chosen>>
      /\ rows' \subseteq rows
      /\ faults' = faults \/ faults' = faults + 1
  BY DEF Cleanup, Begin, cleanupOlderThan, CleanupFails, Fault, tables, bounds, history
<1>2. faults \in Nat /\ faults' \in Nat /\ (faults = 0 \/ faults' # 0)
  BY <1>1 DEF IInv, TypeOK
<1>3. cleaner' \in [Cleaners ->
          {Idle} \cup [pc : {"delete"}, retention : 0..Start, at : {t \in Nat : t >= Start}]]
  <2> DEFINE Work == {Idle} \cup [pc : {"delete"}, retention : 0..Start, at : {t \in Nat : t >= Start}]
  <2>1. cleaner \in [Cleaners -> Work]
    BY DEF IInv, TypeOK
  <2>2. cleaner' = cleaner \/ \E w \in Work : cleaner' = [cleaner EXCEPT ![c] = w]
    <3>1. CASE Begin(c)
      <4>1. settings.value.retention \in 0..Start /\ now \in Nat /\ now >= Start
        BY DEF IInv, TypeOK, Settings
      <4>2. [pc |-> "delete", retention |-> settings.value.retention, at |-> now] \in Work
        BY <4>1
      <4> QED BY <3>1, <4>2 DEF Begin
    <3>2. CASE cleanupOlderThan(c)
      <4>1. \/ cleaner' = [cleaner EXCEPT ![c] = Idle]
            \/ cleaner' = [cleaner EXCEPT ![c] = cleaner[c]]
        BY <3>2 DEF cleanupOlderThan
      <4>2. cleaner[c] \in Work
        BY <2>1
      <4> QED BY <4>1, <4>2
    <3>3. CASE CleanupFails(c)
      BY <3>3 DEF CleanupFails
    <3> QED BY <3>1, <3>2, <3>3 DEF Cleanup
  <2> HIDE DEF Work
  <2>3. cleaner' \in [Cleaners -> Work]
    BY <2>1, <2>2
  <2> QED BY <2>3 DEF Work
<1>4. TypeOK'
  BY <1>1, <1>2, <1>3 DEF IInv, TypeOK
<1> QED BY <1>1, <1>2, <1>4, RestKeeps

LEMMA PutKeeps == ASSUME IInv, ReadSettings \/ SetSettings PROVE IInv'
<1>1. CASE ReadSettings
  <2>1. /\ UNCHANGED <<now, rows, totals, settings, lastId, cleaner, started, restarts, faults, saves,
                       inserted, carried, chosen>>
        /\ put' = settings.value
    BY <1>1 DEF ReadSettings, tables, bounds, history
  <2>2. put' \in Settings
    BY <2>1 DEF IInv, TypeOK
  <2>3. TypeOK'
    BY <2>1, <2>2 DEF IInv, TypeOK
  <2> QED BY <2>1, <2>3, RestKeeps
<1>2. CASE SetSettings
  <2>1. PICK new \in {[put EXCEPT !.retention = r] : r \in Retentions}
                     \cup {[put EXCEPT !.level = l] : l \in Levels} :
          settings' = [value |-> new, dated |-> TRUE] /\ chosen' = new
    BY <1>2 DEF SetSettings
  <2>2. /\ UNCHANGED <<now, rows, totals, lastId, cleaner, started, restarts, faults, inserted, carried>>
        /\ put' = NoSettings /\ saves' = saves + 1
    BY <1>2 DEF SetSettings
  <2>3. /\ Retentions \subseteq 0..Start /\ Levels \subseteq Int /\ Start \in Nat
        /\ put \in Settings
    BY AuditStoreAssumption DEF IInv, TypeOK
  <2>4. new \in Settings
    BY <2>1, <2>3 DEF Settings
  <2>5. put' \in Settings /\ saves' \in Nat
    BY <2>2, <2>3 DEF Settings, NoSettings, IInv, TypeOK
  <2>6. settings' \in [value : Settings, dated : BOOLEAN] /\ chosen' \in Settings
    BY <2>1, <2>4
  <2>7. TypeOK'
    BY <2>2, <2>5, <2>6 DEF IInv, TypeOK
  <2>8. settings'.value = chosen' /\ settings'.dated
    BY <2>1
  <2>9. NewInv' /\ DatedInv' /\ ChosenSettingsStand' /\ TotalsCountEverything'
    BY <2>2, <2>8 DEF IInv, NewInv, DatedInv, StoreKeepsCount, TotalsCountEverything, ChosenSettingsStand
  <2> QED BY <2>7, <2>9 DEF IInv, StoreKeepsCount
<1> QED BY <1>1, <1>2

LEMMA QuietKeeps == ASSUME IInv, Tick \/ UNCHANGED vars PROVE IInv'
<1>1. /\ UNCHANGED <<rows, totals, settings, lastId, cleaner, put, started, restarts, faults, saves,
                     inserted, carried, chosen>>
      /\ now' = now \/ now' = now + 1
  BY DEF Tick, vars, tables, bounds, history
<1>2. now' \in Nat /\ now' >= Start
  BY <1>1, AuditStoreAssumption DEF IInv, TypeOK
<1>3. TypeOK'
  BY <1>1, <1>2 DEF IInv, TypeOK
<1> QED BY <1>1, <1>3, RestKeeps

LEMMA StepKeeps == ASSUME IInv, [Next]_vars PROVE IInv'
BY RestartKeeps, InsertKeeps, CleanupKeeps, PutKeeps, QuietKeeps DEF Next

-----------------------------------------------------------------------------
(* The counters, the settings and what was ever counted and chosen fit     *)
(* together in every reachable state.                                      *)
THEOREM InductiveInvariant == Spec => []IInv
BY InitKeeps, StepKeeps, PTL DEF Spec

(* Type correctness.                                                       *)
THEOREM TypeCorrect == Spec => []TypeOK
<1>1. IInv => TypeOK
  BY DEF IInv
<1> QED BY <1>1, InductiveInvariant, PTL

(* Counters and settings survive cleanups, restarts and the copy from an   *)
(* older database (CopyLegacyMetadata and incrementActionTotals in         *)
(* internal/audit).                                                        *)
THEOREM CountAndChoiceStand == Spec => []StoreKeepsCount
<1>1. IInv => StoreKeepsCount
  BY DEF IInv
<1> QED BY <1>1, InductiveInvariant, PTL

LEMMA OnlyCleanupsDelete ==
    ASSUME IInv, [Next]_vars, NEW e \in rows \ rows'
    PROVE  \E c \in Cleaners :
             /\ cleaner[c].pc = "delete"
             /\ cleaner[c].retention > 0
             /\ SecondOf(e.at) <= SecondOf(Cutoff(c))
<1>1. PICK c \in Cleaners : cleanupOlderThan(c)
  BY DEF Next, vars, Restart, Tick, ReadSettings, SetSettings, insertBatch, Cleanup, Begin, CleanupFails,
         tables
<1>2. /\ cleaner[c].pc = "delete" /\ ~(cleaner[c].retention <= 0)
      /\ e \in Expired(c)
  BY <1>1 DEF cleanupOlderThan
<1>3. Before(e.at, Cutoff(c))
  BY <1>2 DEF Expired
<1>4. cleaner[c] \in [pc : {"delete"}, retention : 0..Start, at : {t \in Nat : t >= Start}]
  BY <1>2 DEF IInv, TypeOK, Idle
<1>5. e.at \in Nat /\ Cutoff(c) \in Nat /\ cleaner[c].retention > 0
  BY <1>2, <1>4, AuditStoreAssumption DEF IInv, TypeOK, Cutoff
<1> QED BY <1>2, <1>3, <1>5, EarlierTextEarlierSecond

(* A cleanup deletes no row that is younger, in whole seconds, than the    *)
(* retention it read, and none when that is 0 (cleanupOlderThan, which     *)
(* compares times as text).                                                *)
THEOREM YoungRowsStay == Spec => CleanupKeepsYoung
<1>1. ASSUME IInv, [Next]_vars
      PROVE  [\A e \in rows \ rows' : \E c \in Cleaners :
                /\ cleaner[c].pc = "delete"
                /\ cleaner[c].retention > 0
                /\ SecondOf(e.at) <= SecondOf(Cutoff(c))]_vars
  BY <1>1, OnlyCleanupsDelete
<1> QED BY <1>1, InductiveInvariant, PTL DEF Spec, CleanupKeepsYoung

-----------------------------------------------------------------------------
(* The cache of the summary.                                               *)

(* What is under way: cleanups that have deleted and not yet invalidated.  *)
Deleting == {h \in Changers : ~Caching!Settled(h) /\ changer[h].kind = "cleanup" /\ changer[h].pc = "saved"}

(* The cleanups that are over.                                            *)
Finished == Caching!Known("cleanup", cleanups)

(* A summary in the cache is as new as the last cleanup that is over.      *)
ValueInv ==
    cacheNow < expires =>
        /\ Finished <= value.rows
        /\ expires = value.at + TTL

FlightInv == \A c \in Viewers : client[c].pc \in {"load", "loaded"} <=> flight = c

(* A computation that is as new as the generation is as new as the last    *)
(* cleanup that is over; what a request was given is as new as those       *)
(* before it.                                                              *)
RequestInv(c) ==
    client[c].pc # "idle" =>
        /\ client[c].rows <= Finished
        /\ client[c].level <= level /\ client[c].at <= cacheNow /\ client[c].generation <= generation
        /\ client[c].pc \in {"loaded", "have", "answered"} =>
              client[c].rows <= client[c].summary.rows /\ client[c].at < client[c].summary.at + TTL
        /\ client[c].pc = "loaded" /\ client[c].generation = generation =>
              Finished <= client[c].summary.rows
        /\ client[c].pc = "answered" => client[c].level <= client[c].shown

CacheInv ==
    /\ Caching!TypeOK /\ IsFiniteSet(Deleting)
    /\ ValueInv /\ FlightInv /\ \A c \in Viewers : RequestInv(c)

(* The two modules count alike.                                            *)
LEMMA SameCount == ASSUME NEW S PROVE Caching!Cardinality(S) = Cardinality(S)
BY DEF Caching!Cardinality, Cardinality, Caching!IsFiniteSet, IsFiniteSet

(* The cleanups that are over only grow in number, and only an invalidation *)
(* adds to them.                                                           *)
LEMMA KnownFacts ==
    ASSUME CacheInv PROVE Finished \in Int /\ Finished <= cleanups
<1>1. Finished = cleanups - Cardinality(Deleting)
  BY SameCount DEF Finished, Caching!Known, Deleting
<1>2. Cardinality(Deleting) \in Nat /\ cleanups \in Nat
  BY FS_CardinalityType DEF CacheInv, Caching!TypeOK
<1> QED BY <1>1, <1>2

LEMMA KnownStands ==
    ASSUME UNCHANGED <<cleanups, changer>>
    PROVE  Finished' = Finished /\ Deleting' = Deleting
BY SameCount DEF Finished, Caching!Known, Deleting, Caching!Settled

LEMMA KnownAfterChange ==
    ASSUME CacheInv, NEW h \in Changers, NEW kind \in {"cleanup", "settings"}, Caching!Change(h, kind)
    PROVE  Finished' = Finished /\ IsFiniteSet(Deleting)'
<1>1. /\ Finished = cleanups - Cardinality(Deleting)
      /\ Finished' = cleanups' - Cardinality(Deleting')
  BY SameCount DEF Finished, Caching!Known, Deleting, Caching!Settled
<1>2. IsFiniteSet(Deleting) /\ Cardinality(Deleting) \in Nat /\ cleanups \in Nat
  BY FS_CardinalityType DEF CacheInv, Caching!TypeOK
<1>3. changer' = [changer EXCEPT ![h] = [pc |-> "saved", kind |-> kind]] /\ changer[h].pc = "idle"
  BY DEF Caching!Change, Caching!Settled
<1>4. h \notin Deleting /\ DOMAIN changer = Changers
  BY <1>3 DEF Deleting, Caching!Settled, CacheInv, Caching!TypeOK
<1>5. CASE kind = "cleanup"
  <2>1. Deleting' = Deleting \cup {h}
    BY <1>3, <1>4, <1>5 DEF Deleting, Caching!Settled
  <2>2. IsFiniteSet(Deleting') /\ Cardinality(Deleting') = Cardinality(Deleting) + 1
    BY <1>2, <1>4, <2>1, FS_AddElement
  <2> QED BY <1>1, <1>2, <1>5, <2>2 DEF Caching!Change
<1>6. CASE kind = "settings"
  <2>1. Deleting' = Deleting
    BY <1>3, <1>4, <1>6 DEF Deleting, Caching!Settled
  <2> QED BY <1>1, <1>2, <1>6, <2>1 DEF Caching!Change
<1> QED BY <1>5, <1>6

LEMMA KnownAfterInvalidation ==
    ASSUME CacheInv, NEW h \in Changers, Caching!invalidate(h)
    PROVE  Finished <= Finished' /\ Finished' \in Int /\ IsFiniteSet(Deleting)'
<1>1. /\ Finished = cleanups - Cardinality(Deleting)
      /\ Finished' = cleanups' - Cardinality(Deleting')
  BY SameCount DEF Finished, Caching!Known, Deleting, Caching!Settled
<1>2. IsFiniteSet(Deleting) /\ Cardinality(Deleting) \in Nat /\ cleanups \in Nat /\ cleanups' = cleanups
  BY FS_CardinalityType DEF CacheInv, Caching!TypeOK, Caching!invalidate
<1>3. Deleting' = Deleting \ {h}
  BY DEF Caching!invalidate, Deleting, Caching!Settled, Caching!Idle, CacheInv, Caching!TypeOK
<1>4. IsFiniteSet(Deleting') /\ Cardinality(Deleting') \in Nat /\ Cardinality(Deleting') <= Cardinality(Deleting)
  BY <1>2, <1>3, FS_Subset, FS_CardinalityType
<1> QED BY <1>1, <1>2, <1>4

LEMMA HandlerFacts ==
    ASSUME CacheInv, NEW c \in Viewers, client[c].pc # "idle"
    PROVE  client[c] \in Caching!Handlers
BY DEF CacheInv, Caching!TypeOK, Caching!Idle

(* A handler's own step: what it did to itself and to the cache.           *)
LEMMA HandlerTyped ==
    ASSUME CacheInv, NEW c \in Viewers, NEW next \in Caching!Handlers, client' = [client EXCEPT ![c] = next]
    PROVE  /\ client' \in [Viewers -> {Caching!Idle} \cup Caching!Handlers]
           /\ client'[c] = next /\ \A d \in Viewers \ {c} : client'[d] = client[d]
BY DEF CacheInv, Caching!TypeOK

(* Who does nothing keeps what it has.                                     *)
LEMMA OthersKeep ==
    ASSUME CacheInv, NEW d \in Viewers, client'[d] = client[d],
           cacheNow' \in Nat, level' \in Nat, generation' \in Nat, Finished' \in Int,
           cacheNow <= cacheNow', level <= level', Finished <= Finished',
           \/ generation' = generation /\ Finished' = Finished
           \/ generation' = generation + 1
    PROVE  RequestInv(d)'
<1>1. RequestInv(d)
  BY DEF CacheInv
<1>2. CASE client[d].pc = "idle"
  BY <1>2 DEF RequestInv
<1>3. CASE client[d].pc # "idle"
  <2>1. client[d] \in Caching!Handlers /\ cacheNow \in Nat /\ level \in Nat /\ generation \in Nat /\ Finished \in Int
    BY <1>3, HandlerFacts, KnownFacts DEF CacheInv, Caching!TypeOK
  <2>2. client[d].rows \in Int /\ client[d].level \in Nat /\ client[d].at \in Nat /\ client[d].generation \in Nat
    BY <2>1 DEF Caching!Handlers
  <2> DEFINE known == Finished
  <2>3. known \in Int /\ known' \in Int /\ known <= known'
    BY <2>1
  <2>4. (generation' = generation /\ known' = known) \/ generation' = generation + 1
    OBVIOUS
  <2> HIDE DEF known
  <2>5. known = Finished /\ known' = Finished'
    BY DEF known
  <2> QED BY <1>1, <1>3, <2>1, <2>2, <2>3, <2>4, <2>5 DEF RequestInv
<1> QED BY <1>2, <1>3

LEMMA HandlersStep ==
    ASSUME CacheInv, Caching!SummaryCacheAssumption, NEW c \in Viewers,
           Caching!Arrive(c) \/ Caching!Move(c) \/ Caching!GoAway(c)
    PROVE  CacheInv'
<1> DEFINE known == Finished
<1>1. /\ UNCHANGED <<cacheNow, cleanups, level, generation, changer, changes>>
      /\ cacheNow \in Nat /\ cleanups \in Nat /\ level \in Nat /\ generation \in Nat /\ cacheFaults \in Nat
      /\ TTL \in Nat /\ TTL > 0 /\ expires \in Nat /\ value \in Caching!Summaries
      /\ flight \in Viewers \cup {None} /\ None \notin Viewers
  BY DEF Caching!Arrive, Caching!Move, Caching!GoAway, Caching!Get, Caching!Load, Caching!LoadFails,
         Caching!Store, Caching!Wake, Caching!Project, Caching!cache, CacheInv, Caching!TypeOK,
         Caching!SummaryCacheAssumption
<1>2. known' = known /\ known \in Int /\ known <= cleanups /\ IsFiniteSet(Deleting)'
  BY <1>1, KnownStands, KnownFacts DEF CacheInv
<1>3. ValueInv /\ FlightInv /\ RequestInv(c)
  BY DEF CacheInv
<1> HIDE DEF known
<1>4. known = Finished /\ known' = Finished'
  BY DEF known
<1>5. cacheFaults' \in Nat
  BY <1>1 DEF Caching!Arrive, Caching!Move, Caching!GoAway, Caching!Get, Caching!Load, Caching!LoadFails,
              Caching!Store, Caching!Wake, Caching!Project, Caching!Fault
<1> DEFINE Good(next) ==
       /\ next \in Caching!Handlers
       /\ client' = [client EXCEPT ![c] = next]
       /\ next.rows <= known
       /\ next.level <= level /\ next.at <= cacheNow /\ next.generation <= generation
       /\ next.pc \in {"loaded", "have", "answered"} =>
             next.rows <= next.summary.rows /\ next.at < next.summary.at + TTL
       /\ next.pc = "loaded" /\ next.generation = generation => known <= next.summary.rows
       /\ next.pc = "answered" => next.level <= next.shown
<1>6. ASSUME NEW next, Good(next),
             value' \in Caching!Summaries /\ expires' \in Nat /\ flight' \in Viewers \cup {None},
             ValueInv',
             next.pc \in {"load", "loaded"} <=> flight' = c,
             \A d \in Viewers \ {c} : client[d].pc \in {"load", "loaded"} <=> flight' = d
      PROVE  CacheInv'
  <2>1. /\ client' \in [Viewers -> {Caching!Idle} \cup Caching!Handlers]
        /\ client'[c] = next /\ \A d \in Viewers \ {c} : client'[d] = client[d]
    BY <1>6, HandlerTyped
  <2>2. Caching!TypeOK'
    BY <1>1, <1>5, <1>6, <2>1 DEF CacheInv, Caching!TypeOK
  <2>3. FlightInv'
    BY <1>6, <2>1 DEF FlightInv
  <2>4. RequestInv(c)'
    BY <1>1, <1>2, <1>4, <1>6, <2>1 DEF RequestInv
  <2>5. ASSUME NEW d \in Viewers \ {c} PROVE RequestInv(d)'
    BY <1>1, <1>2, <1>4, <2>1, <2>5, OthersKeep
  <2> QED BY <1>2, <1>6, <2>2, <2>3, <2>4, <2>5 DEF CacheInv
<1> HIDE DEF Good
<1>7. ASSUME UNCHANGED <<value, expires>> PROVE ValueInv'
  BY <1>1, <1>2, <1>3, <1>4, <1>7 DEF ValueInv
<1>8. ASSUME client[c].pc # "idle"
      PROVE  client[c] \in Caching!Handlers
  BY <1>8, HandlerFacts
<1>9. CASE Caching!Arrive(c)
  <2> DEFINE next == [pc |-> "get", at |-> cacheNow, rows |-> known, level |-> level,
                      summary |-> Caching!NoSummary, generation |-> 0, shown |-> 0]
  <2>1. client' = [client EXCEPT ![c] = next]
    BY <1>9, <1>4 DEF Caching!Arrive, Finished
  <2>2. Good(next)
    BY <1>1, <1>2, <2>1 DEF Good, Caching!Handlers, Caching!Summaries, Caching!NoSummary
  <2>3. UNCHANGED <<value, expires, flight>> /\ client[c].pc \notin {"load", "loaded"}
    BY <1>9 DEF Caching!Arrive, Caching!cache
  <2>4. next.pc \notin {"load", "loaded"}
    OBVIOUS
  <2> HIDE DEF next
  <2> QED BY <1>1, <1>3, <1>6, <1>7, <2>2, <2>3, <2>4 DEF FlightInv
<1>10. CASE Caching!Get(c)
  <2>1. client[c] \in Caching!Handlers /\ client[c].pc = "get" /\ UNCHANGED <<value, expires>>
    BY <1>8, <1>10 DEF Caching!Get
  <2>2. CASE cacheNow < expires /\ client' = [client EXCEPT ![c].pc = "have", ![c].summary = value] /\ UNCHANGED flight
    <3> DEFINE next == [client[c] EXCEPT !.pc = "have", !.summary = value]
    <3>1. client' = [client EXCEPT ![c] = next]
      BY <2>2 DEF CacheInv, Caching!TypeOK
    <3>2. /\ next \in Caching!Handlers /\ next.pc = "have" /\ next.summary = value /\ next.rows = client[c].rows
          /\ next.level = client[c].level /\ next.at = client[c].at /\ next.generation = client[c].generation
      BY <1>1, <2>1 DEF Caching!Handlers
    <3> HIDE DEF next
    <3>3. known <= value.rows /\ expires = value.at + TTL /\ value.rows \in Nat /\ value.at \in Nat
      BY <1>1, <1>3, <1>4, <2>2 DEF ValueInv, Caching!Summaries
    <3>4. client[c].rows \in Int /\ client[c].at \in Nat
      BY <2>1 DEF Caching!Handlers
    <3>5. /\ client[c].rows <= known /\ client[c].level <= level /\ client[c].at <= cacheNow
          /\ client[c].generation <= generation
      BY <1>3, <1>4, <2>1 DEF RequestInv
    <3>6. client[c].rows <= value.rows /\ client[c].at < value.at + TTL
      BY <1>1, <1>2, <2>2, <3>3, <3>4, <3>5
    <3>7. Good(next)
      BY <3>1, <3>2, <3>5, <3>6 DEF Good
    <3> QED BY <1>1, <1>3, <1>6, <1>7, <2>1, <2>2, <3>2, <3>7 DEF FlightInv
  <2>3. CASE flight # None /\ client' = [client EXCEPT ![c].pc = "wait"] /\ UNCHANGED flight
    <3> DEFINE next == [client[c] EXCEPT !.pc = "wait"]
    <3>1. client' = [client EXCEPT ![c] = next]
      BY <2>3 DEF CacheInv, Caching!TypeOK
    <3>2. /\ next \in Caching!Handlers /\ next.pc = "wait" /\ next.rows = client[c].rows
          /\ next.level = client[c].level /\ next.at = client[c].at /\ next.generation = client[c].generation
      BY <1>1, <2>1 DEF Caching!Handlers
    <3> HIDE DEF next
    <3>3. Good(next)
      BY <1>3, <1>4, <2>1, <3>1, <3>2 DEF Good, RequestInv
    <3> QED BY <1>1, <1>3, <1>6, <1>7, <2>1, <2>3, <3>2, <3>3 DEF FlightInv
  <2>4. CASE flight = None /\ flight' = c /\ client' = [client EXCEPT ![c].pc = "load", ![c].generation = generation]
    <3> DEFINE next == [client[c] EXCEPT !.pc = "load", !.generation = generation]
    <3>1. client' = [client EXCEPT ![c] = next]
      BY <2>4 DEF CacheInv, Caching!TypeOK
    <3>2. /\ next \in Caching!Handlers /\ next.pc = "load" /\ next.rows = client[c].rows
          /\ next.level = client[c].level /\ next.at = client[c].at /\ next.generation = generation
      BY <1>1, <2>1 DEF Caching!Handlers
    <3> HIDE DEF next
    <3>3. Good(next)
      BY <1>1, <1>3, <1>4, <2>1, <3>1, <3>2 DEF Good, RequestInv
    <3> QED BY <1>1, <1>3, <1>6, <1>7, <2>1, <2>4, <3>2, <3>3 DEF FlightInv
  <2> QED BY <1>10, <2>2, <2>3, <2>4 DEF Caching!Get
<1>11. CASE Caching!Load(c)
  <2> DEFINE next == [client[c] EXCEPT !.pc = "loaded", !.summary = [rows |-> cleanups, level |-> level, at |-> cacheNow]]
  <2>1. client[c] \in Caching!Handlers /\ client[c].pc = "load" /\ UNCHANGED <<value, expires, flight>>
    BY <1>8, <1>11 DEF Caching!Load, Caching!cache
  <2>2. client' = [client EXCEPT ![c] = next]
    BY <1>11 DEF Caching!Load, CacheInv, Caching!TypeOK
  <2>3. /\ next \in Caching!Handlers /\ next.pc = "loaded" /\ next.rows = client[c].rows
        /\ next.summary.rows = cleanups /\ next.summary.at = cacheNow
        /\ next.level = client[c].level /\ next.at = client[c].at /\ next.generation = client[c].generation
    BY <1>1, <2>1 DEF Caching!Handlers, Caching!Summaries
  <2> HIDE DEF next
  <2>4. client[c].rows \in Int /\ client[c].at \in Nat
    BY <2>1 DEF Caching!Handlers
  <2>5. Good(next)
    BY <1>1, <1>2, <1>3, <1>4, <2>1, <2>2, <2>3, <2>4 DEF Good, RequestInv
  <2> QED BY <1>1, <1>3, <1>6, <1>7, <2>1, <2>3, <2>5 DEF FlightInv
<1>12. CASE Caching!Store(c)
  <2> DEFINE next == [client[c] EXCEPT !.pc = "have"]
  <2>1. client[c] \in Caching!Handlers /\ client[c].pc = "loaded" /\ flight' = None /\ flight = c
    BY <1>3, <1>8, <1>12 DEF Caching!Store, FlightInv
  <2>2. client' = [client EXCEPT ![c] = next]
    BY <1>12 DEF Caching!Store, CacheInv, Caching!TypeOK
  <2>3. /\ next \in Caching!Handlers /\ next.pc = "have" /\ next.rows = client[c].rows /\ next.summary = client[c].summary
        /\ next.level = client[c].level /\ next.at = client[c].at /\ next.generation = client[c].generation
    BY <1>1, <2>1 DEF Caching!Handlers
  <2> HIDE DEF next
  <2>4. Good(next)
    BY <1>3, <1>4, <2>1, <2>2, <2>3 DEF Good, RequestInv
  <2>5. value' \in Caching!Summaries /\ expires' \in Nat /\ ValueInv'
    <3>1. CASE client[c].generation = generation
      <4>1. value' = [client[c].summary EXCEPT !.at = cacheNow] /\ expires' = cacheNow + TTL
        BY <1>12, <3>1 DEF Caching!Store
      <4>2. client[c].summary \in Caching!Summaries
        BY <2>1 DEF Caching!Handlers
      <4>3. value' \in Caching!Summaries /\ value'.rows = client[c].summary.rows /\ value'.at = cacheNow
        BY <1>1, <4>1, <4>2 DEF Caching!Summaries
      <4>4. known <= client[c].summary.rows
        BY <1>3, <1>4, <2>1, <3>1 DEF RequestInv
      <4> QED BY <1>1, <1>2, <1>4, <4>1, <4>3, <4>4 DEF ValueInv
    <3>2. CASE client[c].generation # generation
      BY <1>1, <1>7, <1>12, <3>2 DEF Caching!Store
    <3> QED BY <3>1, <3>2
  <2> QED BY <1>1, <1>3, <1>6, <2>1, <2>3, <2>4, <2>5 DEF FlightInv
<1>13. CASE Caching!LoadFails(c) \/ Caching!Wake(c) \/ Caching!GoAway(c)
  <2>1. PICK to \in {"failed", "get"} : client' = [client EXCEPT ![c].pc = to]
    BY <1>13 DEF Caching!LoadFails, Caching!Wake, Caching!GoAway
  <2> DEFINE next == [client[c] EXCEPT !.pc = to]
  <2>2. client[c] \in Caching!Handlers /\ UNCHANGED <<value, expires>>
    BY <1>8, <1>13 DEF Caching!LoadFails, Caching!Wake, Caching!GoAway, Caching!cache
  <2>3. client' = [client EXCEPT ![c] = next]
    BY <2>1 DEF CacheInv, Caching!TypeOK
  <2>4. /\ next \in Caching!Handlers /\ next.pc = to /\ next.rows = client[c].rows
        /\ next.level = client[c].level /\ next.at = client[c].at /\ next.generation = client[c].generation
    BY <1>1, <2>2 DEF Caching!Handlers
  <2> HIDE DEF next
  <2>5. Good(next)
    BY <1>3, <1>4, <1>13, <2>3, <2>4 DEF Good, RequestInv, Caching!LoadFails, Caching!Wake, Caching!GoAway
  <2>6. \/ client[c].pc = "load" /\ flight' = None /\ flight = c
        \/ client[c].pc = "wait" /\ UNCHANGED flight
    BY <1>3, <1>13 DEF Caching!LoadFails, Caching!Wake, Caching!GoAway, Caching!cache, FlightInv
  <2> QED BY <1>1, <1>3, <1>6, <1>7, <2>2, <2>4, <2>5, <2>6 DEF FlightInv
<1>14. CASE Caching!Project(c)
  <2> DEFINE next == [client[c] EXCEPT !.pc = "answered", !.shown = level]
  <2>1. client[c] \in Caching!Handlers /\ client[c].pc = "have" /\ UNCHANGED <<value, expires, flight>>
    BY <1>8, <1>14 DEF Caching!Project, Caching!cache
  <2>2. client' = [client EXCEPT ![c] = next]
    BY <1>14 DEF Caching!Project, CacheInv, Caching!TypeOK
  <2>3. /\ next \in Caching!Handlers /\ next.pc = "answered" /\ next.rows = client[c].rows /\ next.shown = level
        /\ next.summary = client[c].summary
        /\ next.level = client[c].level /\ next.at = client[c].at /\ next.generation = client[c].generation
    BY <1>1, <2>1 DEF Caching!Handlers
  <2> HIDE DEF next
  <2>4. Good(next)
    BY <1>3, <1>4, <2>1, <2>2, <2>3 DEF Good, RequestInv
  <2> QED BY <1>1, <1>3, <1>6, <1>7, <2>1, <2>3, <2>4 DEF FlightInv
<1> QED BY <1>9, <1>10, <1>11, <1>12, <1>13, <1>14 DEF Caching!Move

LEMMA ChangersStep ==
    ASSUME CacheInv, NEW h \in Changers,
           Caching!invalidate(h) \/ \E kind \in {"cleanup", "settings"} : Caching!Change(h, kind)
    PROVE  CacheInv'
<1>1. /\ UNCHANGED <<cacheNow, flight, client, cacheFaults>> /\ value \in Caching!Summaries /\ expires \in Nat
      /\ cleanups \in Nat /\ level \in Nat /\ generation \in Nat /\ cacheNow \in Nat /\ changes \in Nat
  BY DEF Caching!invalidate, Caching!Change, Caching!cache, CacheInv, Caching!TypeOK
<1>2. Finished \in Int
  BY KnownFacts
<1>3. CASE Caching!invalidate(h)
  <2>1. /\ generation' = generation + 1 /\ expires' = 0 /\ value' = Caching!NoSummary
        /\ changer' = [changer EXCEPT ![h] = Caching!Idle] /\ UNCHANGED <<cleanups, level, changes>>
    BY <1>3 DEF Caching!invalidate, Caching!Expired
  <2>2. Caching!TypeOK'
    BY <1>1, <2>1 DEF CacheInv, Caching!TypeOK, Caching!NoSummary, Caching!Summaries
  <2>3. Finished <= Finished' /\ Finished' \in Int /\ IsFiniteSet(Deleting)'
    BY <1>3, KnownAfterInvalidation
  <2>4. ASSUME NEW d \in Viewers PROVE RequestInv(d)'
    BY <1>1, <2>1, <2>3, OthersKeep
  <2>5. ValueInv' /\ FlightInv'
    BY <1>1, <2>1 DEF CacheInv, ValueInv, FlightInv
  <2> QED BY <2>2, <2>3, <2>4, <2>5 DEF CacheInv
<1>4. ASSUME NEW kind \in {"cleanup", "settings"}, Caching!Change(h, kind) PROVE CacheInv'
  <2>1. /\ UNCHANGED <<value, expires, generation>> /\ changes' = changes + 1
        /\ changer' = [changer EXCEPT ![h] = [pc |-> "saved", kind |-> kind]]
        /\ cleanups' \in Nat /\ level' \in Nat /\ level <= level'
    BY <1>1, <1>4 DEF Caching!Change, Caching!cache
  <2>2. Caching!TypeOK'
    BY <1>1, <2>1 DEF CacheInv, Caching!TypeOK
  <2>3. Finished' = Finished /\ IsFiniteSet(Deleting)'
    BY <1>4, KnownAfterChange
  <2>4. ASSUME NEW d \in Viewers PROVE RequestInv(d)'
    BY <1>1, <1>2, <2>1, <2>3, OthersKeep
  <2>5. ValueInv' /\ FlightInv'
    BY <1>1, <2>1, <2>3 DEF CacheInv, ValueInv, FlightInv
  <2> QED BY <2>2, <2>3, <2>4, <2>5 DEF CacheInv
<1> QED BY <1>3, <1>4

LEMMA CacheInit == ASSUME Caching!SummaryCacheAssumption, Caching!Init PROVE CacheInv
<1>1. Caching!TypeOK
  BY DEF Caching!Init, Caching!TypeOK, Caching!NoSummary, Caching!Summaries, Caching!Expired
<1>2. \A c \in Viewers : client[c].pc = "idle"
  BY DEF Caching!Init, Caching!Idle
<1>3. Deleting = {}
  BY DEF Deleting, Caching!Init, Caching!Idle, Caching!Settled
<1>4. FlightInv /\ ValueInv
  BY <1>2 DEF FlightInv, ValueInv, Caching!Init, Caching!Expired, Caching!SummaryCacheAssumption
<1> QED BY <1>1, <1>2, <1>3, <1>4, FS_EmptySet DEF CacheInv, RequestInv

LEMMA CacheStep ==
    ASSUME Caching!SummaryCacheAssumption, CacheInv, [Caching!Next]_(Caching!vars)
    PROVE  CacheInv'
<1>1. CASE Caching!Tick \/ UNCHANGED Caching!vars
  <2>1. /\ UNCHANGED <<cleanups, level, value, expires, flight, generation, client, changer, changes, cacheFaults>>
        /\ cacheNow \in Nat /\ cacheNow' \in Nat /\ cacheNow <= cacheNow'
        /\ expires \in Nat /\ level \in Nat /\ generation \in Nat
    BY <1>1 DEF Caching!Tick, Caching!vars, Caching!cache, CacheInv, Caching!TypeOK
  <2>2. Finished' = Finished /\ Deleting' = Deleting
    BY <2>1, KnownStands
  <2>3. Finished \in Int
    BY KnownFacts
  <2>4. ASSUME NEW d \in Viewers PROVE RequestInv(d)'
    BY <2>1, <2>2, <2>3, OthersKeep
  <2>5. Caching!TypeOK'
    BY <2>1 DEF CacheInv, Caching!TypeOK
  <2>6. ValueInv' /\ FlightInv'
    BY <2>1, <2>2 DEF CacheInv, ValueInv, FlightInv
  <2> QED BY <2>2, <2>4, <2>5, <2>6 DEF CacheInv
<1> QED BY <1>1, HandlersStep, ChangersStep DEF Caching!Next

LEMMA CacheGood == ASSUME Caching!SummaryCacheAssumption, CacheInv PROVE Caching!SummaryIsFresh
<1>1. Caching!OneComputation
  <2> DEFINE computing == {c \in Viewers : client[c].pc \in {"load", "loaded"}}
  <2>1. computing \subseteq {flight}
    BY DEF CacheInv, FlightInv
  <2>2. IsFiniteSet({flight}) /\ Cardinality({flight}) = 1
    BY FS_Singleton
  <2>3. Cardinality(computing) <= 1
    BY <2>1, <2>2, FS_Subset
  <2> QED BY <2>3, SameCount DEF Caching!OneComputation
<1>2. ASSUME NEW c \in Viewers, client[c].pc # "idle"
      PROVE  /\ client[c].pc \in {"have", "answered"} =>
                   client[c].summary.rows >= client[c].rows /\ client[c].summary.at + TTL > client[c].at
             /\ client[c].pc = "answered" => client[c].shown >= client[c].level
  <2>1. client[c] \in Caching!Handlers /\ RequestInv(c) /\ TTL \in Nat
    BY <1>2, HandlerFacts DEF CacheInv, Caching!SummaryCacheAssumption
  <2>2. /\ client[c].summary.rows \in Nat /\ client[c].rows \in Int /\ client[c].summary.at \in Nat
        /\ client[c].at \in Nat /\ client[c].shown \in Nat /\ client[c].level \in Nat
    BY <2>1 DEF Caching!Handlers, Caching!Summaries
  <2> QED BY <1>2, <2>1, <2>2 DEF RequestInv
<1> QED
  BY <1>1, <1>2 DEF Caching!SummaryIsFresh, Caching!NothingFromBeforeCleanup, Caching!AnswersAreRecent,
                    Caching!PrivacyIsFresh

-----------------------------------------------------------------------------
(* Of any requests for the summary one computes at a time, and none gets a *)
(* summary from before a cleanup that was over when it came, one past its  *)
(* term, or one projected by an older privacy level than it came under     *)
(* (summaryCache in internal/audit/summary_cache.go).                      *)
THEOREM CacheStaysFresh ==
    ASSUME Caching!SummaryCacheAssumption
    PROVE  Caching!Spec => [](Caching!TypeOK /\ Caching!SummaryIsFresh)
<1>1. CacheInv => Caching!TypeOK /\ Caching!SummaryIsFresh
  BY CacheGood DEF CacheInv
<1> QED BY <1>1, CacheInit, CacheStep, PTL DEF Caching!Spec

-----------------------------------------------------------------------------
(* Times, and the boundaries of the summary's buckets, as texts.           *)

(* What a quotient and its remainder are.                                  *)
LEMMA Divided ==
    ASSUME NEW n \in Nat, NEW d \in Nat \ {0}
    PROVE  /\ n \div d \in Nat /\ n % d \in Nat /\ n % d < d
           /\ n = d * (n \div d) + (n % d)
OBVIOUS

(* A whole second is the number of seconds up to it.                       *)
LEMMA WholeSecond ==
    ASSUME NEW t \in Nat, NEW b \in Nat, b % Second = 0
    PROVE  /\ SecondOf(t) < SecondOf(b) => t < b
           /\ SecondOf(t) >= SecondOf(b) => t >= b
<1>1. Base \in Nat /\ Base >= 2
  BY AuditTimeAssumption
<1>2. Second \in Nat \ {0}
  BY <1>1 DEF Second
<1> DEFINE d == Second
           s == SecondOf(t)
           v == SecondOf(b)
<1>3. /\ s \in Nat /\ v \in Nat /\ t % d \in Nat /\ t % d < d
      /\ t = d * s + (t % d) /\ b = d * v
  BY <1>2, Divided DEF SecondOf
<1>4. d \in Nat \ {0}
  BY <1>2
<1>5. \A x, y \in Nat : x < y => d * x + d <= d * y
  <2> SUFFICES ASSUME NEW x \in Nat, NEW y \in Nat, x < y PROVE d * x + d <= d * y
    OBVIOUS
  <2> HIDE DEF d
  <2>1. PICK z \in Nat : y = x + 1 + z
    <3>1. y - x - 1 \in Nat /\ y = x + 1 + (y - x - 1)
      OBVIOUS
    <3> QED BY <3>1
  <2>2. d * y = d * x + d + d * z /\ d * z \in Nat /\ d * x \in Nat
    BY <1>4, <2>1
  <2> QED BY <1>4, <2>2
<1>6. \A x, y \in Nat : x <= y => d * x <= d * y
  <2> SUFFICES ASSUME NEW x \in Nat, NEW y \in Nat, x <= y PROVE d * x <= d * y
    OBVIOUS
  <2>1. CASE x = y
    BY <1>4, <2>1
  <2>2. CASE x < y
    <3>1. d * x + d <= d * y /\ d * x \in Nat /\ d * y \in Nat
      BY <1>4, <1>5, <2>2
    <3> QED BY <1>4, <3>1
  <2> QED BY <2>1, <2>2
<1>7. d * s \in Nat /\ d * v \in Nat
  BY <1>3, <1>4
<1> HIDE DEF d, s, v
<1>8. s < v => t < b
  BY <1>3, <1>4, <1>5, <1>7
<1>9. s >= v => t >= b
  BY <1>3, <1>4, <1>6, <1>7
<1> QED BY <1>8, <1>9 DEF s, v

(* What a character before a text makes of it.                              *)
LEMMA Prefixed ==
    ASSUME NEW s \in Int, NEW r \in Seq(Int)
    PROVE  /\ <<s>> \o r \in Seq(Int) /\ Len(<<s>> \o r) = 1 + Len(r) /\ (<<s>> \o r)[1] = s
           /\ \A k \in 1..Len(r) : (<<s>> \o r)[k + 1] = r[k]
<1> DEFINE l == <<s>>
           c == l \o r
<1>1. l \in Seq(Int) /\ Len(l) = 1 /\ l[1] = s /\ Len(r) \in Nat
  OBVIOUS
<1> HIDE DEF l
<1>2. /\ c \in Seq(Int) /\ Len(c) = Len(l) + Len(r) 
      /\ \A i \in 1..(Len(l) + Len(r)) : c[i] = IF i <= Len(l) THEN l[i] ELSE r[i - Len(l)]
  BY <1>1, ConcatProperties
<1> HIDE DEF c
<1>3. \A i \in 1..(1 + Len(r)) : c[i] = IF i <= 1 THEN l[i] ELSE r[i - 1]
  BY <1>1, <1>2
<1>4. ASSUME NEW k \in 1..Len(r) PROVE c[k + 1] = r[k]
  <2>1. k + 1 \in 1..(1 + Len(r)) /\ ~(k + 1 <= 1) /\ (k + 1) - 1 = k
    BY <1>1
  <2> QED BY <1>3, <2>1
<1>5. Len(c) = 1 + Len(r) /\ c[1] = s
  BY <1>1, <1>2, <1>3
<1> QED BY <1>2, <1>4, <1>5 DEF l, c

(* The text of a time: the second, and then the dot and the fraction, or   *)
(* the Z.                                                                  *)
LEMMA TimeText ==
    ASSUME NEW t \in Nat
    PROVE  LET at == RFC3339Nano(t)
           IN  /\ at \in Seq(Int) /\ at[1] = SecondOf(t)
               /\ \/ Len(at) = 2 /\ at[2] = Zed
                  \/ Len(at) = 4 /\ at[2] = Dot /\ \E x \in Nat \ {0} : at[3] = Digit(x)
                  \/ Len(at) = 5 /\ at[2] = Dot /\ \E x \in Nat, y \in Nat \ {0} :
                                                   at[3] = Digit(x) /\ at[4] = Digit(y)
<1>1. Base \in Nat \ {0} /\ Second \in Nat \ {0}
  BY AuditTimeAssumption DEF Second
<1> DEFINE tenths == (t % Second) \div Base
           rest == t % Base
           s == SecondOf(t)
           fraction == CASE rest # 0 -> <<Dot, Digit(tenths), Digit(rest), Zed>>
                         [] rest = 0 /\ tenths # 0 -> <<Dot, Digit(tenths), Zed>>
                         [] OTHER -> <<Zed>>
           at == <<s>> \o fraction
<1>2. tenths \in Nat /\ rest \in Nat /\ s \in Int
  BY <1>1, Divided DEF SecondOf
<1>3. RFC3339Nano(t) = at
  BY DEF RFC3339Nano
<1>4. Dot \in Int /\ Zed \in Int /\ Digit(tenths) \in Int /\ Digit(rest) \in Int
  BY <1>1, <1>2 DEF Dot, Zed, Digit
<1> HIDE DEF tenths, rest, s
<1>5. /\ fraction \in Seq(Int)
      /\ \/ Len(fraction) = 1 /\ fraction[1] = Zed
         \/ Len(fraction) = 3 /\ fraction[1] = Dot /\ fraction[2] = Digit(tenths) /\ tenths # 0
         \/ Len(fraction) = 4 /\ fraction[1] = Dot /\ fraction[2] = Digit(tenths)
            /\ fraction[3] = Digit(rest) /\ rest # 0
  <2>1. CASE rest # 0
    BY <1>4, <2>1
  <2>2. CASE rest = 0 /\ tenths # 0
    BY <1>4, <2>2
  <2>3. CASE rest = 0 /\ ~(tenths # 0)
    BY <1>4, <2>3
  <2> QED BY <2>1, <2>2, <2>3
<1> HIDE DEF fraction
<1>6. /\ at \in Seq(Int) /\ Len(at) = 1 + Len(fraction) /\ at[1] = s
      /\ \A k \in 1..Len(fraction) : at[k + 1] = fraction[k]
  BY <1>2, <1>5, Prefixed
<1> HIDE DEF at
<1>7. CASE Len(fraction) = 1 /\ fraction[1] = Zed
  <2>1. Len(at) = 2 /\ at[2] = Zed
    <3>1. Len(at) = 2 /\ at[1 + 1] = Zed
      BY <1>6, <1>7
    <3> QED BY <3>1
  <2> QED BY <1>3, <1>6, <2>1 DEF s
<1>8. CASE Len(fraction) = 3 /\ fraction[1] = Dot /\ fraction[2] = Digit(tenths) /\ tenths # 0
  <2>1. Len(at) = 4 /\ at[1 + 1] = Dot /\ at[2 + 1] = Digit(tenths)
    BY <1>6, <1>8
  <2>2. Len(at) = 4 /\ at[2] = Dot /\ at[3] = Digit(tenths) /\ tenths \in Nat \ {0}
    BY <1>2, <1>8, <2>1
  <2> QED BY <1>3, <1>6, <2>2 DEF s
<1>9. CASE /\ Len(fraction) = 4 /\ fraction[1] = Dot /\ fraction[2] = Digit(tenths)
           /\ fraction[3] = Digit(rest) /\ rest # 0
  <2>1. Len(at) = 5 /\ at[1 + 1] = Dot /\ at[2 + 1] = Digit(tenths) /\ at[3 + 1] = Digit(rest)
    BY <1>6, <1>9
  <2>2. /\ Len(at) = 5 /\ at[2] = Dot /\ at[3] = Digit(tenths) /\ at[4] = Digit(rest)
        /\ tenths \in Nat /\ rest \in Nat \ {0}
    BY <1>2, <1>9, <2>1
  <2> QED BY <1>3, <1>6, <2>2 DEF s
<1> QED BY <1>5, <1>7, <1>8, <1>9

(* The boundary of a bucket is a whole second with all its zeros, so no    *)
(* time of that second, and none of a later one, comes before it.          *)
LEMMA BoundaryText ==
    ASSUME NEW t \in Nat, NEW b \in Nat, b % Second = 0
    PROVE  TextBefore(RFC3339Nano(t), bucketBoundaryLayout(b)) <=> t < b
<1>1. Base \in Nat \ {0} /\ Second \in Nat \ {0}
  BY AuditTimeAssumption DEF Second
<1> DEFINE at == RFC3339Nano(t)
           bound == bucketBoundaryLayout(b)
           s == SecondOf(t)
           v == SecondOf(b)
<1>2. s \in Nat /\ v \in Nat
  BY <1>1, Divided DEF SecondOf
<1>3. bound = <<v, Dot, Digit(0), Digit(0), Zed>>
  <2>1. b % Base = 0 /\ 0 \div Base = 0
    <3>1. b = Second * v
      BY <1>1, Divided DEF SecondOf
    <3>2. b = Base * (Base * v)
      BY <1>1, <1>2, <3>1 DEF Second
    <3>3. Base * v \in Nat
      BY <1>1, <1>2
    <3>4. ASSUME NEW m \in Nat, NEW d \in Nat \ {0} PROVE (d * m) % d = 0
      BY <3>4
    <3> QED BY <1>1, <3>2, <3>3, <3>4
  <2> QED BY <2>1 DEF bucketBoundaryLayout
<1>4. /\ at \in Seq(Int) /\ at[1] = s
      /\ \/ Len(at) = 2 /\ at[2] = Zed
         \/ Len(at) = 4 /\ at[2] = Dot /\ \E x \in Nat \ {0} : at[3] = Digit(x)
         \/ Len(at) = 5 /\ at[2] = Dot /\ \E x \in Nat, y \in Nat \ {0} : at[3] = Digit(x) /\ at[4] = Digit(y)
  BY TimeText
<1>5. 1 \in DOMAIN at \cap DOMAIN bound
  BY <1>3, <1>4
<1> HIDE DEF at, bound, s, v
<1>6. CASE s < v
  <2>1. at[1] < bound[1] /\ \A j \in 1..(1 - 1) : at[j] = bound[j]
    BY <1>3, <1>4, <1>6
  <2>2. TextBefore(at, bound)
    BY <1>5, <2>1 DEF TextBefore
  <2> QED BY <1>6, <2>2, WholeSecond DEF at, bound, s, v
<1>7. CASE s >= v
  <2> SUFFICES ASSUME TextBefore(at, bound) PROVE FALSE
    BY <1>7, WholeSecond DEF at, bound, s, v
  <2>1. PICK k \in DOMAIN at \cap DOMAIN bound :
          at[k] < bound[k] /\ \A j \in 1..(k - 1) : at[j] = bound[j]
    BY DEF TextBefore
  <2>2. k \in 1..5 /\ k <= Len(at)
    BY <1>3, <1>4, <2>1
  <2>3. k # 1
    BY <1>2, <1>3, <1>4, <1>7, <2>1
  <2>4. CASE Len(at) = 2 /\ at[2] = Zed
    <3>1. k = 2
      BY <2>2, <2>3, <2>4
    <3> QED BY <1>1, <1>3, <2>1, <2>4, <3>1 DEF Zed, Dot
  <2>5. ASSUME NEW x \in Nat \ {0}, Len(at) = 4, at[2] = Dot, at[3] = Digit(x) PROVE FALSE
    <3>1. k # 2 /\ k # 3
      BY <1>3, <2>1, <2>5 DEF Digit, Dot
    <3>2. k = 4
      BY <2>2, <2>3, <2>5, <3>1
    <3>3. at[3] = bound[3]
      BY <2>1, <3>2
    <3> QED BY <1>3, <2>5, <3>3 DEF Digit
  <2>6. ASSUME NEW x \in Nat, NEW y \in Nat \ {0}, Len(at) = 5, at[2] = Dot, at[3] = Digit(x), at[4] = Digit(y)
        PROVE  FALSE
    <3>1. k # 2 /\ k # 3 /\ k # 4
      BY <1>3, <2>1, <2>6 DEF Digit, Dot
    <3>2. k = 5
      BY <2>2, <2>3, <3>1
    <3>3. at[4] = bound[4]
      BY <2>1, <3>2
    <3> QED BY <1>3, <2>6, <3>3 DEF Digit
  <2> QED BY <1>4, <2>4, <2>5, <2>6
<1> QED BY <1>2, <1>6, <1>7

-----------------------------------------------------------------------------
(* The buckets of the summary.                                             *)

(* The clock is past the first bucket and the retention, and rows were     *)
(* recorded since the epoch.                                               *)
ReadingInv ==
    /\ logNow \in Nat /\ logNow >= LogStart
    /\ \A e \in log : e.at \in Nat

(* The buckets fit between the epoch and the start of the clock.           *)
LEMMA ReadingNumbers ==
    ASSUME Reading!AuditQueriesAssumption
    PROVE  /\ BucketCount * BucketInterval \in Nat \ {0} /\ LogStart \in Nat
           /\ LogStart >= BucketCount * BucketInterval
<1>1. BucketCount \in Nat \ {0} /\ BucketInterval \in Nat \ {0} /\ Retention \in Nat /\ LogStart \in Nat
  BY DEF Reading!AuditQueriesAssumption
<1>2. BucketCount * BucketInterval \in Nat \ {0}
  BY <1>1
<1>3. LogStart >= BucketCount * BucketInterval + Retention
  BY DEF Reading!AuditQueriesAssumption
<1> HIDE DEF Reading!AuditQueriesAssumption
<1> DEFINE span == BucketCount * BucketInterval
<1>4. span \in Nat \ {0} /\ LogStart >= span + Retention
  BY <1>2, <1>3
<1> HIDE DEF span
<1>5. LogStart >= span
  BY <1>1, <1>4
<1> QED BY <1>1, <1>2, <1>5 DEF span

(* The two modules read and order texts alike.                             *)
LEMMA SameTexts ==
    /\ Reading!Second = Second
    /\ \A t : /\ Reading!RFC3339Nano(t) = RFC3339Nano(t)
             /\ Reading!bucketBoundaryLayout(t) = bucketBoundaryLayout(t)
    /\ \A a, b : Reading!TextBefore(a, b) = TextBefore(a, b)
BY DEF Reading!Second, Reading!RFC3339Nano, Reading!bucketBoundaryLayout, Reading!TextBefore,
       Reading!SecondOf, Reading!Dot, Reading!Digit, Reading!Zed,
       Second, RFC3339Nano, bucketBoundaryLayout, TextBefore, SecondOf, Dot, Digit, Zed

(* Every boundary is a whole second after the epoch.                       *)
LEMMA Boundaries ==
    ASSUME Reading!AuditQueriesAssumption, logNow \in Nat, logNow >= LogStart, NEW i \in 1..(BucketCount + 1)
    PROVE  Reading!BucketStart(i) \in Nat /\ Reading!BucketStart(i) % Second = 0
<1> DEFINE n == BucketCount
           w == BucketInterval
           q == logNow \div w
           m == w \div Second
           z == q - n + i
<1>1. /\ n \in Nat \ {0} /\ w \in Nat \ {0} /\ w % Second = 0 /\ i \in Nat /\ i >= 1 /\ i <= n + 1
      /\ Second \in Nat \ {0}
  BY AuditTimeAssumption, SameTexts DEF Reading!AuditQueriesAssumption, Second
<1>2. n * w \in Nat /\ logNow >= n * w
  <2> HIDE DEF n, w
  <2>1. n * w \in Nat /\ LogStart \in Nat /\ LogStart >= n * w
    BY ReadingNumbers DEF n, w
  <2> QED BY <2>1
<1>3. q \in Nat /\ logNow % w \in Nat /\ logNow % w < w /\ logNow = w * q + (logNow % w)
  BY <1>1, Divided
<1>4. m \in Nat /\ w = Second * m
  BY <1>1, Divided
<1>5. Reading!BucketStart(i) = (q * w + w) - (n - i + 1) * w
  BY DEF Reading!BucketStart, Reading!BucketEnd
<1> HIDE DEF n, w, q, m
<1>6. q >= n
  <2> SUFFICES ASSUME q < n PROVE FALSE
    BY <1>1, <1>3
  <2>1. PICK d \in Nat : n = q + 1 + d
    <3>1. n - q - 1 \in Nat /\ n = q + 1 + (n - q - 1)
      BY <1>1, <1>3
    <3> QED BY <3>1
  <2>2. n * w = w * q + w + d * w /\ d * w \in Nat /\ w * q \in Nat
    BY <1>1, <1>3, <2>1
  <2> QED BY <1>1, <1>2, <1>3, <2>2
<1>7. z \in Nat
  BY <1>1, <1>3, <1>6
<1>8. Reading!BucketStart(i) = z * w
  <2>1. n - i + 1 \in Int /\ q + 1 - (n - i + 1) = z
    BY <1>1, <1>3
  <2>2. \A x, y \in Int : (x * w + w) - y * w = (x + 1 - y) * w
    BY <1>1
  <2> QED BY <1>3, <1>5, <2>1, <2>2
<1> HIDE DEF z
<1>9. z * w = Second * (z * m) /\ z * m \in Nat
  BY <1>1, <1>4, <1>7
<1>10. \A d \in Nat \ {0}, x \in Nat : d * x \in Nat /\ (d * x) % d = 0
  OBVIOUS
<1> QED BY <1>1, <1>8, <1>9, <1>10

LEMMA ReadingInit == ASSUME Reading!AuditQueriesAssumption, Reading!Init PROVE ReadingInv
BY DEF Reading!AuditQueriesAssumption, Reading!Init, ReadingInv

LEMMA ReadingStep ==
    ASSUME Reading!AuditQueriesAssumption, ReadingInv, [Reading!Next]_(Reading!vars)
    PROVE  ReadingInv'
<1>1. logNow >= 1 /\ LogStart \in Nat
  <2> DEFINE span == BucketCount * BucketInterval
  <2>1. span \in Nat \ {0} /\ LogStart \in Nat /\ LogStart >= span
    BY ReadingNumbers
  <2> HIDE DEF span
  <2> QED BY <2>1 DEF ReadingInv
<1>2. CASE UNCHANGED Reading!vars
  BY <1>2 DEF ReadingInv, Reading!vars
<1>3. CASE Reading!Begin \/ Reading!Page
  BY <1>3 DEF ReadingInv, Reading!Begin, Reading!Page
<1>4. CASE Reading!Insert
  <2>1. logNow' = logNow
    BY <1>4 DEF Reading!Insert
  <2>2. PICK e : log' = log \cup {e} /\ e.at \in {logNow - 1, logNow}
    <3>1. PICK c \in Clients, n \in Names, a \in Actions, at \in {logNow - 1, logNow} :
            log' = log \cup {[id |-> logId', at |-> at, client |-> c, name |-> n, action |-> a]}
      BY <1>4 DEF Reading!Insert
    <3> DEFINE row == [id |-> logId', at |-> at, client |-> c, name |-> n, action |-> a]
    <3>2. log' = log \cup {row} /\ row.at = at
      BY <3>1
    <3> HIDE DEF row
    <3> QED BY <3>2
  <2>3. logNow - 1 \in Nat /\ logNow \in Nat
    BY <1>1 DEF ReadingInv
  <2> QED BY <2>1, <2>2, <2>3 DEF ReadingInv
<1>5. CASE Reading!Cleanup
  BY <1>5 DEF ReadingInv, Reading!Cleanup
<1>6. CASE Reading!Tick
  BY <1>1, <1>6 DEF ReadingInv, Reading!Tick
<1> QED BY <1>2, <1>3, <1>4, <1>5, <1>6 DEF Reading!Next

(* Each row is in the bucket of its time and in no other.                  *)
LEMMA BucketsGood == ASSUME Reading!AuditQueriesAssumption, ReadingInv PROVE Reading!BucketsPartition
<1> SUFFICES ASSUME NEW e \in log, NEW i \in 1..BucketCount
             PROVE  Reading!inBucket(e, i) <=>
                      Reading!BucketStart(i) <= e.at /\ e.at < Reading!BucketStart(i + 1)
  BY DEF Reading!BucketsPartition
<1> DEFINE b == Reading!BucketStart(i)
           c == Reading!BucketStart(i + 1)
<1>1. b \in Nat /\ b % Second = 0 /\ c \in Nat /\ c % Second = 0
  <2>1. i \in 1..(BucketCount + 1) /\ i + 1 \in 1..(BucketCount + 1)
    BY DEF Reading!AuditQueriesAssumption
  <2> QED BY <2>1, Boundaries DEF ReadingInv
<1>2. e.at \in Nat
  BY DEF ReadingInv
<1>3. Reading!inBucket(e, i) <=>
        /\ ~TextBefore(RFC3339Nano(e.at), bucketBoundaryLayout(b))
        /\ TextBefore(RFC3339Nano(e.at), bucketBoundaryLayout(c))
  BY SameTexts DEF Reading!inBucket
<1> HIDE DEF b, c
<1>4. Reading!inBucket(e, i) <=> ~(e.at < b) /\ e.at < c
  BY <1>1, <1>2, <1>3, BoundaryText
<1> QED BY <1>1, <1>2, <1>4 DEF b, c
(* What orders the texts of times: the second, the dot or the Z, and the   *)
(* two characters after a dot.                                             *)
Mark(t) == IF t % Second = 0 THEN Zed ELSE Dot
Tens(t) == IF t % Second = 0 THEN 0 ELSE Digit((t % Second) \div Base)
Ones(t) == IF t % Second = 0 THEN 0 ELSE IF t % Base = 0 THEN Zed ELSE Digit(t % Base)

Sooner(t, u) ==
    \/ SecondOf(t) < SecondOf(u)
    \/ /\ SecondOf(t) = SecondOf(u)
       /\ \/ Mark(t) < Mark(u)
          \/ /\ Mark(t) = Mark(u)
             /\ \/ Tens(t) < Tens(u)
                \/ Tens(t) = Tens(u) /\ Ones(t) < Ones(u)

(* The digits of a time.                                                   *)
LEMMA Digits ==
    ASSUME NEW t \in Nat
    PROVE  LET tenths == (t % Second) \div Base
               rest == t % Base
           IN  /\ Base \in Nat /\ Base >= 2 /\ Second \in Nat \ {0} /\ Second = Base * Base
               /\ SecondOf(t) \in Nat /\ tenths \in Nat /\ rest \in Nat /\ tenths < Base /\ rest < Base
               /\ t = Second * SecondOf(t) + (Base * tenths + rest)
               /\ (t % Second = 0 <=> tenths = 0 /\ rest = 0)
<1> DEFINE b == Base
           d == Second
           s == SecondOf(t)
           tenths == (t % Second) \div Base
           rest == t % Base
           r == t % d
<1>1. b \in Nat \ {0} /\ b >= 2 /\ d \in Nat \ {0} /\ d = b * b
  BY AuditTimeAssumption DEF Second
<1>2. s \in Nat /\ r \in Nat /\ r < d /\ t = d * s + r
  BY <1>1, Divided DEF SecondOf
<1> HIDE DEF s
<1>3. tenths \in Nat /\ r % b \in Nat /\ r % b < b /\ r = b * tenths + (r % b)
  <2> HIDE DEF r
  <2>1. /\ r \div b \in Nat /\ r % b \in Nat /\ r % b < b /\ r = b * (r \div b) + (r % b)
    BY <1>1, <1>2, Divided
  <2> QED BY <2>1 DEF r
<1>4. rest \in Nat /\ rest < b /\ t = b * (t \div b) + rest /\ t \div b \in Nat
  BY <1>1, Divided
<1> HIDE DEF tenths, r, rest
<1>5. tenths < b
  <2> SUFFICES ASSUME tenths >= b PROVE FALSE
    BY <1>1, <1>3
  <2>1. PICK x \in Nat : tenths = b + x
    <3>1. tenths - b \in Nat /\ tenths = b + (tenths - b)
      BY <1>1, <1>3
    <3> QED BY <3>1
  <2>2. b * tenths = b * b + b * x /\ b * x \in Nat /\ b * b \in Nat
    BY <1>1, <2>1
  <2> QED BY <1>1, <1>2, <1>3, <2>2
<1>6. rest = r % b
  <2> DEFINE q == t \div b
             p == r % b
             m == b * s + tenths
  <2>1. m \in Nat /\ q \in Nat /\ p \in Nat /\ p < b
    BY <1>1, <1>2, <1>3, <1>4
  <2>2. t = b * m + p
    <3>1. d * s = b * (b * s)
      BY <1>1, <1>2
    <3>2. b * m = b * (b * s) + b * tenths
      BY <1>1, <1>2, <1>3
    <3>3. b * (b * s) \in Nat /\ b * tenths \in Nat
      BY <1>1, <1>2, <1>3
    <3> QED BY <1>2, <1>3, <2>1, <3>1, <3>2, <3>3
  <2>3. t = b * q + rest
    BY <1>4
  <2> HIDE DEF q, p, m, b
  <2>4. \A x, y \in Nat, v, w \in Nat : v < b /\ w < b /\ b * x + v = b * y + w => v = w
    <3> SUFFICES ASSUME NEW x \in Nat, NEW y \in Nat, NEW v \in Nat, NEW w \in Nat,
                        v < b, w < b, b * x + v = b * y + w, x < y
                 PROVE  FALSE
      <4>1. ASSUME NEW x \in Nat, NEW y \in Nat, NEW v \in Nat, NEW w \in Nat,
                   v < b, w < b, b * x + v = b * y + w
            PROVE  v = w
        <5>1. x < y \/ y < x \/ x = y
          OBVIOUS
        <5>2. ~(x < y)
          BY <4>1
        <5>3. ~(y < x)
          BY <4>1
        <5>4. CASE x = y
          <6>1. b * x \in Nat
            BY <1>1
          <6> QED BY <4>1, <5>4, <6>1
        <5> QED BY <5>1, <5>2, <5>3, <5>4
      <4> QED BY <4>1
    <3>1. PICK z \in Nat : y = x + 1 + z
      <4>1. y - x - 1 \in Nat /\ y = x + 1 + (y - x - 1)
        OBVIOUS
      <4> QED BY <4>1
    <3>2. b * y = b * x + b + b * z /\ b * z \in Nat /\ b * x \in Nat
      BY <1>1, <3>1
    <3> QED BY <1>1, <3>2
  <2> QED BY <1>4, <2>1, <2>2, <2>3, <2>4 DEF p
<1>7. t = d * s + (b * tenths + rest)
  BY <1>2, <1>3, <1>6
<1>8. r = 0 <=> tenths = 0 /\ rest = 0
  <2>1. b * tenths \in Nat /\ (tenths = 0 => b * tenths = 0)
    BY <1>1, <1>3
  <2>2. tenths # 0 => b * tenths # 0
    BY <1>1, <1>3
  <2> QED BY <1>3, <1>4, <1>6, <2>1, <2>2
<1> QED BY <1>1, <1>2, <1>3, <1>4, <1>5, <1>7, <1>8 DEF s, tenths, r, rest

(* The text of a time by what orders it; texts that go on after the second *)
(* character are told apart by the next two.                               *)
LEMMA TextMarks ==
    ASSUME NEW t \in Nat
    PROVE  LET at == RFC3339Nano(t)
           IN  /\ at \in Seq(Int) /\ Len(at) \in {2, 4, 5} /\ at[1] = SecondOf(t) /\ at[2] = Mark(t)
               /\ SecondOf(t) \in Int /\ Mark(t) \in Int /\ Tens(t) \in Int /\ Ones(t) \in Int
               /\ Len(at) = 2 => Mark(t) = Zed /\ Tens(t) = 0 /\ Ones(t) = 0
               /\ Len(at) # 2 => Mark(t) = Dot /\ at[3] = Tens(t) /\ at[4] = Ones(t)
               /\ Len(at) = 4 => Ones(t) = Zed
               /\ Len(at) = 5 => Ones(t) < Zed /\ at[5] = Zed
<1> DEFINE tenths == (t % Second) \div Base
           rest == t % Base
           s == SecondOf(t)
           fraction == CASE rest # 0 -> <<Dot, Digit(tenths), Digit(rest), Zed>>
                         [] rest = 0 /\ tenths # 0 -> <<Dot, Digit(tenths), Zed>>
                         [] OTHER -> <<Zed>>
           at == <<s>> \o fraction
<1>1. /\ Base \in Nat /\ s \in Nat /\ tenths \in Nat /\ rest \in Nat /\ rest < Base
      /\ (t % Second = 0 <=> tenths = 0 /\ rest = 0)
  BY Digits
<1>2. RFC3339Nano(t) = at
  BY DEF RFC3339Nano
<1>3. Dot \in Int /\ Zed \in Int /\ Digit(tenths) \in Int /\ Digit(rest) \in Int /\ Digit(rest) < Zed
  BY <1>1 DEF Dot, Zed, Digit
<1>4. /\ Mark(t) = IF tenths = 0 /\ rest = 0 THEN Zed ELSE Dot
      /\ Tens(t) = IF tenths = 0 /\ rest = 0 THEN 0 ELSE Digit(tenths)
      /\ Ones(t) = IF tenths = 0 /\ rest = 0 THEN 0 ELSE IF rest = 0 THEN Zed ELSE Digit(rest)
  BY <1>1 DEF Mark, Tens, Ones
<1> HIDE DEF tenths, rest, s
<1>5. Mark(t) \in Int /\ Tens(t) \in Int /\ Ones(t) \in Int
  BY <1>3, <1>4
<1>6. /\ fraction \in Seq(Int)
      /\ \/ Len(fraction) = 1 /\ fraction[1] = Zed /\ tenths = 0 /\ rest = 0
         \/ /\ Len(fraction) = 3 /\ fraction[1] = Dot /\ fraction[2] = Digit(tenths) /\ fraction[3] = Zed
            /\ tenths # 0 /\ rest = 0
         \/ /\ Len(fraction) = 4 /\ fraction[1] = Dot /\ fraction[2] = Digit(tenths)
            /\ fraction[3] = Digit(rest) /\ fraction[4] = Zed /\ rest # 0
  <2>1. CASE rest # 0
    BY <1>3, <2>1
  <2>2. CASE rest = 0 /\ tenths # 0
    BY <1>3, <2>2
  <2>3. CASE rest = 0 /\ ~(tenths # 0)
    BY <1>3, <2>3
  <2> QED BY <2>1, <2>2, <2>3
<1> HIDE DEF fraction
<1>7. /\ at \in Seq(Int) /\ Len(at) = 1 + Len(fraction) /\ at[1] = s
      /\ \A k \in 1..Len(fraction) : at[k + 1] = fraction[k]
  <2>1. s \in Int
    BY <1>1
  <2> QED BY <1>6, <2>1, Prefixed
<1> HIDE DEF at
<1>8. CASE Len(fraction) = 1 /\ fraction[1] = Zed /\ tenths = 0 /\ rest = 0
  <2>1. Len(at) = 2 /\ at[1 + 1] = Zed
    BY <1>7, <1>8
  <2> QED BY <1>1, <1>2, <1>4, <1>5, <1>7, <1>8, <2>1 DEF s
<1>9. CASE /\ Len(fraction) = 3 /\ fraction[1] = Dot /\ fraction[2] = Digit(tenths) /\ fraction[3] = Zed
           /\ tenths # 0 /\ rest = 0
  <2>1. Len(at) = 4 /\ at[1 + 1] = Dot /\ at[2 + 1] = Digit(tenths) /\ at[3 + 1] = Zed
    BY <1>7, <1>9
  <2> QED BY <1>1, <1>2, <1>4, <1>5, <1>7, <1>9, <2>1 DEF s
<1>10. CASE /\ Len(fraction) = 4 /\ fraction[1] = Dot /\ fraction[2] = Digit(tenths)
            /\ fraction[3] = Digit(rest) /\ fraction[4] = Zed /\ rest # 0
  <2>1. Len(at) = 5 /\ at[1 + 1] = Dot /\ at[2 + 1] = Digit(tenths) /\ at[3 + 1] = Digit(rest) /\ at[4 + 1] = Zed
    BY <1>7, <1>10
  <2> QED BY <1>1, <1>2, <1>3, <1>4, <1>5, <1>7, <1>10, <2>1 DEF s
<1> QED BY <1>6, <1>8, <1>9, <1>10

(* The order of the texts of two times.                                    *)
LEMMA BeforeIsSooner ==
    ASSUME NEW t \in Nat, NEW u \in Nat
    PROVE  Before(t, u) <=> Sooner(t, u)
<1> DEFINE a == RFC3339Nano(t)
           b == RFC3339Nano(u)
<1>1. /\ a \in Seq(Int) /\ Len(a) \in {2, 4, 5} /\ a[1] = SecondOf(t) /\ a[2] = Mark(t)
      /\ SecondOf(t) \in Int /\ Mark(t) \in Int /\ Tens(t) \in Int /\ Ones(t) \in Int
      /\ Len(a) = 2 => Mark(t) = Zed /\ Tens(t) = 0 /\ Ones(t) = 0
      /\ Len(a) # 2 => Mark(t) = Dot /\ a[3] = Tens(t) /\ a[4] = Ones(t)
      /\ Len(a) = 4 => Ones(t) = Zed
      /\ Len(a) = 5 => Ones(t) < Zed /\ a[5] = Zed
  BY TextMarks
<1>2. /\ b \in Seq(Int) /\ Len(b) \in {2, 4, 5} /\ b[1] = SecondOf(u) /\ b[2] = Mark(u)
      /\ SecondOf(u) \in Int /\ Mark(u) \in Int /\ Tens(u) \in Int /\ Ones(u) \in Int
      /\ Len(b) = 2 => Mark(u) = Zed /\ Tens(u) = 0 /\ Ones(u) = 0
      /\ Len(b) # 2 => Mark(u) = Dot /\ b[3] = Tens(u) /\ b[4] = Ones(u)
      /\ Len(b) = 4 => Ones(u) = Zed
      /\ Len(b) = 5 => Ones(u) < Zed /\ b[5] = Zed
  BY TextMarks
<1>3. Dot < Zed /\ Dot \in Int /\ Zed \in Int
  BY AuditTimeAssumption DEF Dot, Zed
<1>4. Before(t, u) <=> TextBefore(a, b)
  BY DEF Before
<1> HIDE DEF a, b
<1>5. /\ 1 \in DOMAIN a /\ 2 \in DOMAIN a /\ (Len(a) # 2 => 3 \in DOMAIN a /\ 4 \in DOMAIN a)
      /\ 1 \in DOMAIN b /\ 2 \in DOMAIN b /\ (Len(b) # 2 => 3 \in DOMAIN b /\ 4 \in DOMAIN b)
      /\ \A k \in DOMAIN a \cap DOMAIN b : k \in 1..5 /\ k <= Len(a) /\ k <= Len(b)
  <2>1. DOMAIN a = 1..Len(a) /\ DOMAIN b = 1..Len(b)
    BY <1>1, <1>2
  <2>2. Len(a) = 2 \/ Len(a) = 4 \/ Len(a) = 5
    BY <1>1
  <2>3. Len(b) = 2 \/ Len(b) = 4 \/ Len(b) = 5
    BY <1>2
  <2> QED BY <2>1, <2>2, <2>3
<1>5a. (Len(a) = 2 <=> Mark(t) = Zed) /\ (Len(b) = 2 <=> Mark(u) = Zed)
  <2>1. Len(a) = 2 <=> Mark(t) = Zed
    BY <1>1, <1>3
  <2>2. Len(b) = 2 <=> Mark(u) = Zed
    BY <1>2, <1>3
  <2> QED BY <2>1, <2>2
<1>6. ASSUME Sooner(t, u) PROVE TextBefore(a, b)
  <2>1. CASE SecondOf(t) < SecondOf(u)
    <3>1. a[1] < b[1] /\ \A j \in 1..(1 - 1) : a[j] = b[j]
      BY <1>1, <1>2, <2>1
    <3> QED BY <1>5, <3>1 DEF TextBefore
  <2>2. CASE SecondOf(t) = SecondOf(u) /\ Mark(t) < Mark(u)
    <3>1. a[2] < b[2] /\ a[1] = b[1]
      BY <1>1, <1>2, <2>2
    <3>2. \A j \in 1..(2 - 1) : j = 1
      OBVIOUS
    <3> QED BY <1>5, <3>1, <3>2 DEF TextBefore
  <2>3. CASE SecondOf(t) = SecondOf(u) /\ Mark(t) = Mark(u) /\ Tens(t) < Tens(u)
    <3>1. Len(a) # 2 /\ Len(b) # 2
      <4>1. Len(a) = 2 <=> Len(b) = 2
        BY <1>5a, <2>3
      <4> QED BY <1>1, <1>2, <2>3, <4>1
    <3>2. a[3] < b[3] /\ a[1] = b[1] /\ a[2] = b[2]
      BY <1>1, <1>2, <2>3, <3>1
    <3>3. \A j \in 1..(3 - 1) : j = 1 \/ j = 2
      OBVIOUS
    <3> QED BY <1>5, <3>1, <3>2, <3>3 DEF TextBefore
  <2>4. CASE SecondOf(t) = SecondOf(u) /\ Mark(t) = Mark(u) /\ Tens(t) = Tens(u) /\ Ones(t) < Ones(u)
    <3>1. Len(a) # 2 /\ Len(b) # 2
      <4>1. Len(a) = 2 <=> Len(b) = 2
        BY <1>5a, <2>4
      <4> QED BY <1>1, <1>2, <2>4, <4>1
    <3>2. a[4] < b[4] /\ a[1] = b[1] /\ a[2] = b[2] /\ a[3] = b[3]
      BY <1>1, <1>2, <2>4, <3>1
    <3>3. \A j \in 1..(4 - 1) : j = 1 \/ j = 2 \/ j = 3
      OBVIOUS
    <3> QED BY <1>5, <3>1, <3>2, <3>3 DEF TextBefore
  <2> QED BY <1>6, <2>1, <2>2, <2>3, <2>4 DEF Sooner
<1>7. ASSUME TextBefore(a, b) PROVE Sooner(t, u)
  <2>1. PICK k \in DOMAIN a \cap DOMAIN b : a[k] < b[k] /\ \A j \in 1..(k - 1) : a[j] = b[j]
    BY <1>7 DEF TextBefore
  <2>2. k \in 1..5 /\ k <= Len(a) /\ k <= Len(b)
    BY <1>5
  <2>3. CASE k = 1
    BY <1>1, <1>2, <2>1, <2>3 DEF Sooner
  <2>4. CASE k = 2
    <3>1. a[1] = b[1]
      BY <2>1, <2>4
    <3> QED BY <1>1, <1>2, <2>1, <2>4, <3>1 DEF Sooner
  <2>5. CASE k = 3
    <3>1. a[1] = b[1] /\ a[2] = b[2]
      BY <2>1, <2>5
    <3>2. Len(a) # 2 /\ Len(b) # 2
      BY <2>2, <2>5
    <3> QED BY <1>1, <1>2, <2>1, <2>5, <3>1, <3>2 DEF Sooner
  <2>6. CASE k = 4
    <3>1. a[1] = b[1] /\ a[2] = b[2] /\ a[3] = b[3]
      BY <2>1, <2>6
    <3>2. Len(a) # 2 /\ Len(b) # 2
      BY <2>2, <2>6
    <3> QED BY <1>1, <1>2, <2>1, <2>6, <3>1, <3>2 DEF Sooner
  <2>7. CASE k = 5
    <3>1. Len(a) = 5 /\ Len(b) = 5
      <4>1. Len(a) = 2 \/ Len(a) = 4 \/ Len(a) = 5
        BY <1>1
      <4>2. Len(b) = 2 \/ Len(b) = 4 \/ Len(b) = 5
        BY <1>2
      <4> QED BY <2>2, <2>7, <4>1, <4>2
    <3> QED BY <1>1, <1>2, <1>3, <2>1, <2>7, <3>1
  <2> QED BY <2>2, <2>3, <2>4, <2>5, <2>6, <2>7
<1> QED BY <1>4, <1>6, <1>7

(* Texts of times are in a strict total order.                             *)
LEMMA BeforeOrders ==
    ASSUME NEW t \in Nat, NEW u \in Nat
    PROVE  /\ ~Before(t, t)
           /\ Before(t, u) => ~Before(u, t)
           /\ t # u => Before(t, u) \/ Before(u, t)
           /\ \A v \in Nat : Before(t, u) /\ Before(u, v) => Before(t, v)
<1>1. \A x \in Nat : SecondOf(x) \in Int /\ Mark(x) \in Int /\ Tens(x) \in Int /\ Ones(x) \in Int
  BY TextMarks
<1>2. \A x, y \in Nat : Before(x, y) <=> Sooner(x, y)
  BY BeforeIsSooner
<1>3. ~Before(t, t) /\ (Before(t, u) => ~Before(u, t))
  BY <1>1, <1>2 DEF Sooner
<1>4. ASSUME NEW v \in Nat, Before(t, u), Before(u, v) PROVE Before(t, v)
  BY <1>1, <1>2, <1>4 DEF Sooner
<1>5. ASSUME t # u PROVE Before(t, u) \/ Before(u, t)
  <2> SUFFICES ASSUME ~Before(t, u), ~Before(u, t) PROVE t = u
    BY <1>5
  <2>1. SecondOf(t) = SecondOf(u) /\ Mark(t) = Mark(u) /\ Tens(t) = Tens(u) /\ Ones(t) = Ones(u)
    BY <1>1, <1>2 DEF Sooner
  <2> DEFINE tt == (t % Second) \div Base
             rt == t % Base
             tu == (u % Second) \div Base
             ru == u % Base
  <2>2. /\ Base \in Nat /\ Base >= 2 /\ Second \in Nat
        /\ SecondOf(t) \in Nat /\ tt \in Nat /\ rt \in Nat /\ tt < Base /\ rt < Base
        /\ t = Second * SecondOf(t) + (Base * tt + rt) /\ (t % Second = 0 <=> tt = 0 /\ rt = 0)
        /\ SecondOf(u) \in Nat /\ tu \in Nat /\ ru \in Nat /\ tu < Base /\ ru < Base
        /\ u = Second * SecondOf(u) + (Base * tu + ru) /\ (u % Second = 0 <=> tu = 0 /\ ru = 0)
    BY Digits
  <2>3. /\ Mark(t) = IF tt = 0 /\ rt = 0 THEN Zed ELSE Dot
        /\ Tens(t) = IF tt = 0 /\ rt = 0 THEN 0 ELSE Digit(tt)
        /\ Ones(t) = IF tt = 0 /\ rt = 0 THEN 0 ELSE IF rt = 0 THEN Zed ELSE Digit(rt)
        /\ Mark(u) = IF tu = 0 /\ ru = 0 THEN Zed ELSE Dot
        /\ Tens(u) = IF tu = 0 /\ ru = 0 THEN 0 ELSE Digit(tu)
        /\ Ones(u) = IF tu = 0 /\ ru = 0 THEN 0 ELSE IF ru = 0 THEN Zed ELSE Digit(ru)
    BY <2>2 DEF Mark, Tens, Ones
  <2> HIDE DEF tt, rt, tu, ru
  <2>4. tt = tu /\ rt = ru
    <3>1. Digit(tt) = 1 + tt /\ Digit(rt) = 1 + rt /\ Digit(tu) = 1 + tu /\ Digit(ru) = 1 + ru
      BY DEF Digit
    <3>2. Zed = 1 + Base /\ Dot = 0
      BY DEF Zed, Dot
    <3>3. tt = 0 /\ rt = 0 <=> tu = 0 /\ ru = 0
      <4>1. Zed # Dot
        BY <2>2, <3>2
      <4>2. Mark(t) = Mark(u) /\ Mark(t) = (IF tt = 0 /\ rt = 0 THEN Zed ELSE Dot)
        BY <2>1, <2>3
      <4>3. Mark(u) = (IF tu = 0 /\ ru = 0 THEN Zed ELSE Dot)
        BY <2>3
      <4>4. ASSUME tt = 0 /\ rt = 0, ~(tu = 0 /\ ru = 0) PROVE FALSE
        BY <4>1, <4>2, <4>3, <4>4
      <4>5. ASSUME tu = 0 /\ ru = 0, ~(tt = 0 /\ rt = 0) PROVE FALSE
        BY <4>1, <4>2, <4>3, <4>5
      <4> QED BY <4>4, <4>5, Zenon
    <3>4. CASE tt = 0 /\ rt = 0
      BY <3>3, <3>4
    <3>5. CASE ~(tt = 0 /\ rt = 0)
      <4>1. Digit(tt) = Digit(tu)
        BY <2>1, <2>3, <3>3, <3>5
      <4>2. (IF rt = 0 THEN Zed ELSE Digit(rt)) = (IF ru = 0 THEN Zed ELSE Digit(ru))
        BY <2>1, <2>3, <3>3, <3>5
      <4>3. tt = tu
        BY <2>2, <3>1, <4>1
      <4>4. rt = ru
        BY <2>2, <3>1, <3>2, <4>2
      <4> QED BY <4>3, <4>4
    <3> QED BY <3>4, <3>5
  <2> QED BY <2>1, <2>2, <2>4
<1> QED BY <1>3, <1>4, <1>5

-----------------------------------------------------------------------------
(* The log in its order.                                                   *)

(* Rows of a log: finitely many, each with an id of its own.               *)
Rows(events) ==
    /\ IsFiniteSet(events)
    /\ \A e \in events : e.at \in Nat /\ e.id \in Nat
    /\ \A e, f \in events : e.id = f.id => e = f

LEMMA SameCountRead == ASSUME NEW S PROVE Reading!Cardinality(S) = Cardinality(S)
BY DEF Reading!Cardinality, Cardinality, Reading!IsFiniteSet, IsFiniteSet

LEMMA SameBefore == ASSUME NEW t, NEW u PROVE Reading!Before(t, u) <=> Before(t, u)
BY SameTexts DEF Reading!Before, Before

(* Any two rows are in the order of the log, one way.                      *)
LEMMA LaterOrders ==
    ASSUME NEW S, Rows(S), NEW e \in S, NEW f \in S
    PROVE  /\ ~Reading!Later(e, e)
           /\ Reading!Later(e, f) => ~Reading!Later(f, e)
           /\ e # f => Reading!Later(e, f) \/ Reading!Later(f, e)
           /\ \A g \in S : Reading!Later(e, f) /\ Reading!Later(f, g) => Reading!Later(e, g)
<1>1. \A x, y \in S : Reading!Later(x, y) <=> Before(y.at, x.at) \/ (x.at = y.at /\ x.id > y.id)
  BY SameBefore DEF Reading!Later
<1>2. \A x \in S : x.at \in Nat /\ x.id \in Nat
  BY DEF Rows
<1>3. \A t, u \in Nat : /\ ~Before(t, t)
                        /\ Before(t, u) => ~Before(u, t)
                        /\ t # u => Before(t, u) \/ Before(u, t)
  BY BeforeOrders
<1>4. \A t, u, v \in Nat : Before(t, u) /\ Before(u, v) => Before(t, v)
  BY BeforeOrders
<1>5. ~Reading!Later(e, e)
  BY <1>1, <1>2, <1>3
<1>6. Reading!Later(e, f) => ~Reading!Later(f, e)
  BY <1>1, <1>2, <1>3
<1>7. ASSUME e # f PROVE Reading!Later(e, f) \/ Reading!Later(f, e)
  <2>1. e.id # f.id
    BY <1>7 DEF Rows
  <2> QED BY <1>1, <1>2, <1>3, <2>1
<1>8. ASSUME NEW g \in S, Reading!Later(e, f), Reading!Later(f, g) PROVE Reading!Later(e, g)
  <2>1. CASE e.at = f.at /\ f.at = g.at
    BY <1>1, <1>2, <1>3, <1>8, <2>1
  <2>2. CASE e.at = f.at /\ f.at # g.at
    BY <1>1, <1>2, <1>3, <1>8, <2>2
  <2>3. CASE e.at # f.at /\ f.at = g.at
    BY <1>1, <1>2, <1>3, <1>8, <2>3
  <2>4. CASE e.at # f.at /\ f.at # g.at
    <3>1. Before(f.at, e.at) /\ Before(g.at, f.at)
      BY <1>1, <1>8, <2>4
    <3>2. Before(g.at, e.at)
      BY <1>2, <1>4, <3>1
    <3> QED BY <1>1, <3>2
  <2> QED BY <2>1, <2>2, <2>3, <2>4
<1> QED BY <1>5, <1>6, <1>7, <1>8

(* The place of a row among others.                                        *)
LEMMA PlaceFacts ==
    ASSUME NEW S, Rows(S), NEW e \in S
    PROVE  /\ Reading!Place(e, S) \in 1..Cardinality(S)
           /\ \A f \in S : /\ Reading!Later(e, f) <=> Reading!Place(e, S) < Reading!Place(f, S)
                           /\ Reading!Place(e, S) = Reading!Place(f, S) => e = f
<1> DEFINE Ahead(x) == {g \in S : Reading!Later(g, x)}
<1>1. \A x : Reading!Place(x, S) = 1 + Cardinality(Ahead(x))
  BY SameCountRead DEF Reading!Place
<1>2. \A x \in S : /\ IsFiniteSet(Ahead(x)) /\ Cardinality(Ahead(x)) \in Nat
                   /\ Cardinality(Ahead(x)) < Cardinality(S) /\ Cardinality(S) \in Nat
  <2> SUFFICES ASSUME NEW x \in S
               PROVE  /\ IsFiniteSet(Ahead(x)) /\ Cardinality(Ahead(x)) \in Nat
                      /\ Cardinality(Ahead(x)) < Cardinality(S) /\ Cardinality(S) \in Nat
    OBVIOUS
  <2>1. IsFiniteSet(S) /\ Ahead(x) \in SUBSET S /\ x \notin Ahead(x)
    BY LaterOrders DEF Rows
  <2> HIDE DEF Ahead
  <2>2. /\ IsFiniteSet(Ahead(x)) /\ Cardinality(Ahead(x)) <= Cardinality(S)
        /\ Cardinality(S) = Cardinality(Ahead(x)) => S = Ahead(x)
    BY <2>1, FS_Subset
  <2>3. Cardinality(Ahead(x)) \in Nat /\ Cardinality(S) \in Nat
    BY <2>1, <2>2, FS_CardinalityType
  <2> QED BY <2>1, <2>2, <2>3
<1>3. ASSUME NEW x \in S, NEW y \in S, Reading!Later(x, y)
      PROVE  Reading!Place(x, S) < Reading!Place(y, S)
  <2>1. Ahead(x) \in SUBSET Ahead(y) /\ x \in Ahead(y) /\ x \notin Ahead(x)
    BY <1>3, LaterOrders
  <2> HIDE DEF Ahead
  <2>2. /\ Cardinality(Ahead(x)) <= Cardinality(Ahead(y))
        /\ Cardinality(Ahead(y)) = Cardinality(Ahead(x)) => Ahead(y) = Ahead(x)
    BY <1>2, <2>1, FS_Subset
  <2>3. Cardinality(Ahead(x)) < Cardinality(Ahead(y))
    BY <1>2, <2>1, <2>2
  <2> QED BY <1>1, <1>2, <2>3
<1> HIDE DEF Ahead
<1>4. \A x \in S : Reading!Place(x, S) \in 1..Cardinality(S)
  BY <1>1, <1>2
<1>5. ASSUME NEW f \in S
      PROVE  /\ Reading!Later(e, f) <=> Reading!Place(e, S) < Reading!Place(f, S)
             /\ Reading!Place(e, S) = Reading!Place(f, S) => e = f
  <2>1. Reading!Place(e, S) \in Int /\ Reading!Place(f, S) \in Int
    BY <1>4
  <2>2. e # f => Reading!Later(e, f) \/ Reading!Later(f, e)
    BY LaterOrders
  <2>3. ~Reading!Later(e, e)
    BY LaterOrders
  <2>4. Reading!Later(e, f) => Reading!Place(e, S) < Reading!Place(f, S)
    BY <1>3
  <2>5. Reading!Later(f, e) => Reading!Place(f, S) < Reading!Place(e, S)
    BY <1>3
  <2> QED BY <2>1, <2>2, <2>3, <2>4, <2>5
<1> QED BY <1>4, <1>5

(* Every place is taken: as many rows as places, none in the same.         *)
LEMMA PlacesTaken ==
    ASSUME NEW S, Rows(S), NEW k \in 1..Cardinality(S)
    PROVE  \E e \in S : Reading!Place(e, S) = k
<1> DEFINE n == Cardinality(S)
           T == 1..n
           f == [e \in S |-> Reading!Place(e, S)]
<1>1. IsFiniteSet(S) /\ n \in Nat
  BY FS_CardinalityType DEF Rows
<1>2. IsFiniteSet(T) /\ Cardinality(T) = n
  <2> HIDE DEF n
  <2>1. 1 \in Int /\ n \in Int
    BY <1>1
  <2>2. IsFiniteSet(1..n) /\ Cardinality(1..n) = IF 1 > n THEN 0 ELSE n - 1 + 1
    BY <2>1, FS_Interval, Zenon
  <2> QED BY <1>1, <2>2
<1>3. f \in [S -> T]
  BY PlaceFacts
<1>4. \A x, y \in S : f[x] = f[y] => x = y
  BY PlaceFacts
<1> HIDE DEF f, n
<1>5. f \in Injection(S, T)
  BY <1>3, <1>4 DEF Injection, IsInjective
<1>6. f \in Surjection(S, T)
  <2> HIDE DEF T
  <2> QED BY <1>1, <1>2, <1>5, FS_Injection DEF n
<1>7. \E x \in S : f[x] = k
  BY <1>6 DEF Surjection, n
<1> QED BY <1>7 DEF f

(* The log in its order: each row once, at its place.                      *)
LEMMA SortedFacts ==
    ASSUME NEW S, Rows(S)
    PROVE  /\ Cardinality(S) \in Nat
           /\ Reading!Sorted(S) \in Seq(S) /\ Len(Reading!Sorted(S)) = Cardinality(S)
           /\ \A k \in 1..Cardinality(S) : Reading!Sorted(S)[k] \in S
                                           /\ Reading!Place(Reading!Sorted(S)[k], S) = k
           /\ \A e \in S : Reading!Sorted(S)[Reading!Place(e, S)] = e
<1> DEFINE n == Cardinality(S)
           s == Reading!Sorted(S)
<1>1. n \in Nat
  BY FS_CardinalityType DEF Rows
<1>2. s = [k \in 1..n |-> CHOOSE e \in S : Reading!Place(e, S) = k]
  BY SameCountRead DEF Reading!Sorted
<1>3. \A k \in 1..n : s[k] \in S /\ Reading!Place(s[k], S) = k
  <2> SUFFICES ASSUME NEW k \in 1..n PROVE s[k] \in S /\ Reading!Place(s[k], S) = k
    OBVIOUS
  <2>1. \E e \in S : Reading!Place(e, S) = k
    BY PlacesTaken
  <2> QED BY <1>2, <2>1
<1> HIDE DEF s, n
<1>4. s \in [1..n -> S]
  BY <1>2, <1>3
<1>5. s \in Seq(S) /\ Len(s) = n
  BY <1>1, <1>4
<1>6. ASSUME NEW e \in S PROVE s[Reading!Place(e, S)] = e
  <2>1. Reading!Place(e, S) \in 1..n
    BY PlaceFacts DEF n
  <2>2. s[Reading!Place(e, S)] \in S
        /\ Reading!Place(s[Reading!Place(e, S)], S) = Reading!Place(e, S)
    BY <1>3, <2>1
  <2> QED BY <2>2, PlaceFacts
<1> QED BY <1>1, <1>3, <1>5, <1>6 DEF s, n

-----------------------------------------------------------------------------
(* The pages of the log.                                                   *)

LogRows == [id : Nat, at : Nat, client : Clients, name : Names, action : Actions]

(* The rows a filter lets through.                                         *)
Matching(filter) == {e \in log : Reading!Matches(e, filter)}

Shown(e) == \E k \in DOMAIN seen : seen[k] = e

(* Rows are numbered as they come.                                         *)
LogInv ==
    /\ ReadingInv
    /\ Rows(log) /\ log \subseteq LogRows
    /\ logId \in Nat /\ \A e \in log : e.id <= logId

WalkTyped ==
    /\ walk.pc \in {"none", "walking", "done"}
    /\ walk.pc # "none" => /\ walk = [pc |-> walk.pc, offset |-> walk.offset, limit |-> walk.limit,
                                     filter |-> walk.filter]
                           /\ walk.offset \in Nat /\ walk.limit \in Nat \ {0}
    /\ seen \in Seq(LogRows)
    /\ there \subseteq log
    /\ still \in BOOLEAN

(* Whatever row was there from the first page on has been shown, or is not *)
(* among those that the pages so far have passed over.                     *)
MissInv ==
    \A e \in there :
        /\ walk.pc = "walking" /\ Reading!Matches(e, walk.filter)
              => Shown(e) \/ Reading!Place(e, Matching(walk.filter)) > walk.offset
        /\ walk.pc = "done" /\ Reading!Matches(e, walk.filter) => Shown(e)

(* Undisturbed, the pages so far are the beginning of the log.             *)
StillInv ==
    walk.pc # "none" /\ still =>
        LET sorted == Reading!Sorted(Matching(walk.filter))
        IN  /\ Len(seen) <= Len(sorted)
            /\ \A k \in 1..Len(seen) : seen[k] = sorted[k]
            /\ walk.pc = "walking" => Len(seen) = walk.offset

WalkInv == LogInv /\ WalkTyped /\ MissInv /\ StillInv

LEMMA MatchingRows ==
    ASSUME NEW rws, Rows(rws), rws \subseteq LogRows, NEW filter
    PROVE  LET S == {e \in rws : Reading!Matches(e, filter)} IN Rows(S) /\ S \subseteq LogRows
<1> DEFINE S == {e \in rws : Reading!Matches(e, filter)}
<1>1. S \in SUBSET rws /\ IsFiniteSet(rws)
  BY DEF Rows
<1> HIDE DEF S
<1>2. IsFiniteSet(S)
  BY <1>1, FS_Subset
<1>3. Rows(S) /\ S \subseteq LogRows
  BY <1>1, <1>2 DEF Rows
<1> QED BY <1>3 DEF S

(* A page is the part of the log that the offset and the limit say.        *)
LEMMA PageFacts ==
    ASSUME LogInv, NEW filter, NEW offset \in Nat, NEW limit \in Nat \ {0}
    PROVE  LET s == Reading!Sorted(Matching(filter))
               page == Reading!queryAuditEventsPage(filter, offset, limit)
               n == Len(page.events)
           IN  /\ page.events \in Seq(LogRows) /\ Len(s) \in Nat
               /\ n \in Nat /\ n <= limit /\ (n > 0 => offset + n <= Len(s))
               /\ \A k \in 1..n : page.events[k] = s[offset + k]
               /\ page.hasNext <=> offset + limit < Len(s)
               /\ page.hasNext => n = limit
               /\ ~page.hasNext /\ offset <= Len(s) => offset + n = Len(s)
               /\ page.next = offset + limit
<1> DEFINE S == Matching(filter)
           s == Reading!Sorted(S)
           m == Len(s)
           p == IF offset + (limit + 1) < m THEN offset + (limit + 1) ELSE m
           events == SubSeq(s, offset + 1, p)
           q == IF Len(events) > limit THEN limit ELSE Len(events)
           shown == SubSeq(events, 1, q)
<1>1. s \in Seq(LogRows) /\ m \in Nat
  <2>1. Rows(S) /\ S \subseteq LogRows
    BY MatchingRows DEF LogInv, Matching
  <2> HIDE DEF S
  <2>2. s \in Seq(S)
    BY <2>1, SortedFacts
  <2> QED BY <2>1, <2>2, SeqMonotonic
<1>2. Reading!QueryEvents(filter, offset, limit + 1) = events
  BY DEF Reading!QueryEvents, Matching
<1>3. Reading!queryAuditEventsPage(filter, offset, limit) =
        [events |-> shown, hasNext |-> Len(events) > limit, next |-> offset + limit]
  BY <1>2 DEF Reading!queryAuditEventsPage
<1> HIDE DEF s, S
<1>4. /\ events \in Seq(LogRows)
      /\ Len(events) = (IF offset + 1 <= p THEN p - offset ELSE 0)
      /\ \A k \in 1..(p - offset) : events[k] = s[offset + k]
  <2>1. p \in Int /\ p <= m /\ offset + 1 \in Int
    BY <1>1
  <2> HIDE DEF p
  <2>2. \A i \in (offset + 1)..p : s[i] \in LogRows
    BY <1>1, <2>1
  <2>3. /\ events \in Seq(LogRows)
        /\ Len(events) = (IF offset + 1 <= p THEN p - (offset + 1) + 1 ELSE 0)
        /\ \A i \in 1..(p - (offset + 1) + 1) : events[i] = s[(offset + 1) + i - 1]
    BY <2>1, <2>2, SubSeqProperties
  <2> HIDE DEF events
  <2>4. p - (offset + 1) + 1 = p - offset
    BY <2>1
  <2>5. ASSUME NEW k \in 1..(p - offset) PROVE events[k] = s[offset + k]
    <3>1. (offset + 1) + k - 1 = offset + k
      OBVIOUS
    <3> QED BY <2>3, <2>4, <3>1
  <2> QED BY <2>3, <2>4, <2>5
<1> HIDE DEF events
<1>5. Len(events) \in Nat
  BY <1>4
<1>6. shown \in Seq(LogRows) /\ Len(shown) = q /\ \A k \in 1..q : shown[k] = events[k]
  <2>1. q \in Nat /\ q <= Len(events)
    BY <1>5
  <2> HIDE DEF q
  <2>2. \A i \in 1..q : events[i] \in LogRows
    BY <1>4, <1>5, <2>1
  <2>3. /\ shown \in Seq(LogRows)
        /\ Len(shown) = (IF 1 <= q THEN q - 1 + 1 ELSE 0)
        /\ \A i \in 1..(q - 1 + 1) : shown[i] = events[1 + i - 1]
    BY <2>1, <2>2, SubSeqProperties
  <2> HIDE DEF shown
  <2>4. q - 1 + 1 = q /\ \A i \in Int : 1 + i - 1 = i
    BY <2>1
  <2> QED BY <2>1, <2>3, <2>4
<1> HIDE DEF shown
<1>7. q \in Nat /\ q <= limit /\ (q > 0 => offset + q <= m)
  BY <1>1, <1>4, <1>5
<1>8. \A k \in 1..q : shown[k] = s[offset + k]
  <2>1. p \in Int /\ (q <= p - offset \/ q = 0)
    BY <1>1, <1>4, <1>5
  <2> HIDE DEF q, p
  <2>2. ASSUME NEW k \in 1..q PROVE shown[k] = s[offset + k]
    <3>1. k \in 1..(p - offset)
      BY <1>7, <2>1
    <3> QED BY <1>4, <1>6, <3>1
  <2> QED BY <2>2
<1>9. Len(events) > limit <=> offset + limit < m
  BY <1>1, <1>4
<1>10. /\ Len(events) > limit => q = limit
       /\ ~(Len(events) > limit) /\ offset <= m => offset + q = m
  BY <1>1, <1>4, <1>5
<1> DEFINE page == Reading!queryAuditEventsPage(filter, offset, limit)
<1>11. page.events = shown /\ page.hasNext = (Len(events) > limit) /\ page.next = offset + limit
  BY <1>3
<1> HIDE DEF page, q, m
<1> QED BY <1>1, <1>6, <1>7, <1>8, <1>9, <1>10, <1>11 DEF page, m, s, S

(* Rows that come do not bring others forward.                             *)
LEMMA PlaceGrows ==
    ASSUME NEW S, NEW T, Rows(S), Rows(T), S \subseteq T, NEW e \in S
    PROVE  Reading!Place(e, S) <= Reading!Place(e, T)
<1> DEFINE A == {f \in S : Reading!Later(f, e)}
           B == {f \in T : Reading!Later(f, e)}
<1>1. A \in SUBSET B /\ B \in SUBSET T /\ IsFiniteSet(T)
  BY DEF Rows
<1>2. Reading!Place(e, S) = 1 + Cardinality(A) /\ Reading!Place(e, T) = 1 + Cardinality(B)
  BY SameCountRead DEF Reading!Place
<1> HIDE DEF A, B
<1>3. IsFiniteSet(B) /\ IsFiniteSet(A)
  BY <1>1, FS_Subset
<1>4. Cardinality(A) <= Cardinality(B)
  BY <1>1, <1>3, FS_Subset
<1>5. Cardinality(A) \in Nat /\ Cardinality(B) \in Nat
  BY <1>3, FS_CardinalityType
<1> QED BY <1>2, <1>4, <1>5

LEMMA WalkInit == ASSUME Reading!AuditQueriesAssumption, Reading!Init PROVE WalkInv
<1>1. log = {} /\ logId = 0 /\ walk = [pc |-> "none"] /\ seen = <<>> /\ there = {} /\ still = TRUE
  BY DEF Reading!Init, Reading!NoWalk
<1>2. LogInv
  BY <1>1, ReadingInit, FS_EmptySet DEF LogInv, Rows
<1> QED BY <1>1, <1>2 DEF WalkInv, WalkTyped, MissInv, StillInv

LEMMA BeginKeeps == ASSUME Reading!AuditQueriesAssumption, WalkInv, Reading!Begin PROVE WalkInv'
<1>1. /\ UNCHANGED <<logNow, log, logId>> /\ seen' = <<>> /\ there' = log /\ still' = TRUE
  BY DEF Reading!Begin
<1>2. PICK c \in Clients, from \in {0, logNow - Reading!Second}, limit \in Limits :
        walk' = [pc |-> "walking", offset |-> 0, limit |-> Reading!parseQueriesLimit(limit),
                 filter |-> [client |-> c, from |-> from]]
  BY DEF Reading!Begin
<1>3. Reading!parseQueriesLimit(limit) \in Nat \ {0}
  BY DEF Reading!AuditQueriesAssumption, Reading!parseQueriesLimit
<1>4. LogInv'
  BY <1>1 DEF WalkInv, LogInv, ReadingInv, Rows
<1>5. WalkTyped'
  <2>1. walk'.pc = "walking" /\ walk'.offset = 0 /\ walk'.limit = Reading!parseQueriesLimit(limit)
    BY <1>2
  <2>2. walk' = [pc |-> walk'.pc, offset |-> walk'.offset, limit |-> walk'.limit, filter |-> walk'.filter]
    BY <1>2
  <2>3. seen' \in Seq(LogRows)'
    BY <1>1 DEF LogRows
  <2> QED BY <1>1, <1>3, <2>1, <2>2, <2>3 DEF WalkTyped
<1> DEFINE S == {e \in log' : Reading!Matches(e, walk'.filter)}
<1>6. Matching(walk.filter)' = S
  BY DEF Matching
<1>7. Rows(S)
  BY <1>4, MatchingRows DEF LogInv, LogRows
<1>8. /\ \A e \in S : Reading!Place(e, S) \in Nat /\ Reading!Place(e, S) > 0
      /\ Len(Reading!Sorted(S)) \in Nat
  <2> HIDE DEF S
  <2>1. Cardinality(S) \in Nat /\ Len(Reading!Sorted(S)) = Cardinality(S)
    BY <1>7, SortedFacts
  <2>2. \A e \in S : Reading!Place(e, S) \in 1..Cardinality(S)
    BY <1>7, PlaceFacts
  <2> QED BY <2>1, <2>2
<1>9. MissInv'
  <2> SUFFICES ASSUME NEW e \in log', Reading!Matches(e, walk'.filter)
               PROVE  Reading!Place(e, S) > walk'.offset
    BY <1>1, <1>2, <1>6 DEF MissInv
  <2>1. e \in S /\ walk'.offset = 0
    BY <1>2
  <2> QED BY <1>8, <2>1
<1>10. StillInv'
  <2> HIDE DEF S
  <2>1. Len(seen') = 0 /\ walk'.offset = 0
    BY <1>1, <1>2
  <2> QED BY <1>6, <1>8, <2>1 DEF StillInv
<1> QED BY <1>4, <1>5, <1>9, <1>10 DEF WalkInv

(* A page shows what it passes over.                                       *)
LEMMA PageKeeps == ASSUME WalkInv, Reading!Page PROVE WalkInv'
<1> DEFINE filter == walk.filter
           offset == walk.offset
           limit == walk.limit
           S == Matching(filter)
           s == Reading!Sorted(S)
           page == Reading!queryAuditEventsPage(filter, offset, limit)
           n == Len(page.events)
<1>1. /\ walk.pc = "walking"
      /\ UNCHANGED <<logNow, log, logId, there, still>>
      /\ seen' = seen \o page.events
      /\ walk' = IF page.hasNext THEN [walk EXCEPT !.offset = page.next] ELSE [walk EXCEPT !.pc = "done"]
  BY DEF Reading!Page
<1>2. /\ offset \in Nat /\ limit \in Nat \ {0} /\ seen \in Seq(LogRows) /\ there \subseteq log
      /\ walk = [pc |-> walk.pc, offset |-> offset, limit |-> limit, filter |-> filter]
  BY <1>1 DEF WalkInv, WalkTyped
<1> HIDE DEF page
<1>3. /\ page.events \in Seq(LogRows) /\ Len(s) \in Nat
      /\ n \in Nat /\ n <= limit /\ (n > 0 => offset + n <= Len(s))
      /\ \A k \in 1..n : page.events[k] = s[offset + k]
      /\ page.hasNext <=> offset + limit < Len(s)
      /\ page.hasNext => n = limit
      /\ ~page.hasNext /\ offset <= Len(s) => offset + n = Len(s)
      /\ page.next = offset + limit
  <2>1. LogInv /\ offset \in Nat /\ limit \in Nat \ {0}
    BY <1>2 DEF WalkInv
  <2> HIDE DEF offset, limit, filter
  <2> QED BY <2>1, PageFacts DEF page
<1>4. LogInv'
  BY <1>1 DEF WalkInv, LogInv, ReadingInv, Rows
<1>5. /\ seen' \in Seq(LogRows) /\ Len(seen') = Len(seen) + n /\ Len(seen) \in Nat
      /\ \A k \in 1..(Len(seen) + n) : seen'[k] = IF k <= Len(seen) THEN seen[k] ELSE page.events[k - Len(seen)]
  <2>1. Len(seen) \in Nat
    BY <1>2
  <2>2. /\ seen \o page.events \in Seq(LogRows) /\ Len(seen \o page.events) = Len(seen) + Len(page.events)
        /\ \A k \in 1..(Len(seen) + Len(page.events)) :
             (seen \o page.events)[k] = IF k <= Len(seen) THEN seen[k] ELSE page.events[k - Len(seen)]
    BY <1>2, <1>3, ConcatProperties
  <2> QED BY <1>1, <2>1, <2>2
<1>6. /\ walk'.pc = IF page.hasNext THEN "walking" ELSE "done"
      /\ walk'.offset = IF page.hasNext THEN offset + limit ELSE offset
      /\ walk'.limit = limit /\ walk'.filter = filter
      /\ walk' = [pc |-> walk'.pc, offset |-> walk'.offset, limit |-> walk'.limit, filter |-> walk'.filter]
  <2>1. CASE page.hasNext
    BY <1>1, <1>2, <1>3, <2>1
  <2>2. CASE ~page.hasNext
    BY <1>1, <1>2, <2>2
  <2> QED BY <2>1, <2>2
<1>7. WalkTyped'
  <2>1. walk'.pc \in {"none", "walking", "done"} /\ walk'.offset \in Nat /\ walk'.limit \in Nat \ {0}
    BY <1>2, <1>6
  <2>2. seen' \in Seq(LogRows)'
    BY <1>5 DEF LogRows
  <2>3. there' \subseteq log' /\ still' \in BOOLEAN
    BY <1>1, <1>2 DEF WalkInv, WalkTyped
  <2> QED BY <1>6, <2>1, <2>2, <2>3 DEF WalkTyped
<1>8. Matching(walk.filter)' = S
  BY <1>1, <1>6 DEF Matching
<1>9. Rows(S)
  BY MatchingRows DEF WalkInv, LogInv, Matching
<1> DEFINE ShownThen(e) == \E k \in DOMAIN seen' : seen'[k] = e
<1>10. \A e : Shown(e) => ShownThen(e)
  <2> SUFFICES ASSUME NEW k \in DOMAIN seen PROVE k \in DOMAIN seen' /\ seen'[k] = seen[k]
    BY DEF Shown
  <2>1. k \in 1..Len(seen)
    BY <1>2
  <2>2. k \in 1..(Len(seen) + n) /\ k <= Len(seen)
    BY <1>3, <1>5, <2>1
  <2>3. DOMAIN seen' = 1..(Len(seen) + n)
    BY <1>5
  <2> QED BY <1>5, <2>2, <2>3
<1>11. MissInv'
  <2> SUFFICES ASSUME NEW e \in there, Reading!Matches(e, filter)
               PROVE  \/ ShownThen(e)
                      \/ page.hasNext /\ Reading!Place(e, S) > offset + limit
    <3>1. there' = there
      BY <1>1
    <3> HIDE DEF S
    <3> QED BY <1>6, <1>8, <3>1 DEF MissInv, Shown
  <2>1. CASE Shown(e)
    BY <1>10, <2>1
  <2>2. CASE ~Shown(e)
    <3> DEFINE p == Reading!Place(e, S)
    <3>1. e \in S
      BY <1>2 DEF Matching
    <3>2. p > offset
      BY <1>1, <2>2 DEF WalkInv, MissInv
    <3> HIDE DEF S
    <3>3. p \in 1..Cardinality(S) /\ Len(s) = Cardinality(S) /\ s[p] = e /\ Cardinality(S) \in Nat
      BY <1>9, <3>1, PlaceFacts, SortedFacts
    <3> HIDE DEF p, s
    <3>4. CASE p <= offset + n
      <4> DEFINE k == p - offset
      <4>1. k \in 1..n /\ offset + k = p
        BY <1>2, <1>3, <3>2, <3>3, <3>4
      <4>2. page.events[k] = e
        BY <1>3, <3>3, <4>1
      <4>3. /\ Len(seen) + k \in 1..(Len(seen) + n) /\ ~(Len(seen) + k <= Len(seen))
            /\ (Len(seen) + k) - Len(seen) = k
        BY <1>3, <1>5, <4>1
      <4>4. seen'[Len(seen) + k] = e
        BY <1>5, <4>2, <4>3
      <4>5. Len(seen) + k \in DOMAIN seen'
        BY <1>5, <4>3
      <4> QED BY <4>4, <4>5
    <3>5. CASE p > offset + n
      <4>1. p <= Len(s) /\ offset <= Len(s) /\ p \in Nat
        BY <1>2, <1>3, <3>2, <3>3
      <4>2. page.hasNext /\ n = limit
        BY <1>2, <1>3, <3>5, <4>1
      <4> QED BY <3>5, <4>2 DEF p
    <3> QED BY <1>2, <1>3, <3>3, <3>4, <3>5
  <2> QED BY <2>1, <2>2
<1>12. StillInv'
  <2> SUFFICES ASSUME still
               PROVE  /\ Len(seen') <= Len(s)
                      /\ \A k \in 1..Len(seen') : seen'[k] = s[k]
                      /\ page.hasNext => Len(seen') = offset + limit
    <3>1. still' = still
      BY <1>1
    <3> HIDE DEF S
    <3> QED BY <1>6, <1>8, <3>1 DEF StillInv
  <2>1. Len(seen) = offset /\ offset <= Len(s) /\ \A k \in 1..Len(seen) : seen[k] = s[k]
    BY <1>1 DEF WalkInv, StillInv
  <2> HIDE DEF s
  <2>2. Len(seen') <= Len(s) /\ (page.hasNext => Len(seen') = offset + limit)
    BY <1>2, <1>3, <1>5, <2>1
  <2>3. ASSUME NEW k \in 1..Len(seen') PROVE seen'[k] = s[k]
    <3>1. CASE k <= Len(seen)
      <4>1. k \in 1..Len(seen) /\ k \in 1..(Len(seen) + n)
        BY <1>5, <3>1
      <4> QED BY <1>5, <2>1, <3>1, <4>1
    <3>2. CASE ~(k <= Len(seen))
      <4>1. k \in 1..(Len(seen) + n) /\ k - Len(seen) \in 1..n /\ offset + (k - Len(seen)) = k
        BY <1>2, <1>3, <1>5, <2>1, <3>2
      <4>2. seen'[k] = page.events[k - Len(seen)]
        BY <1>5, <3>2, <4>1
      <4> QED BY <1>3, <4>1, <4>2
    <3> QED BY <3>1, <3>2
  <2> QED BY <2>2, <2>3
<1> QED BY <1>4, <1>7, <1>11, <1>12 DEF WalkInv

(* A row that comes stands before others, never after them in their stead. *)
LEMMA ComingKeeps == ASSUME Reading!AuditQueriesAssumption, WalkInv, Reading!Insert PROVE WalkInv'
<1> DEFINE S == Matching(walk.filter)
           T == {e \in log' : Reading!Matches(e, walk.filter)}
<1>1. UNCHANGED <<logNow, walk, seen, there>> /\ still' = FALSE /\ logId' = logId + 1
  BY DEF Reading!Insert
<1>2. PICK row \in LogRows : log' = log \cup {row} /\ row.id = logId + 1
  <2>1. PICK c \in Clients, m \in Names, a \in Actions, at \in {logNow - 1, logNow} :
          log' = log \cup {[id |-> logId', at |-> at, client |-> c, name |-> m, action |-> a]}
    BY DEF Reading!Insert
  <2> DEFINE row == [id |-> logId', at |-> at, client |-> c, name |-> m, action |-> a]
  <2>2. logNow - 1 \in Nat /\ logNow \in Nat
    <3>1. logNow \in Nat /\ logNow >= LogStart
      BY DEF WalkInv, LogInv, ReadingInv
    <3>2. LogStart >= 1 /\ LogStart \in Nat
      <4> DEFINE span == BucketCount * BucketInterval
      <4>1. span \in Nat \ {0} /\ LogStart \in Nat /\ LogStart >= span
        BY ReadingNumbers
      <4> HIDE DEF span
      <4> QED BY <4>1
    <3> QED BY <3>1, <3>2
  <2>3. at \in Nat /\ logId' \in Nat
    BY <1>1, <2>2 DEF WalkInv, LogInv
  <2>4. row \in LogRows /\ row.id = logId + 1 /\ log' = log \cup {row}
    BY <1>1, <2>1, <2>3 DEF LogRows
  <2> HIDE DEF row
  <2> QED BY <2>4
<1>3. /\ logId \in Nat /\ Rows(log) /\ log \subseteq LogRows /\ \A e \in log : e.id <= logId
  BY DEF WalkInv, LogInv
<1>4. LogInv'
  <2>1. ReadingInv'
    BY ReadingStep DEF WalkInv, LogInv, Reading!Next
  <2>2. IsFiniteSet(log')
    BY <1>2, <1>3, FS_AddElement DEF Rows
  <2>3. log' \subseteq LogRows
    BY <1>2, <1>3
  <2>4. \A e \in log' : e.id \in Nat /\ e.at \in Nat
    BY <2>3 DEF LogRows
  <2>5. \A e \in log' : e.id <= logId'
    BY <1>1, <1>2, <1>3, <2>4
  <2>6. \A e, f \in log' : e.id = f.id => e = f
    <3>1. \A e \in log : e.id # row.id
      BY <1>2, <1>3 DEF Rows
    <3> QED BY <1>2, <1>3, <3>1 DEF Rows
  <2> QED BY <1>1, <1>3, <2>1, <2>2, <2>3, <2>4, <2>5, <2>6 DEF LogInv, Rows, LogRows
<1>5. WalkTyped'
  BY <1>1, <1>2 DEF WalkInv, WalkTyped, LogRows
<1>6. Matching(walk.filter)' = T
  BY <1>1 DEF Matching
<1>7. Rows(S) /\ Rows(T) /\ S \subseteq T
  <2>1. Rows(S)
    BY <1>3, MatchingRows DEF Matching
  <2>2. Rows(T)
    BY <1>4, MatchingRows DEF LogInv, LogRows
  <2> QED BY <1>2, <2>1, <2>2 DEF Matching
<1>8. MissInv'
  <2> SUFFICES ASSUME NEW e \in there, walk.pc = "walking", Reading!Matches(e, walk.filter), ~Shown(e)
               PROVE  Reading!Place(e, T) > walk.offset
    <3> HIDE DEF T
    <3>1. \A e \in there : walk.pc = "done" /\ Reading!Matches(e, walk.filter) => Shown(e)
      BY DEF WalkInv, MissInv
    <3> QED BY <1>1, <1>6, <3>1 DEF MissInv, Shown
  <2>1. e \in S /\ Reading!Place(e, S) > walk.offset /\ walk.offset \in Nat
    BY DEF WalkInv, WalkTyped, MissInv, Matching
  <2> HIDE DEF S, T
  <2>2. e \in T /\ Reading!Place(e, S) <= Reading!Place(e, T)
    BY <1>7, <2>1, PlaceGrows
  <2>3. Reading!Place(e, S) \in Nat /\ Reading!Place(e, T) \in Nat
    <3>1. Cardinality(S) \in Nat /\ Cardinality(T) \in Nat
      BY <1>7, SortedFacts
    <3>2. Reading!Place(e, S) \in 1..Cardinality(S) /\ Reading!Place(e, T) \in 1..Cardinality(T)
      BY <1>7, <2>1, <2>2, PlaceFacts
    <3> QED BY <3>1, <3>2
  <2> QED BY <2>1, <2>2, <2>3
<1>9. StillInv'
  BY <1>1 DEF StillInv
<1> QED BY <1>4, <1>5, <1>8, <1>9 DEF WalkInv

(* Rows that go are after those that stay: none of these moves.            *)
LEMMA GoingKeeps == ASSUME Reading!AuditQueriesAssumption, WalkInv, Reading!Cleanup PROVE WalkInv'
<1> DEFINE S == Matching(walk.filter)
           T == {e \in log' : Reading!Matches(e, walk.filter)}
           cutoff == logNow - Retention
<1>1. /\ UNCHANGED <<logNow, logId, walk, seen>> /\ still' = FALSE
      /\ log' = {e \in log : ~Before(e.at, cutoff)} /\ there' = there \cap log'
  BY SameBefore DEF Reading!Cleanup
<1>2. /\ logId \in Nat /\ Rows(log) /\ log \subseteq LogRows /\ \A e \in log : e.id <= logId
  BY DEF WalkInv, LogInv
<1>3. cutoff \in Nat
  <2>1. logNow \in Nat /\ logNow >= LogStart
    BY DEF WalkInv, LogInv, ReadingInv
  <2>2. LogStart \in Nat /\ Retention \in Nat /\ LogStart >= BucketCount * BucketInterval + Retention
    BY DEF Reading!AuditQueriesAssumption
  <2> DEFINE span == BucketCount * BucketInterval
  <2>3. span \in Nat /\ LogStart >= span + Retention
    BY <2>2, ReadingNumbers
  <2> HIDE DEF span
  <2> QED BY <2>1, <2>2, <2>3
<1> HIDE DEF cutoff
<1>4. LogInv'
  <2>1. ReadingInv'
    BY ReadingStep DEF WalkInv, LogInv, Reading!Next
  <2>2. log' \in SUBSET log /\ IsFiniteSet(log)
    BY <1>1, <1>2 DEF Rows
  <2>3. IsFiniteSet(log')
    BY <2>2, FS_Subset
  <2> QED BY <1>1, <1>2, <2>1, <2>2, <2>3 DEF LogInv, Rows, LogRows
<1>5. WalkTyped'
  BY <1>1 DEF WalkInv, WalkTyped, LogRows
<1>6. Matching(walk.filter)' = T
  BY <1>1 DEF Matching
<1>7. ASSUME NEW e \in log' PROVE Reading!Place(e, T) = Reading!Place(e, S)
  <2>1. ASSUME NEW f \in log, f \notin log', Reading!Later(f, e) PROVE FALSE
    <3>1. Before(f.at, cutoff) /\ ~Before(e.at, cutoff) /\ e \in log /\ e.at \in Nat /\ f.at \in Nat
      BY <1>1, <1>2, <2>1 DEF Rows
    <3>2. Before(e.at, f.at) \/ f.at = e.at
      BY <2>1, SameBefore DEF Reading!Later
    <3>3. CASE Before(e.at, f.at)
      BY <1>3, <3>1, <3>3, BeforeOrders
    <3> QED BY <3>1, <3>2, <3>3
  <2>2. {f \in T : Reading!Later(f, e)} = {f \in S : Reading!Later(f, e)}
    BY <1>1, <2>1 DEF Matching
  <2> QED BY <2>2 DEF Reading!Place
<1>8. MissInv'
  <2> SUFFICES ASSUME NEW e \in there, e \in log', walk.pc = "walking", Reading!Matches(e, walk.filter), ~Shown(e)
               PROVE  Reading!Place(e, T) > walk.offset
    <3> HIDE DEF T
    <3>1. \A e \in there : walk.pc = "done" /\ Reading!Matches(e, walk.filter) => Shown(e)
      BY DEF WalkInv, MissInv
    <3> QED BY <1>1, <1>6, <3>1 DEF MissInv, Shown
  <2>1. Reading!Place(e, S) > walk.offset
    BY DEF WalkInv, MissInv
  <2> HIDE DEF S, T
  <2> QED BY <1>7, <2>1
<1>9. StillInv'
  BY <1>1 DEF StillInv
<1> QED BY <1>4, <1>5, <1>8, <1>9 DEF WalkInv

LEMMA WalkStep ==
    ASSUME Reading!AuditQueriesAssumption, WalkInv, [Reading!Next]_(Reading!vars)
    PROVE  WalkInv'
<1>1. CASE UNCHANGED Reading!vars \/ Reading!Tick
  <2>1. UNCHANGED <<log, logId, walk, seen, there, still>>
    BY <1>1 DEF Reading!Tick, Reading!vars
  <2>2. ReadingInv'
    BY <1>1, ReadingStep DEF WalkInv, LogInv, Reading!Next
  <2>3. LogInv'
    BY <2>1, <2>2 DEF WalkInv, LogInv, Rows, LogRows
  <2>4. WalkTyped'
    BY <2>1 DEF WalkInv, WalkTyped, LogRows
  <2>5. MissInv' /\ StillInv'
    BY <2>1 DEF WalkInv, MissInv, StillInv, Shown, Matching
  <2> QED BY <2>3, <2>4, <2>5 DEF WalkInv
<1> QED BY <1>1, BeginKeeps, PageKeeps, ComingKeeps, GoingKeeps DEF Reading!Next

LEMMA WalkGood == ASSUME WalkInv PROVE Reading!WalkMissesNothing /\ Reading!StillWalkIsExact
<1>1. Reading!WalkMissesNothing
  BY DEF WalkInv, MissInv, Shown, Reading!WalkMissesNothing
<1>2. ASSUME walk.pc = "done", still, NEW j \in DOMAIN seen, NEW k \in DOMAIN seen, j < k
      PROVE  Reading!Later(seen[j], seen[k])
  <2> DEFINE S == Matching(walk.filter)
             s == Reading!Sorted(S)
  <2>1. Rows(S)
    BY MatchingRows DEF WalkInv, LogInv, Matching
  <2>2. Len(seen) <= Len(s) /\ \A i \in 1..Len(seen) : seen[i] = s[i]
    BY <1>2 DEF WalkInv, StillInv
  <2>3. DOMAIN seen = 1..Len(seen) /\ Len(seen) \in Nat
    BY DEF WalkInv, WalkTyped
  <2> HIDE DEF S
  <2>4. /\ Cardinality(S) \in Nat /\ Len(s) = Cardinality(S)
        /\ \A i \in 1..Cardinality(S) : s[i] \in S /\ Reading!Place(s[i], S) = i
    BY <2>1, SortedFacts
  <2> HIDE DEF s
  <2>5. j \in 1..Cardinality(S) /\ k \in 1..Cardinality(S) /\ seen[j] = s[j] /\ seen[k] = s[k]
    BY <2>2, <2>3, <2>4
  <2>6. s[j] \in S /\ s[k] \in S /\ Reading!Place(s[j], S) < Reading!Place(s[k], S)
    BY <1>2, <2>4, <2>5
  <2>7. Reading!Later(s[j], s[k])
    BY <2>1, <2>6, PlaceFacts
  <2> QED BY <2>5, <2>7
<1>3. Reading!StillWalkIsExact
  BY <1>2 DEF Reading!StillWalkIsExact
<1> QED BY <1>1, <1>3

-----------------------------------------------------------------------------
(* What the privacy level hides.                                           *)

(* Counts of finitely many names.                                          *)
Counts(tally) ==
    /\ tally = [n \in DOMAIN tally |-> tally[n]]
    /\ IsFiniteSet(DOMAIN tally)
    /\ \A n \in DOMAIN tally : tally[n] \in Nat

LEMMA ImageFinite ==
    ASSUME NEW f, f = [x \in DOMAIN f |-> f[x]], IsFiniteSet(DOMAIN f)
    PROVE  IsFiniteSet({f[x] : x \in DOMAIN f})
<1> DEFINE T == {f[x] : x \in DOMAIN f}
           S == DOMAIN f
<1>1. f \in [S -> T]
  OBVIOUS
<1>2. \A y \in T : \E x \in S : f[x] = y
  OBVIOUS
<1> HIDE DEF T, S
<1>3. f \in Surjection(S, T)
  BY <1>1, <1>2 DEF Surjection
<1> QED BY <1>3, FS_Surjection DEF S, T

(* The sum of counts is a number, and that of one count this count.        *)
LEMMA SumFacts ==
    ASSUME NEW tally, Counts(tally)
    PROVE  /\ Reading!SumOf(tally) \in Nat
           /\ DOMAIN tally = {0} => Reading!SumOf(tally) = tally[0]
<1> DEFINE Own(n) == {n} \X (1..tally[n])
           All == {Own(n) : n \in DOMAIN tally}
<1>1. Reading!SumOf(tally) = Cardinality(UNION All)
  BY SameCountRead DEF Reading!SumOf
<1>2. \A n \in DOMAIN tally : /\ IsFiniteSet(Own(n)) /\ Cardinality(Own(n)) = tally[n]
  <2> SUFFICES ASSUME NEW n \in DOMAIN tally
               PROVE  IsFiniteSet(Own(n)) /\ Cardinality(Own(n)) = tally[n]
    OBVIOUS
  <2> DEFINE m == tally[n]
             I == 1..m
  <2>1. m \in Nat
    BY DEF Counts
  <2> HIDE DEF m
  <2>2. 1 \in Int /\ m \in Int
    BY <2>1
  <2>3. IsFiniteSet(1..m) /\ Cardinality(1..m) = IF 1 > m THEN 0 ELSE m - 1 + 1
    BY <2>2, FS_Interval, Zenon
  <2>4. IsFiniteSet(I) /\ Cardinality(I) = m
    BY <2>1, <2>3
  <2>5. IsFiniteSet({n}) /\ Cardinality({n}) = 1
    BY FS_Singleton
  <2> HIDE DEF I
  <2>6. IsFiniteSet({n} \X I) /\ Cardinality({n} \X I) = Cardinality({n}) * Cardinality(I)
    BY <2>4, <2>5, FS_Product
  <2>7. Cardinality({n} \X I) = m
    BY <2>1, <2>4, <2>5, <2>6
  <2> QED BY <2>6, <2>7 DEF m, I
<1> HIDE DEF Own
<1>3. IsFiniteSet(All)
  <2> DEFINE f == [n \in DOMAIN tally |-> Own(n)]
  <2>1. DOMAIN f = DOMAIN tally /\ f = [n \in DOMAIN f |-> f[n]] /\ All = {f[n] : n \in DOMAIN f}
    OBVIOUS
  <2>2. IsFiniteSet(DOMAIN f)
    BY <2>1 DEF Counts
  <2> HIDE DEF f, All
  <2> QED BY <2>1, <2>2, ImageFinite
<1>4. \A T \in All : IsFiniteSet(T)
  BY <1>2
<1>5. ASSUME DOMAIN tally = {0} PROVE UNION All = Own(0) /\ 0 \in DOMAIN tally
  BY <1>5
<1> HIDE DEF All
<1>6. IsFiniteSet(UNION All)
  BY <1>3, <1>4, FS_UNION
<1>7. Cardinality(UNION All) \in Nat
  BY <1>6, FS_CardinalityType
<1> QED BY <1>1, <1>2, <1>5, <1>7

(* Hidden names are one at most, and their counts are kept.                *)
LEMMA HidingFacts ==
    ASSUME NEW tally, Counts(tally)
    PROVE  LET hidden == Reading!collapseNamedTotals(tally)
           IN  DOMAIN hidden \subseteq {0} /\ Reading!SumOf(hidden) = Reading!SumOf(tally)
<1> DEFINE sum == Reading!SumOf(tally)
           hidden == Reading!collapseNamedTotals(tally)
<1>1. hidden = [n \in IF DOMAIN tally = {} THEN {} ELSE {0} |-> sum]
  BY DEF Reading!collapseNamedTotals
<1>2. sum \in Nat
  BY SumFacts
<1>3. CASE DOMAIN tally = {}
  <2>1. tally = [n \in {} |-> tally[n]]
    BY <1>3 DEF Counts
  <2>2. hidden = tally
    BY <1>1, <1>3, <2>1
  <2> QED BY <1>3, <2>2
<1>4. CASE DOMAIN tally # {}
  <2> HIDE DEF sum, hidden
  <2>1. DOMAIN hidden = {0} /\ hidden[0] = sum /\ hidden = [n \in DOMAIN hidden |-> hidden[n]]
    BY <1>1, <1>4
  <2>2. IsFiniteSet(DOMAIN hidden)
    BY <2>1, FS_Singleton
  <2>3. Counts(hidden)
    BY <1>2, <2>1, <2>2 DEF Counts
  <2> QED BY <2>1, <2>3, SumFacts DEF sum, hidden
<1> QED BY <1>3, <1>4

LEMMA TotalsCount ==
    ASSUME NEW events, IsFiniteSet(events), NEW column
    PROVE  Counts(Reading!namedTotals(events, column))
<1> DEFINE names == {e[column] : e \in events} \ {0}
           count(n) == Cardinality({e \in events : e[column] = n})
           ahead(n, m) == count(n) > count(m) \/ (count(n) = count(m) /\ n < m)
           top == {n \in names : Cardinality({m \in names : ahead(m, n)}) < TopLimit}
           tally == Reading!namedTotals(events, column)
<1>1. tally = [n \in top |-> count(n)]
  BY SameCountRead DEF Reading!namedTotals
<1>2. IsFiniteSet(top)
  <2> DEFINE f == [e \in events |-> e[column]]
             all == {e[column] : e \in events}
  <2>1. f = [e \in DOMAIN f |-> f[e]] /\ IsFiniteSet(DOMAIN f) /\ all = {f[e] : e \in DOMAIN f}
    OBVIOUS
  <2>2. top \in SUBSET all
    OBVIOUS
  <2> HIDE DEF f, all, top
  <2>3. IsFiniteSet(all)
    BY <2>1, ImageFinite
  <2> QED BY <2>2, <2>3, FS_Subset
<1>3. ASSUME NEW n PROVE count(n) \in Nat
  <2> DEFINE those == {e \in events : e[column] = n}
  <2>1. those \in SUBSET events
    OBVIOUS
  <2> HIDE DEF those
  <2>2. IsFiniteSet(those)
    BY <2>1, FS_Subset
  <2> QED BY <2>2, FS_CardinalityType DEF those
<1> HIDE DEF top, count, tally
<1>4. tally = [n \in DOMAIN tally |-> tally[n]] /\ DOMAIN tally = top /\ \A n \in top : tally[n] = count(n)
  BY <1>1
<1> QED BY <1>2, <1>3, <1>4 DEF Counts, tally

LEMMA BucketsCount ==
    ASSUME IsFiniteSet(log), NEW tally, Counts(tally), NEW i \in 1..BucketCount
    PROVE  Counts(Reading!clientTimeBuckets(tally)[i])
<1> DEFINE events == {e \in log : Reading!inBucket(e, i)}
           of(c) == {e \in events : e.client = c}
           shown == {c \in DOMAIN tally : of(c) # {}}
           bucket == Reading!clientTimeBuckets(tally)[i]
<1>1. bucket = [c \in shown |-> Cardinality(of(c))]
  BY SameCountRead DEF Reading!clientTimeBuckets
<1>2. IsFiniteSet(shown)
  <2>1. shown \in SUBSET DOMAIN tally /\ IsFiniteSet(DOMAIN tally)
    BY DEF Counts
  <2> HIDE DEF shown
  <2> QED BY <2>1, FS_Subset
<1>3. ASSUME NEW c PROVE Cardinality(of(c)) \in Nat
  <2>1. of(c) \in SUBSET log
    OBVIOUS
  <2> HIDE DEF of
  <2>2. IsFiniteSet(of(c))
    BY <2>1, FS_Subset
  <2> QED BY <2>2, FS_CardinalityType
<1> HIDE DEF shown, of, bucket
<1>4. bucket = [c \in DOMAIN bucket |-> bucket[c]] /\ DOMAIN bucket = shown
      /\ \A c \in shown : bucket[c] = Cardinality(of(c))
  BY <1>1
<1> QED BY <1>2, <1>3, <1>4 DEF Counts, bucket

(* A level that hides hides everywhere, and changes no sum.                *)
LEMMA HidingGood == ASSUME IsFiniteSet(log) PROVE Reading!HiddenEverywhere
<1> DEFINE s0 == Reading!QuerySummary
           s1 == Reading!ProjectSummary(s0, 1)
           s2 == Reading!ProjectSummary(s0, 2)
           Hide(p) == Reading!collapseNamedTotals(p)
           blocked == {e \in Reading!Recent : e.action = "block"}
           tc == Reading!namedTotals(Reading!Recent, "client")
           tbc == Reading!namedTotals(blocked, "client")
           tq == Reading!namedTotals(Reading!Recent, "name")
           tb == Reading!namedTotals(blocked, "name")
           cb == Reading!clientTimeBuckets(tc)
           clients(s) == {s.topClients, s.topBlockedClients} \cup {s.clientBuckets[i] : i \in 1..BucketCount}
           names(s) == {s.topQueried, s.topBlocked}
<1>1. /\ s0.topQueried = tq /\ s0.topBlocked = tb /\ s0.topClients = tc /\ s0.topBlockedClients = tbc
      /\ s0.clientBuckets = cb
      /\ s0 = [topQueried |-> tq, topBlocked |-> tb, topClients |-> tc, topBlockedClients |-> tbc,
               buckets |-> Reading!timeBuckets, clientBuckets |-> cb]
  BY DEF Reading!QuerySummary
<1>2. DOMAIN cb = 1..BucketCount
  BY DEF Reading!clientTimeBuckets
<1>3. /\ Counts(tc) /\ Counts(tbc) /\ Counts(tq) /\ Counts(tb)
      /\ \A i \in 1..BucketCount : Counts(cb[i])
  <2>1. Reading!Recent \in SUBSET log /\ blocked \in SUBSET Reading!Recent
    BY DEF Reading!Recent
  <2> HIDE DEF blocked
  <2>2. IsFiniteSet(Reading!Recent) /\ IsFiniteSet(blocked)
    BY <2>1, FS_Subset
  <2>3. Counts(tc) /\ Counts(tbc) /\ Counts(tq) /\ Counts(tb)
    BY <2>2, TotalsCount
  <2> QED BY <2>3, BucketsCount
<1> HIDE DEF s0, tc, tbc, tq, tb, cb, blocked
<1>4. /\ s1.topClients = Hide(tc) /\ s1.topBlockedClients = Hide(tbc)
      /\ s1.topQueried = tq /\ s1.topBlocked = tb
      /\ s1.clientBuckets = [i \in 1..BucketCount |-> Hide(cb[i])]
  BY <1>1, <1>2 DEF Reading!ProjectSummary
<1>5. /\ s2.topClients = Hide(tc) /\ s2.topBlockedClients = Hide(tbc)
      /\ s2.topQueried = Hide(tq) /\ s2.topBlocked = Hide(tb)
      /\ s2.clientBuckets = [i \in 1..BucketCount |-> Hide(cb[i])]
  BY <1>1, <1>2 DEF Reading!ProjectSummary
<1> HIDE DEF s1, s2
<1>6. \A p : Counts(p) => DOMAIN Hide(p) \subseteq {0} /\ Reading!SumOf(Hide(p)) = Reading!SumOf(p)
  BY HidingFacts
<1> HIDE DEF Hide
<1>7. /\ clients(s1) = {Hide(tc), Hide(tbc)} \cup {Hide(cb[i]) : i \in 1..BucketCount}
      /\ clients(s2) = {Hide(tc), Hide(tbc)} \cup {Hide(cb[i]) : i \in 1..BucketCount}
      /\ clients(s0) = {tc, tbc} \cup {cb[i] : i \in 1..BucketCount}
      /\ names(s0) = {tq, tb} /\ names(s1) = {tq, tb} /\ names(s2) = {Hide(tq), Hide(tb)}
  BY <1>1, <1>4, <1>5
<1> HIDE DEF clients, names
<1>8. \A p \in clients(s1) \cup clients(s2) \cup names(s2) : DOMAIN p \subseteq {0}
  BY <1>3, <1>6, <1>7
<1>9. {Reading!SumOf(p) : p \in clients(s1)} = {Reading!SumOf(p) : p \in clients(s0)}
  <2>1. ASSUME NEW p \in clients(s1) PROVE \E q \in clients(s0) : Reading!SumOf(p) = Reading!SumOf(q)
    BY <1>3, <1>6, <1>7
  <2>2. ASSUME NEW q \in clients(s0) PROVE \E p \in clients(s1) : Reading!SumOf(p) = Reading!SumOf(q)
    BY <1>3, <1>6, <1>7
  <2> QED BY <2>1, <2>2
<1>10. {Reading!SumOf(p) : p \in names(s2)} = {Reading!SumOf(p) : p \in names(s0)}
  <2>1. Reading!SumOf(Hide(tq)) = Reading!SumOf(tq) /\ Reading!SumOf(Hide(tb)) = Reading!SumOf(tb)
    BY <1>3, <1>6
  <2> QED BY <1>7, <2>1
<1> QED BY <1>7, <1>8, <1>9, <1>10 DEF Reading!HiddenEverywhere, clients, names, s0, s1, s2

(* Whatever pages, rows and cleanups come in what order, a walk misses no  *)
(* row and, undisturbed, repeats none; each row is in its bucket alone; and *)
(* what a privacy level hides is nowhere (QueryEvents, QuerySummary and    *)
(* ProjectSummary in internal/audit).                                      *)
THEOREM ReadersAreExact ==
    ASSUME Reading!AuditQueriesAssumption
    PROVE  Reading!Spec => [](/\ Reading!WalkMissesNothing /\ Reading!StillWalkIsExact
                              /\ Reading!BucketsPartition /\ Reading!HiddenEverywhere)
<1>1. WalkInv => /\ Reading!WalkMissesNothing /\ Reading!StillWalkIsExact
                 /\ Reading!BucketsPartition /\ Reading!HiddenEverywhere
  BY WalkGood, BucketsGood, HidingGood DEF WalkInv, LogInv, Rows
<1> QED BY <1>1, WalkInit, WalkStep, PTL DEF Reading!Spec

-----------------------------------------------------------------------------
(* All of it.                                                              *)

DatabaseVars == <<part, vars, cacheVars, queryVars>>

DatabaseInv ==
    /\ part = "caching" => CacheInv
    /\ part \in {"paging", "summing"} => WalkInv

LEMMA DatabaseStart == ASSUME DatabaseInit PROVE DatabaseInv
BY AuditDatabaseAssumption, CacheInit, WalkInit DEF DatabaseInit, DatabaseInv

LEMMA DatabaseStep == ASSUME DatabaseInv, [DatabaseNext]_DatabaseVars PROVE DatabaseInv'
<1>1. part' = part
  BY DEF DatabaseNext, DatabaseVars
<1>2. ASSUME part = "caching" PROVE CacheInv'
  <2>1. [Caching!Next]_(Caching!vars)
    BY <1>2 DEF DatabaseNext, DatabaseVars, cacheVars, Caching!vars, Caching!cache
  <2> QED BY <1>2, <2>1, AuditDatabaseAssumption, CacheStep DEF DatabaseInv
<1>3. ASSUME part \in {"paging", "summing"} PROVE WalkInv'
  <2>1. [Reading!Next]_(Reading!vars)
    BY <1>3 DEF DatabaseNext, DatabaseVars, queryVars, Reading!vars
  <2> QED BY <1>3, <2>1, AuditDatabaseAssumption, WalkStep DEF DatabaseInv
<1> QED BY <1>1, <1>2, <1>3 DEF DatabaseInv

(* The store beside its readers behaves as it does alone, so that what is  *)
(* proved of Spec holds of the database that is checked (the count kept in *)
(* the transaction of the insert, internal/audit/audit.go, is not touched  *)
(* by what reads it).                                                      *)
THEOREM StoreBesideReaders == DatabaseSpec => Spec
<1>1. DatabaseInit => Init
  BY DEF DatabaseInit
<1>2. [DatabaseNext]_DatabaseVars => [Next]_vars
  BY DEF DatabaseNext, DatabaseVars
<1> QED BY <1>1, <1>2, PTL DEF DatabaseSpec, Spec, DatabaseVars

(* The same of the database that is checked: no request is shown a summary *)
(* from before a cleanup that was over, past its term or against its       *)
(* privacy level (summaryCache in internal/audit/summary_cache.go).        *)
THEOREM SummariesStayFresh == DatabaseSpec => []SummaryIsFresh
<1>1. DatabaseInit => DatabaseInv
  BY DatabaseStart
<1>2. DatabaseInv /\ [DatabaseNext]_DatabaseVars => DatabaseInv'
  BY DatabaseStep
<1>3. DatabaseInv => SummaryIsFresh
  BY AuditDatabaseAssumption, CacheGood DEF DatabaseInv, SummaryIsFresh, CacheInv
<1> QED BY <1>1, <1>2, <1>3, PTL DEF DatabaseSpec, DatabaseVars

(* The same of the database that is checked: its pages, buckets and hidden *)
(* names are exact (internal/audit/audit.go and analytics.go).             *)
THEOREM ReadersSeeTheLog == DatabaseSpec => []QueriesAreExact
<1>1. DatabaseInit => DatabaseInv
  BY DatabaseStart
<1>2. DatabaseInv /\ [DatabaseNext]_DatabaseVars => DatabaseInv'
  BY DatabaseStep
<1>3. DatabaseInv => QueriesAreExact
  <2>1. ASSUME WalkInv PROVE Reading!BucketsPartition /\ Reading!HiddenEverywhere
    BY <2>1, AuditDatabaseAssumption, BucketsGood, HidingGood DEF WalkInv, LogInv, Rows
  <2> QED BY <2>1, WalkGood DEF DatabaseInv, QueriesAreExact
<1> QED BY <1>1, <1>2, <1>3, PTL DEF DatabaseSpec, DatabaseVars
=============================================================================
