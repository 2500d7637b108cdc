------------------------ MODULE ConfigRuntimeProofs ------------------------
(***************************************************************************)
(* Proofs about the configuration row and the runtime that follows it      *)
(* (ConfigRuntime), for any settings, pause lengths, readers, restarts and *)
(* failed saves; and about the four parts of Answering: the custom records *)
(* (Records), for any requests and tables; the plugin that answers queries *)
(* from whatever the runtime holds meanwhile (Plugin), for any queries and *)
(* stores; the DNSSEC plugin after it (Signed), for any zones and cache;   *)
(* and the times of a pause (Pausing), for any request whose duration fits *)
(* the arithmetic.  ConfigRuntime shares no variable with them: its        *)
(* theorems are about it alone.                                            *)
(***************************************************************************)
EXTENDS ConfigRuntime, Answering, FiniteSetTheorems, SequenceTheorems, WellFoundedInduction, TLAPS

-----------------------------------------------------------------------------
(* What a request may have asked, at whatever time it did.                 *)
Asked ==
    [{"pause"} -> Pauses] \cup [{"dns"} -> DnsSettings]
        \cup [{"response"} -> Responses]

Labels == {"idle", "load", "reload", "save", "apply"}

(* A row as a value: a function on the fields.                             *)
Values == Pauses \cup DnsSettings \cup Responses
Rows == {c \in [Fields -> Values] : IsRow(c)}

(* The saved form of a pause is one that saving does not change again.     *)
Whole(c) == Truncated(c["pause"].until) = c["pause"].until

TypeInv ==
    /\ TypeOK
    /\ config \in Rows /\ acked \in Rows
    /\ copy \in [Requests -> Rows]
    /\ change \in [Requests -> Asked \cup {Nothing}]
    /\ \A r \in Requests : (pc[r] = "idle") <=> (change[r] = Nothing)
    /\ Whole(config)
    /\ \A r \in Requests : Whole(copy[r])

(* Requests that overlap leave the fields they change disturbed.           *)
OverlapInv == \A r, s \in Working : r # s => DOMAIN change[r] \subseteq disturbed

(* A request that has loaded the row has its own change in its copy, and   *)
(* elsewhere, where nothing is disturbed, what the row has.                *)
CopyInv ==
    \A r \in Working :
        /\ \A f \in DOMAIN change[r] : copy[r][f] = Persistable(change[r])[f]
        /\ \A f \in Fields \ (disturbed \cup DOMAIN change[r]) : copy[r][f] = config[f]

(* What it has reloaded or saved of an undisturbed field is there.         *)
WroteInv ==
    \A r \in Requests :
        /\ pc[r] = "reload" => "dns" \in DOMAIN change[r]
        /\ pc[r] = "save" /\ "dns" \in DOMAIN change[r] \ disturbed => server = copy[r]["dns"]
        /\ pc[r] = "apply" => \A f \in DOMAIN change[r] \ disturbed : config[f] = copy[r][f]

(* Nobody has saved another value of the field and not yet applied it, or  *)
(* reloaded it and not yet saved it.                                       *)
Settled(f) == \A r \in Requests : pc[r] = "apply" => f \notin DOMAIN change[r]
Reloaded == \E r \in Requests : pc[r] = "save" /\ "dns" \in DOMAIN change[r]

RuntimeInv ==
    /\ "dns" \notin disturbed /\ ~Reloaded => server = config["dns"]
    /\ "response" \notin disturbed /\ Settled("response") => response = config["response"]
    /\ "pause" \notin disturbed /\ Settled("pause") /\ pause.enabled => Saved(pause) = config["pause"]
    /\ \A f \in Fields \ disturbed : Settled(f) => config[f] = acked[f]

(* A pause that was answered is in force to its end, unless a reader that  *)
(* came too late has cleared it.                                           *)
KeptInv ==
    "pause" \notin disturbed /\ Settled("pause") /\ ~cleared /\ InForce(acked["pause"]) => pause.enabled

Agree == OverlapInv /\ CopyInv /\ WroteInv /\ RuntimeInv /\ KeptInv

IInv == TypeInv /\ Agree

-----------------------------------------------------------------------------
(* Facts about rows and changes.                                           *)

(* Truncating to the second twice is truncating once.                      *)
LEMMA TruncatedOnce ==
    ASSUME NEW t \in Nat
    PROVE  /\ Truncated(t) \in 0 .. t
           /\ Truncated(Truncated(t)) = Truncated(t)
           /\ t >= Second => Truncated(t) >= Second
<1> DEFINE m == t % Second
<1>1. Second \in Nat /\ Second > 0  BY ConfigRuntimeAssumption
<1>2. m \in 0 .. Second - 1 /\ m <= t  BY <1>1
<1>3. (t - m) % Second = 0  BY <1>1
<1>4. t - m \in 0 .. t  BY <1>2
<1>5. t >= Second => t - m >= Second
  <2> DEFINE k == t \div Second
  <2>1. k \in Nat /\ t = k * Second + m  BY <1>1
  <2>2. CASE k = 0  BY <1>1, <1>2, <2>1, <2>2
  <2>3. CASE k >= 1
    <3>1. k * Second >= Second  BY <1>1, <2>1, <2>3
    <3>2. t - m = k * Second  BY <1>1, <1>2, <2>1
    <3>3. QED  BY <3>1, <3>2
  <2>4. QED  BY <2>1, <2>2, <2>3
<1>6. QED  BY <1>3, <1>4, <1>5 DEF Truncated

(* What is saved of a pause is a pause that is saved as it is.             *)
LEMMA SavedOnce ==
    ASSUME NEW p \in Pauses
    PROVE  /\ Saved(p) \in Pauses
           /\ Saved(p).enabled = p.enabled
           /\ Truncated(Saved(p).until) = Saved(p).until
<1>1. p.until \in Nat /\ (p.until = 0 \/ p.until >= Second)  BY DEF Pauses
<1>2. Saved(p) = [enabled |-> p.enabled, until |-> Truncated(p.until)]
  BY DEF Saved, Pauses
<1>3. Truncated(0) = 0  BY TruncatedOnce
<1>4. QED  BY <1>1, <1>2, <1>3, TruncatedOnce DEF Pauses

(* A request changes one field, to a value of that field.                  *)
LEMMA AskedFacts ==
    ASSUME NEW c \in Asked
    PROVE  /\ DOMAIN c \in {{"pause"}, {"dns"}, {"response"}}
           /\ c # Nothing
           /\ "pause" \in DOMAIN c => c["pause"] \in Pauses
           /\ "dns" \in DOMAIN c => c["dns"] \in DnsSettings
           /\ "response" \in DOMAIN c => c["response"] \in Responses
<1>1. DOMAIN Nothing = {}  BY DEF Nothing
<1>2. QED  BY <1>1 DEF Asked

(* What a request saves: its own field, and the rest as it was loaded.     *)
LEMMA MergedFacts ==
    ASSUME NEW c \in Asked, NEW row \in Rows
    PROVE  /\ Merged(Persistable(c), row) \in Rows
           /\ \A f \in Fields :
                 Merged(Persistable(c), row)[f] =
                    IF f \in DOMAIN c THEN Persistable(c)[f] ELSE row[f]
           /\ Whole(row) => Whole(Merged(Persistable(c), row))
<1> DEFINE m == Merged(Persistable(c), row)
<1>1. DOMAIN Persistable(c) = DOMAIN c  BY DEF Persistable
<1>2. /\ DOMAIN m = Fields
      /\ m = [f \in Fields |-> m[f]]
      /\ \A f \in Fields : m[f] = IF f \in DOMAIN c THEN Persistable(c)[f] ELSE row[f]
  BY <1>1 DEF Merged
<1> HIDE DEF m
<1>3. /\ "pause" \in DOMAIN c => Persistable(c)["pause"] = Saved(c["pause"])
      /\ "dns" \in DOMAIN c => Persistable(c)["dns"] = c["dns"]
      /\ "response" \in DOMAIN c => Persistable(c)["response"] = c["response"]
  BY DEF Persistable
<1>4. /\ row["pause"] \in Pauses /\ row["dns"] \in DnsSettings
      /\ row["response"] \in Responses
  BY DEF Rows, IsRow
<1>5. m["pause"] \in Pauses /\ (Whole(row) => Whole(m))
  <2>1. CASE "pause" \in DOMAIN c
    <3>1. c["pause"] \in Pauses  BY <2>1, AskedFacts
    <3>2. m["pause"] = Saved(c["pause"])  BY <1>2, <1>3, <2>1 DEF Fields
    <3>3. QED  BY <3>1, <3>2, SavedOnce DEF Whole
  <2>2. CASE "pause" \notin DOMAIN c
    BY <1>2, <1>4, <2>2 DEF Fields, Whole
  <2>3. QED  BY <2>1, <2>2
<1>6. m["dns"] \in DnsSettings /\ m["response"] \in Responses
  BY <1>2, <1>3, <1>4, AskedFacts DEF Fields
<1>7. m \in [Fields -> Values]
  <2>1. \A f \in Fields : m[f] \in Values
    BY <1>5, <1>6 DEF Fields, Values
  <2>2. QED  BY <1>2, <2>1
<1>8. m \in Rows  BY <1>2, <1>5, <1>6, <1>7 DEF Rows, IsRow
<1>9. QED  BY <1>2, <1>5, <1>8 DEF m

(* The defaults are a row.                                                 *)
LEMMA DefaultRow ==
    /\ Default \in Rows
    /\ Default["pause"] = Off
    /\ Default["dns"] = DefaultDns
    /\ Default["response"] = DefaultResponse
    /\ Whole(Default)
<1>1. Off \in Pauses  BY DEF Off, Pauses
<1>2. /\ DOMAIN Default = Fields
      /\ Default["pause"] = Off
      /\ Default["dns"] = DefaultDns
      /\ Default["response"] = DefaultResponse
  BY DEF Default, Fields
<1>3. Default \in [Fields -> Values]
  <2>1. \A f \in Fields : Default[f] \in Values
    BY <1>1, <1>2, ConfigRuntimeAssumption DEF Fields, Values
  <2>2. Default = [f \in Fields |-> Default[f]]  BY DEF Default, Fields
  <2>3. QED  BY <2>1, <2>2
<1>4. Default \in Rows
  BY <1>1, <1>2, <1>3, ConfigRuntimeAssumption DEF Rows, IsRow
<1>5. Truncated(0) = 0
  <2>1. Truncated(0) \in 0 .. 0  BY TruncatedOnce
  <2>2. QED  BY <2>1
<1>6. QED  BY <1>2, <1>4, <1>5 DEF Whole, Off

-----------------------------------------------------------------------------
(* Types: every step, of any number of requests.                           *)

LEMMA InitTyped == Init => TypeInv
<1> SUFFICES ASSUME Init PROVE TypeInv  OBVIOUS
<1>1. TypeOK
  <2>1. IsRow(Default)  BY DefaultRow DEF Rows
  <2>2. Off \in Pauses  BY DEF Off, Pauses
  <2>3. DOMAIN Nothing \subseteq Fields  BY DEF Nothing
  <2>4. now \in Second .. MaxTime /\ faults \in 0 .. MaxFaults /\ restarts \in 0 .. MaxRestarts
    BY ConfigRuntimeAssumption DEF Init
  <2>5. /\ pc \in [Requests -> {"idle", "load", "reload", "save", "apply"}]
        /\ reader \in [Readers -> {"idle", "expired"}]
        /\ \A r \in Requests : DOMAIN change[r] \subseteq Fields /\ IsRow(copy[r])
    BY <2>1, <2>3 DEF Init
  <2>6. /\ IsRow(config) /\ IsRow(acked) /\ pause \in Pauses
        /\ response \in Responses /\ server \in DnsSettings
        /\ disturbed \subseteq Fields /\ cleared \in BOOLEAN
    BY <2>1, <2>2, ConfigRuntimeAssumption DEF Init
  <2>7. QED  BY <2>4, <2>5, <2>6 DEF TypeOK
<1>2. QED  BY <1>1, DefaultRow DEF Init, TypeInv

(* A request that moves on, with a row for a copy.                         *)
LEMMA RequestTyped ==
    ASSUME TypeInv, NEW r \in Requests, NEW label \in Labels, NEW c \in Asked \cup {Nothing},
           NEW row \in Rows, Whole(row), label = "idle" <=> c = Nothing,
           pc' = [pc EXCEPT ![r] = label],
           change' = [change EXCEPT ![r] = c],
           copy' = [copy EXCEPT ![r] = row]
    PROVE  /\ copy' \in [Requests -> Rows]
           /\ change' \in [Requests -> Asked \cup {Nothing}]
           /\ pc' \in [Requests -> {"idle", "load", "reload", "save", "apply"}]
           /\ \A s \in Requests : (pc'[s] = "idle") <=> (change'[s] = Nothing)
           /\ \A s \in Requests : Whole(copy'[s])
           /\ \A s \in Requests : DOMAIN change'[s] \subseteq Fields /\ IsRow(copy'[s])
<1>1. pc \in [Requests -> {"idle", "load", "reload", "save", "apply"}]
  BY DEF TypeInv, TypeOK
<1>2. /\ copy' \in [Requests -> Rows]
      /\ change' \in [Requests -> Asked \cup {Nothing}]
      /\ pc' \in [Requests -> {"idle", "load", "reload", "save", "apply"}]
  BY <1>1 DEF TypeInv, Labels
<1>3. \A s \in Requests : (pc'[s] = "idle") <=> (change'[s] = Nothing)
  BY <1>1 DEF TypeInv
<1>4. \A s \in Requests : Whole(copy'[s])
  BY DEF TypeInv
<1>5. ASSUME NEW s \in Requests PROVE DOMAIN change'[s] \subseteq Fields /\ IsRow(copy'[s])
  <2>1. DOMAIN Nothing \subseteq Fields  BY DEF Nothing
  <2>2. \A a \in Asked : DOMAIN a \subseteq Fields  BY AskedFacts DEF Fields
  <2>3. QED  BY <1>2, <2>1, <2>2 DEF Rows
<1>6. QED  BY <1>2, <1>3, <1>4, <1>5

(* Whatever time it is, a request asks for one of the things it may ask.   *)
LEMMA ChangesAsked == ASSUME now \in Nat, now >= Second PROVE Changes \subseteq Asked
<1>1. Off \in Pauses /\ Paused(0) \in Pauses  BY DEF Off, Paused, Pauses
<1>2. \A d \in Durations : Paused(now + d) \in Pauses
  BY ConfigRuntimeAssumption DEF Paused, Pauses
<1>3. {Off, Paused(0)} \cup {Paused(now + d) : d \in Durations} \subseteq Pauses
  BY <1>1, <1>2
<1>4. QED  BY <1>3 DEF Changes, Asked

LEMMA BeginTyped ==
    ASSUME TypeInv, NEW r \in Requests, NEW c \in Changes, Begin(r, c)
    PROVE  TypeInv'
<1>1. /\ change' = [change EXCEPT ![r] = c]
      /\ pc' = [pc EXCEPT ![r] = "load"]
      /\ copy' = copy
      /\ UNCHANGED <<now, config, pause, response, server, reader, faults, restarts, acked, disturbed, cleared>>
  BY DEF Begin, Goto, runtime
<1>2. c \in Asked
  <2>1. now \in Nat /\ now >= Second
    BY ConfigRuntimeAssumption DEF TypeInv, TypeOK
  <2>2. QED  BY <2>1, ChangesAsked
<1>3. copy[r] \in Rows /\ Whole(copy[r]) /\ copy' = [copy EXCEPT ![r] = copy[r]]
  BY <1>1 DEF TypeInv
<1>4. c # Nothing /\ "load" \in Labels  BY <1>2, AskedFacts DEF Labels
<1>5. QED  BY <1>1, <1>2, <1>3, <1>4, RequestTyped DEF TypeInv, TypeOK

LEMMA LoadTyped ==
    ASSUME TypeInv, NEW r \in Requests, Load(r) PROVE TypeInv'
<1> DEFINE m == Merged(Persistable(change[r]), config)
<1>1. /\ pc[r] = "load"
      /\ copy' = [copy EXCEPT ![r] = m]
      /\ pc' = [pc EXCEPT ![r] = IF copy'[r]["dns"] # config["dns"] THEN "reload" ELSE "save"]
      /\ change' = change
      /\ UNCHANGED <<now, config, pause, response, server, reader, faults, restarts, acked, cleared>>
  BY DEF Load, Goto, At, runtime
<1>0. disturbed' \subseteq Fields
  <2>1. \A s \in Requests : DOMAIN change[s] \subseteq Fields
    BY DEF TypeInv, TypeOK
  <2>2. disturbed \subseteq Fields
    BY DEF TypeInv, TypeOK
  <2> QED BY <2>1, <2>2 DEF Load, Meets, Disturbs, Working
<1>2. change[r] \in Asked /\ change[r] # Nothing  BY <1>1 DEF TypeInv
<1>3. m \in Rows /\ Whole(m)  BY <1>2, MergedFacts DEF TypeInv
<1>4. change' = [change EXCEPT ![r] = change[r]]  BY <1>1 DEF TypeInv
<1>5. PICK label \in {"reload", "save"} : pc' = [pc EXCEPT ![r] = label]  BY <1>1
<1>6. label \in Labels /\ (label = "idle" <=> change[r] = Nothing)
  BY <1>2 DEF Labels
<1>7. copy' = [copy EXCEPT ![r] = m]  BY <1>1
<1> HIDE DEF m
<1>8. /\ copy' \in [Requests -> Rows]
      /\ change' \in [Requests -> Asked \cup {Nothing}]
      /\ pc' \in [Requests -> {"idle", "load", "reload", "save", "apply"}]
      /\ \A s \in Requests : (pc'[s] = "idle") <=> (change'[s] = Nothing)
      /\ \A s \in Requests : Whole(copy'[s])
      /\ \A s \in Requests : DOMAIN change'[s] \subseteq Fields /\ IsRow(copy'[s])
  BY <1>2, <1>3, <1>4, <1>5, <1>6, <1>7, RequestTyped
<1>9. QED  BY <1>0, <1>1, <1>8 DEF TypeInv, TypeOK

(* A request that is answered, with an error or without.                   *)
LEMMA AnsweredTyped ==
    ASSUME TypeInv, NEW r \in Requests, Answered(r)
    PROVE  /\ copy' \in [Requests -> Rows]
           /\ change' \in [Requests -> Asked \cup {Nothing}]
           /\ pc' \in [Requests -> {"idle", "load", "reload", "save", "apply"}]
           /\ \A s \in Requests : (pc'[s] = "idle") <=> (change'[s] = Nothing)
           /\ \A s \in Requests : Whole(copy'[s])
           /\ \A s \in Requests : DOMAIN change'[s] \subseteq Fields /\ IsRow(copy'[s])
BY RequestTyped, DefaultRow DEF Answered, Labels

(* A request that goes on with the copy it has.                            *)
LEMMA GoneOnTyped ==
    ASSUME TypeInv, NEW r \in Requests, NEW label \in Labels, pc[r] # "idle",
           label # "idle", pc' = [pc EXCEPT ![r] = label],
           change' = change, copy' = copy
    PROVE  /\ copy' \in [Requests -> Rows]
           /\ change' \in [Requests -> Asked \cup {Nothing}]
           /\ pc' \in [Requests -> {"idle", "load", "reload", "save", "apply"}]
           /\ \A s \in Requests : (pc'[s] = "idle") <=> (change'[s] = Nothing)
           /\ \A s \in Requests : Whole(copy'[s])
           /\ \A s \in Requests : DOMAIN change'[s] \subseteq Fields /\ IsRow(copy'[s])
<1>1. /\ change[r] \in Asked \cup {Nothing} /\ change[r] # Nothing
      /\ change' = [change EXCEPT ![r] = change[r]]
      /\ copy[r] \in Rows /\ Whole(copy[r])
      /\ copy' = [copy EXCEPT ![r] = copy[r]]
  BY DEF TypeInv
<1>2. QED  BY <1>1, RequestTyped

LEMMA RequestStepTyped ==
    ASSUME TypeInv, NEW r \in Requests,
           Refuse(r) \/ ReloadServer(r) \/ Save(r) \/ SaveFails(r) \/ Apply(r)
    PROVE  TypeInv'
<1>1. copy[r] \in Rows /\ Whole(copy[r])  BY DEF TypeInv
<1>2. copy[r]["dns"] \in DnsSettings /\ copy[r]["response"] \in Responses
  BY <1>1 DEF Rows, IsRow
<1>3. CASE Refuse(r)
  BY <1>3, AnsweredTyped DEF Refuse, TypeInv, TypeOK, runtime
<1>4. CASE ReloadServer(r)
  BY <1>2, <1>4, GoneOnTyped DEF ReloadServer, At, Goto, Labels, TypeInv, TypeOK
<1>5. CASE Save(r)
  <2>1. IsRow(copy[r])  BY <1>1 DEF Rows
  <2>2. QED
    BY <1>1, <1>5, <2>1, GoneOnTyped
       DEF Save, At, Goto, Labels, TypeInv, TypeOK, runtime
<1>6. CASE SaveFails(r)
  <2>1. config' \in Rows /\ Whole(config') /\ IsRow(config')
    BY <1>1, <1>6 DEF SaveFails, TypeInv, Rows
  <2>2. faults' \in 0 .. MaxFaults
    BY <1>6, ConfigRuntimeAssumption DEF SaveFails, TypeInv, TypeOK
  <2>4. disturbed' \subseteq Fields
    BY <1>6 DEF SaveFails, Disturbs, TypeInv, TypeOK
  <2>3. QED
    BY <1>6, <2>1, <2>2, <2>4, AnsweredTyped DEF SaveFails, TypeInv, TypeOK, runtime
<1>7. CASE Apply(r)
  <2>1. pc[r] # "idle"  BY <1>7 DEF Apply, At
  <2>2. change[r] \in Asked  BY <2>1 DEF TypeInv
  <2>3. acked' \in Rows /\ IsRow(acked')
    BY <1>7, <2>2, MergedFacts DEF Apply, TypeInv, Rows
  <2>4. pause' \in Pauses /\ response' \in Responses
    BY <1>2, <1>7, <2>2, AskedFacts DEF Apply, TypeInv, TypeOK
  <2>5. cleared' \in BOOLEAN
    BY <1>7 DEF Apply
  <2>6. QED
    BY <1>7, <2>3, <2>4, <2>5, AnsweredTyped DEF Apply, TypeInv, TypeOK
<1>8. QED  BY <1>3, <1>4, <1>5, <1>6, <1>7

LEMMA OtherStepTyped ==
    ASSUME TypeInv,
           (\E q \in Readers : LoadPause(q) \/ ClearPause(q)) \/ Restart \/ Tick
    PROVE  TypeInv'
<1>1. CASE \E q \in Readers : LoadPause(q) \/ ClearPause(q)
  <2>1. PICK q \in Readers : LoadPause(q) \/ ClearPause(q)  BY <1>1
  <2>2. /\ reader' \in [Readers -> {"idle", "expired"}]
        /\ pause' \in {pause, Off} /\ cleared' \in BOOLEAN
        /\ UNCHANGED <<now, config, response, server, pc, change, copy, faults,
                       restarts, acked, disturbed>>
    BY <2>1 DEF LoadPause, ClearPause, runtime, requests, TypeInv, TypeOK
  <2>3. Off \in Pauses  BY DEF Off, Pauses
  <2>4. QED  BY <2>2, <2>3 DEF TypeInv, TypeOK
<1>2. CASE Restart
  <2>1. /\ pause' \in {Off, config["pause"]}
        /\ response' = config["response"]
        /\ server' = config["dns"]
        /\ pc' = [r \in Requests |-> "idle"]
        /\ change' = [r \in Requests |-> Nothing]
        /\ copy' = [r \in Requests |-> Default]
        /\ reader' = [q \in Readers |-> "idle"]
        /\ acked' = [f \in Fields |-> IF Quiet(f) THEN acked[f] ELSE config[f]]
        /\ disturbed' = {} /\ cleared' = FALSE
        /\ UNCHANGED <<now, config, faults>>
    BY <1>2 DEF Restart
  <2>2. restarts' \in 0 .. MaxRestarts
    BY <1>2, ConfigRuntimeAssumption DEF Restart, TypeInv, TypeOK
  <2>3. Off \in Pauses  BY DEF Off, Pauses
  <2>4. config \in Rows /\ acked \in Rows  BY DEF TypeInv
  <2>5. acked' \in Rows
    BY <2>1, <2>4 DEF Rows, IsRow, Fields
  <2>6. DOMAIN Nothing \subseteq Fields  BY DEF Nothing
  <2>7. /\ pause' \in Pauses /\ response' \in Responses /\ server' \in DnsSettings
        /\ IsRow(acked')
    BY <2>1, <2>3, <2>4, <2>5 DEF Rows, IsRow
  <2>8. TypeOK'
    BY <2>1, <2>2, <2>6, <2>7, DefaultRow DEF TypeInv, TypeOK, Rows
  <2>9. QED  BY <2>1, <2>5, <2>8, DefaultRow DEF TypeInv
<1>3. CASE Tick
  <2>1. now' \in Second .. MaxTime
    BY <1>3, ConfigRuntimeAssumption DEF Tick, TypeInv, TypeOK
  <2>2. QED  BY <1>3, <2>1 DEF Tick, runtime, requests, TypeInv, TypeOK
<1>4. QED  BY <1>1, <1>2, <1>3

LEMMA StepTyped == ASSUME TypeInv, [Next]_vars PROVE TypeInv'
<1>1. CASE UNCHANGED vars
  BY <1>1 DEF vars, runtime, requests, TypeInv, TypeOK
<1>2. QED
  BY <1>1, BeginTyped, LoadTyped, RequestStepTyped, OtherStepTyped DEF Next, Step

-----------------------------------------------------------------------------
(* Agreement of the row, the runtime and what clients were told.           *)

LEMMA WorkingFacts ==
    ASSUME TypeInv
    PROVE  \A r \in Working :
              r \in Requests /\ change[r] \in Asked /\ DOMAIN change[r] \subseteq Fields
<1>1. \A r \in Working : r \in Requests /\ pc[r] # "idle"
  BY DEF Working
<1> QED BY <1>1 DEF TypeInv, TypeOK

LEMMA InitAgrees == ASSUME Init PROVE Agree
<1>1. Working = {}
  BY DEF Init, Working
<1>2. OverlapInv /\ CopyInv
  BY <1>1 DEF OverlapInv, CopyInv
<1>3. WroteInv
  BY DEF Init, WroteInv
<1>4. RuntimeInv
  BY DefaultRow DEF Init, RuntimeInv, Off
<1>5. KeptInv
  BY DefaultRow DEF Init, KeptInv, InForce, Default, Off
<1> QED BY <1>2, <1>3, <1>4, <1>5 DEF Agree

(* What leaves the pause and what was said of it alone.                    *)
LEMMA StaysKept ==
    ASSUME Agree, now \in Nat, now' \in Nat, now' >= now, acked["pause"].until \in Nat,
           acked'["pause"] = acked["pause"], pause' = pause, cleared' = cleared,
           disturbed \subseteq disturbed', Settled("pause")' => Settled("pause")
    PROVE  KeptInv'
<1>1. InForce(acked["pause"])' => InForce(acked["pause"])
  BY DEF InForce
<1> QED BY <1>1 DEF Agree, KeptInv

LEMMA AckedFacts ==
    ASSUME TypeInv
    PROVE  now \in Nat /\ acked["pause"] \in Pauses /\ acked["pause"].until \in Nat
<1>1. now \in Nat
  BY ConfigRuntimeAssumption DEF TypeInv, TypeOK
<1>2. acked["pause"] \in Pauses
  BY DEF TypeInv, TypeOK, IsRow
<1> QED BY <1>1, <1>2 DEF Pauses

(* A request that waits, or gives up, leaves what the others have done.    *)
LEMMA WaitsAgree ==
    ASSUME TypeInv, Agree, NEW r \in Requests, pc[r] \in {"idle", "load", "reload"},
           pc'[r] \in {"idle", "load"}, Working' = Working \ {r},
           \A s \in Requests \ {r} : pc'[s] = pc[s] /\ change'[s] = change[s] /\ copy'[s] = copy[s],
           UNCHANGED <<now, config, pause, response, server, acked, disturbed, cleared>>
    PROVE  Agree'
<1>1. OverlapInv' /\ CopyInv'
  BY DEF Agree, OverlapInv, CopyInv, Working
<1>2. WroteInv'
  BY DEF Agree, WroteInv
<1>3. \A f : Settled(f)' => Settled(f)
  BY DEF Settled
<1>4. Reloaded => Reloaded'
  BY DEF Reloaded
<1>5. RuntimeInv'
  BY <1>3, <1>4 DEF Agree, RuntimeInv, Saved
<1>6. KeptInv'
  BY <1>3, AckedFacts, StaysKept
<1> QED BY <1>1, <1>2, <1>5, <1>6 DEF Agree

LEMMA BeginAgrees ==
    ASSUME TypeInv, Agree, NEW r \in Requests, NEW c \in Changes, Begin(r, c) PROVE Agree'
<1>1. /\ pc[r] = "idle" /\ pc'[r] = "load"
      /\ \A s \in Requests \ {r} : pc'[s] = pc[s] /\ change'[s] = change[s] /\ copy'[s] = copy[s]
      /\ UNCHANGED <<now, config, pause, response, server, acked, disturbed, cleared>>
  BY DEF Begin, Goto, At, runtime, TypeInv, TypeOK
<1>2. Working' = Working \ {r}
  BY <1>1 DEF Working
<1> QED BY <1>1, <1>2, WaitsAgree

LEMMA RefuseAgrees ==
    ASSUME TypeInv, Agree, NEW r \in Requests, Refuse(r) PROVE Agree'
<1>1. /\ pc[r] \in {"load", "reload"} /\ pc'[r] = "idle"
      /\ \A s \in Requests \ {r} : pc'[s] = pc[s] /\ change'[s] = change[s] /\ copy'[s] = copy[s]
      /\ UNCHANGED <<now, config, pause, response, server, acked, disturbed, cleared>>
  BY DEF Refuse, Answered, At, runtime, TypeInv, TypeOK
<1>2. Working' = Working \ {r}
  BY <1>1 DEF Working
<1> QED BY <1>1, <1>2, WaitsAgree

(* Who loads the row while others work disturbs what any of them changes.  *)
LEMMA LoadAgrees ==
    ASSUME TypeInv, Agree, NEW r \in Requests, Load(r) PROVE Agree'
<1>1. /\ pc[r] = "load"
      /\ copy'[r] = Merged(Persistable(change[r]), config)
      /\ pc'[r] = IF copy'[r]["dns"] # config["dns"] THEN "reload" ELSE "save"
      /\ \A s \in Requests \ {r} : pc'[s] = pc[s] /\ copy'[s] = copy[s]
      /\ UNCHANGED <<now, config, change, pause, response, server, acked, cleared>>
  BY DEF Load, Goto, At, runtime, TypeInv, TypeOK
<1>2. change[r] \in Asked /\ DOMAIN change[r] \subseteq Fields /\ config \in Rows
  BY <1>1 DEF TypeInv, TypeOK
<1>3. \A f \in Fields :
         copy'[r][f] = IF f \in DOMAIN change[r] THEN Persistable(change[r])[f] ELSE config[f]
  BY <1>1, <1>2, MergedFacts
<1>4. /\ disturbed \subseteq disturbed'
      /\ Working # {} => \A s \in Working \cup {r} : DOMAIN change[s] \subseteq disturbed'
  BY DEF Load, Meets, Disturbs
<1>5. Working' = Working \cup {r} /\ r \notin Working
  BY <1>1 DEF Working
<1>6. OverlapInv'
  <2> SUFFICES ASSUME NEW s \in Working', NEW u \in Working', s # u
               PROVE  DOMAIN change'[s] \subseteq disturbed'
    BY DEF OverlapInv
  <2>1. Working # {} /\ s \in Working \cup {r}
    BY <1>5
  <2> QED BY <1>1, <1>4, <2>1
<1>7. CopyInv'
  <2> SUFFICES ASSUME NEW s \in Working'
               PROVE  /\ \A f \in DOMAIN change'[s] : copy'[s][f] = Persistable(change'[s])[f]
                      /\ \A f \in Fields \ (disturbed' \cup DOMAIN change'[s]) : copy'[s][f] = config'[f]
    BY DEF CopyInv, Persistable, Saved
  <2>1. CASE s = r
    BY <1>1, <1>2, <1>3, <2>1
  <2>2. CASE s # r
    <3>1. s \in Working /\ copy'[s] = copy[s] /\ change'[s] = change[s] /\ config' = config
      BY <1>1, <1>5, <2>2 DEF Working
    <3> QED BY <1>4, <3>1 DEF Agree, CopyInv
  <2> QED BY <2>1, <2>2
<1>8. "dns" \notin DOMAIN change[r] => pc'[r] = "save"
  BY <1>1, <1>3 DEF Fields
<1>9. "dns" \in DOMAIN change[r] \ disturbed' /\ pc'[r] = "save" => server = copy'[r]["dns"]
  <2> SUFFICES ASSUME "dns" \in DOMAIN change[r] \ disturbed', pc'[r] = "save"
               PROVE  server = copy'[r]["dns"]
    OBVIOUS
  <2>1. Working = {} /\ "dns" \notin disturbed
    BY <1>4
  <2>2. ~Reloaded
    BY <2>1 DEF Reloaded, Working
  <2>3. server = config["dns"]
    BY <2>1, <2>2 DEF Agree, RuntimeInv
  <2> QED BY <1>1, <2>3
<1>10. WroteInv'
  <2> SUFFICES ASSUME NEW s \in Requests
               PROVE  /\ pc'[s] = "reload" => "dns" \in DOMAIN change'[s]
                      /\ pc'[s] = "save" /\ "dns" \in DOMAIN change'[s] \ disturbed' =>
                            server' = copy'[s]["dns"]
                      /\ pc'[s] = "apply" =>
                            \A f \in DOMAIN change'[s] \ disturbed' : config'[f] = copy'[s][f]
    BY DEF WroteInv
  <2>1. CASE s = r
    BY <1>1, <1>8, <1>9, <2>1
  <2>2. CASE s # r
    BY <1>1, <1>4, <2>2 DEF Agree, WroteInv
  <2> QED BY <2>1, <2>2
<1>11. \A f : Settled(f)' => Settled(f)
  BY <1>1 DEF Settled
<1>12. Reloaded => Reloaded'
  BY <1>1 DEF Reloaded
<1>13. RuntimeInv'
  BY <1>1, <1>4, <1>11, <1>12 DEF Agree, RuntimeInv, Saved
<1>14. KeptInv'
  BY <1>1, <1>4, <1>11, AckedFacts, StaysKept
<1> QED BY <1>6, <1>7, <1>10, <1>13, <1>14 DEF Agree

LEMMA ReloadServerAgrees ==
    ASSUME TypeInv, Agree, NEW r \in Requests, ReloadServer(r) PROVE Agree'
<1>1. /\ pc[r] = "reload" /\ pc'[r] = "save" /\ server' = copy[r]["dns"]
      /\ \A s \in Requests \ {r} : pc'[s] = pc[s]
      /\ UNCHANGED <<now, config, copy, change, pause, response, acked, disturbed, cleared>>
  BY DEF ReloadServer, Goto, At, TypeInv, TypeOK
<1>2. Working' = Working /\ r \in Working
  BY <1>1 DEF Working
<1>3. OverlapInv' /\ CopyInv'
  BY <1>1, <1>2 DEF Agree, OverlapInv, CopyInv, Persistable, Saved
<1>4. "dns" \in DOMAIN change[r]
  BY <1>1 DEF Agree, WroteInv
<1>5. \A s \in Requests : s # r /\ pc[s] = "save" => "dns" \in disturbed
  <2> SUFFICES ASSUME NEW s \in Requests, s # r, pc[s] = "save" PROVE "dns" \in disturbed
    OBVIOUS
  <2>1. s \in Working
    BY DEF Working
  <2> QED BY <1>2, <1>4, <2>1 DEF Agree, OverlapInv
<1>6. WroteInv'
  BY <1>1, <1>5 DEF Agree, WroteInv
<1>7. \A f : Settled(f)' => Settled(f)
  BY <1>1 DEF Settled
<1>8. Reloaded'
  BY <1>1, <1>4 DEF Reloaded
<1>9. RuntimeInv'
  BY <1>1, <1>7, <1>8 DEF Agree, RuntimeInv, Saved
<1>10. KeptInv'
  BY <1>1, <1>7, AckedFacts, StaysKept
<1> QED BY <1>3, <1>6, <1>9, <1>10 DEF Agree

(* A save puts back what others have saved only where it is disturbed.     *)
LEMMA SaveAgrees ==
    ASSUME TypeInv, Agree, NEW r \in Requests, Save(r) PROVE Agree'
<1>1. /\ pc[r] = "save" /\ pc'[r] = "apply" /\ config' = copy[r]
      /\ \A s \in Requests \ {r} : pc'[s] = pc[s]
      /\ UNCHANGED <<now, copy, change, pause, response, server, acked, disturbed, cleared>>
  BY DEF Save, Goto, At, runtime, TypeInv, TypeOK
<1>2. Working' = Working /\ r \in Working
  BY <1>1 DEF Working
<1>3. \A f \in Fields \ (disturbed \cup DOMAIN change[r]) : config'[f] = config[f]
  BY <1>1, <1>2 DEF Agree, CopyInv
<1>4. OverlapInv'
  BY <1>1, <1>2 DEF Agree, OverlapInv
<1>5. ASSUME NEW s \in Working, s # r
      PROVE  DOMAIN change[s] \subseteq disturbed /\ DOMAIN change[r] \subseteq disturbed
  BY <1>2, <1>5 DEF Agree, OverlapInv
<1>6. CopyInv'
  <2> SUFFICES ASSUME NEW s \in Working
               PROVE  /\ \A f \in DOMAIN change[s] : copy[s][f] = Persistable(change[s])[f]
                      /\ \A f \in Fields \ (disturbed \cup DOMAIN change[s]) : copy[s][f] = config'[f]
    BY <1>1, <1>2 DEF CopyInv, Persistable, Saved
  <2>1. CASE s = r
    BY <1>1, <1>2, <2>1 DEF Agree, CopyInv
  <2>2. CASE s # r
    <3>1. \A f \in Fields \ disturbed : config'[f] = config[f]
      BY <1>3, <1>5, <2>2
    <3> QED BY <3>1 DEF Agree, CopyInv
  <2> QED BY <2>1, <2>2
<1>7. WroteInv'
  <2> SUFFICES ASSUME NEW s \in Requests
               PROVE  /\ pc'[s] = "reload" => "dns" \in DOMAIN change[s]
                      /\ pc'[s] = "save" /\ "dns" \in DOMAIN change[s] \ disturbed =>
                            server = copy[s]["dns"]
                      /\ pc'[s] = "apply" =>
                            \A f \in DOMAIN change[s] \ disturbed : config'[f] = copy[s][f]
    BY <1>1 DEF WroteInv
  <2>1. CASE s = r
    BY <1>1, <2>1
  <2>2. CASE s # r
    <3>1. pc[s] = "apply" => DOMAIN change[s] \ disturbed = {}
      <4> SUFFICES ASSUME pc[s] = "apply" PROVE DOMAIN change[s] \subseteq disturbed
        OBVIOUS
      <4>1. s \in Working
        BY DEF Working
      <4> QED BY <1>5, <2>2, <4>1
    <3> QED BY <1>1, <2>2, <3>1 DEF Agree, WroteInv
  <2> QED BY <2>1, <2>2
<1>8. \A f : Settled(f)' => Settled(f) /\ f \notin DOMAIN change[r]
  BY <1>1 DEF Settled
<1>9. "pause" \in Fields /\ "dns" \in Fields /\ "response" \in Fields
  BY DEF Fields
<1>10. "dns" \notin disturbed /\ ~Reloaded' => server' = config'["dns"]
  <2> SUFFICES ASSUME "dns" \notin disturbed, ~Reloaded' PROVE server = config'["dns"]
    BY <1>1
  <2>1. CASE "dns" \in DOMAIN change[r]
    BY <1>1, <2>1 DEF Agree, WroteInv
  <2>2. CASE "dns" \notin DOMAIN change[r]
    <3>1. ~Reloaded
      BY <1>1, <2>2 DEF Reloaded
    <3> QED BY <1>3, <1>9, <2>2, <3>1 DEF Agree, RuntimeInv
  <2> QED BY <2>1, <2>2
<1>11. "response" \notin disturbed /\ Settled("response")' => response' = config'["response"]
  BY <1>1, <1>3, <1>8, <1>9 DEF Agree, RuntimeInv
<1>12. "pause" \notin disturbed /\ Settled("pause")' /\ pause.enabled => Saved(pause) = config'["pause"]
  BY <1>3, <1>8, <1>9 DEF Agree, RuntimeInv
<1>13. \A f \in Fields \ disturbed : Settled(f)' => config'[f] = acked'[f]
  BY <1>1, <1>3, <1>8 DEF Agree, RuntimeInv
<1>14. RuntimeInv'
  BY <1>1, <1>10, <1>11, <1>12, <1>13 DEF RuntimeInv, Saved
<1>15. KeptInv'
  BY <1>1, <1>8, AckedFacts, StaysKept
<1> QED BY <1>4, <1>6, <1>7, <1>14, <1>15 DEF Agree

(* A failed save, whether it has committed or not, disturbs its own field. *)
LEMMA SaveFailsAgrees ==
    ASSUME TypeInv, Agree, NEW r \in Requests, SaveFails(r) PROVE Agree'
<1>1. /\ pc[r] = "save" /\ pc'[r] = "idle" /\ config' \in {config, copy[r]}
      /\ \A s \in Requests \ {r} : pc'[s] = pc[s] /\ change'[s] = change[s] /\ copy'[s] = copy[s]
      /\ UNCHANGED <<now, pause, response, server, acked, cleared>>
      /\ disturbed' = disturbed \cup DOMAIN change[r]
  BY DEF SaveFails, Disturbs, Answered, At, runtime, TypeInv, TypeOK
<1>2. r \in Working /\ Working' = Working \ {r}
  BY <1>1 DEF Working
<1>3. \A f \in Fields \ disturbed' : config'[f] = config[f]
  BY <1>1, <1>2 DEF Agree, CopyInv
<1>4. \A s \in Working' : s # r /\ s \in Working /\ s \in Requests
                              /\ change'[s] = change[s] /\ copy'[s] = copy[s]
  BY <1>1, <1>2 DEF Working
<1>5. OverlapInv'
  BY <1>1, <1>4 DEF Agree, OverlapInv
<1>6. CopyInv'
  <2> SUFFICES ASSUME NEW s \in Working'
               PROVE  /\ \A f \in DOMAIN change[s] : copy[s][f] = Persistable(change[s])[f]
                      /\ \A f \in Fields \ (disturbed' \cup DOMAIN change[s]) : copy[s][f] = config'[f]
    BY <1>4 DEF CopyInv, Persistable, Saved
  <2> QED BY <1>1, <1>3, <1>4 DEF Agree, CopyInv
<1>7. WroteInv'
  <2> SUFFICES ASSUME NEW s \in Requests
               PROVE  /\ pc'[s] = "reload" => "dns" \in DOMAIN change'[s]
                      /\ pc'[s] = "save" /\ "dns" \in DOMAIN change'[s] \ disturbed' =>
                            server' = copy'[s]["dns"]
                      /\ pc'[s] = "apply" =>
                            \A f \in DOMAIN change'[s] \ disturbed' : config'[f] = copy'[s][f]
    BY DEF WroteInv
  <2>1. CASE s = r
    BY <1>1, <2>1
  <2>2. CASE s # r
    <3>1. DOMAIN change[s] \subseteq Fields
      BY DEF TypeInv, TypeOK
    <3> QED BY <1>1, <1>3, <2>2, <3>1 DEF Agree, WroteInv
  <2> QED BY <2>1, <2>2
<1>8. \A f : Settled(f)' => Settled(f)
  BY <1>1 DEF Settled
<1>9. "dns" \notin disturbed' /\ Reloaded => Reloaded'
  BY <1>1 DEF Reloaded
<1>10. "pause" \in Fields /\ "dns" \in Fields /\ "response" \in Fields
  BY DEF Fields
<1>11. RuntimeInv'
  BY <1>1, <1>3, <1>8, <1>9, <1>10 DEF Agree, RuntimeInv, Saved
<1>12. KeptInv'
  BY <1>1, <1>8, AckedFacts, StaysKept
<1> QED BY <1>5, <1>6, <1>7, <1>11, <1>12 DEF Agree

LEMMA ApplyAgrees ==
    ASSUME TypeInv, Agree, NEW r \in Requests, Apply(r) PROVE Agree'
<1>1. /\ pc[r] = "apply" /\ pc'[r] = "idle"
      /\ IF "pause" \in DOMAIN change[r]
         THEN pause' = change[r]["pause"] /\ response' = response
         ELSE response' = copy[r]["response"] /\ pause' = pause
      /\ acked' = Merged(Persistable(change[r]), acked)
      /\ \A s \in Requests \ {r} : pc'[s] = pc[s] /\ change'[s] = change[s] /\ copy'[s] = copy[s]
      /\ cleared' = (cleared /\ "pause" \notin DOMAIN change[r])
      /\ UNCHANGED <<now, config, server, disturbed>>
  BY DEF Apply, Answered, At, TypeInv, TypeOK
<1>2. r \in Working /\ Working' = Working \ {r}
  BY <1>1 DEF Working
<1>3. change[r] \in Asked /\ acked \in Rows /\ DOMAIN change[r] \subseteq Fields
  BY <1>2, WorkingFacts DEF TypeInv
<1>4. /\ \A f \in DOMAIN change[r] : copy[r][f] = Persistable(change[r])[f]
      /\ \A f \in Fields \ (disturbed \cup DOMAIN change[r]) : copy[r][f] = config[f]
      /\ \A f \in DOMAIN change[r] \ disturbed : config[f] = copy[r][f]
  BY <1>1, <1>2 DEF Agree, CopyInv, WroteInv
<1>5. OverlapInv'
  BY <1>1, <1>2 DEF Agree, OverlapInv, Working
<1>6. CopyInv'
  <2> SUFFICES ASSUME NEW s \in Working'
               PROVE  /\ \A f \in DOMAIN change'[s] : copy'[s][f] = Persistable(change'[s])[f]
                      /\ \A f \in Fields \ (disturbed' \cup DOMAIN change'[s]) : copy'[s][f] = config'[f]
    BY DEF CopyInv, Persistable, Saved
  <2>1. s \in Working /\ change'[s] = change[s] /\ copy'[s] = copy[s]
    BY <1>1, <1>2 DEF Working
  <2> QED BY <1>1, <2>1 DEF Agree, CopyInv
<1>7. WroteInv'
  BY <1>1 DEF Agree, WroteInv
<1>8. \A f : f \notin DOMAIN change[r] /\ Settled(f)' => Settled(f)
  BY <1>1 DEF Settled
<1>9. Reloaded => Reloaded'
  BY <1>1 DEF Reloaded
<1>10. "pause" \in Fields /\ "dns" \in Fields /\ "response" \in Fields
  BY DEF Fields
<1>11. "response" \notin disturbed /\ Settled("response")' => response' = config["response"]
  <2> SUFFICES ASSUME "response" \notin disturbed, Settled("response")' PROVE response' = config["response"]
    OBVIOUS
  <2>1. CASE "pause" \in DOMAIN change[r]
    <3>1. "response" \notin DOMAIN change[r]
      BY <1>3, <2>1, AskedFacts
    <3>2. Settled("response")
      BY <1>8, <3>1
    <3> QED BY <1>1, <2>1, <3>2 DEF Agree, RuntimeInv
  <2>2. CASE "pause" \notin DOMAIN change[r]
    <3>1. copy[r]["response"] = config["response"]
      BY <1>4, <1>10
    <3> QED BY <1>1, <2>2, <3>1
  <2> QED BY <2>1, <2>2
<1>12. "pause" \notin disturbed /\ Settled("pause")' /\ pause'.enabled => Saved(pause') = config["pause"]
  <2> SUFFICES ASSUME "pause" \notin disturbed, Settled("pause")', pause'.enabled
               PROVE  Saved(pause') = config["pause"]
    OBVIOUS
  <2>1. CASE "pause" \in DOMAIN change[r]
    <3>1. Persistable(change[r])["pause"] = Saved(change[r]["pause"])
      BY <2>1 DEF Persistable
    <3>2. config["pause"] = Persistable(change[r])["pause"]
      BY <1>4, <2>1
    <3> QED BY <1>1, <2>1, <3>1, <3>2
  <2>2. CASE "pause" \notin DOMAIN change[r]
    <3>1. Settled("pause") /\ pause' = pause
      BY <1>1, <1>8, <2>2
    <3> QED BY <3>1 DEF Agree, RuntimeInv
  <2> QED BY <2>1, <2>2
<1>13. \A f \in Fields \ disturbed : Settled(f)' => config[f] = acked'[f]
  <2>1. \A f \in Fields :
           acked'[f] = IF f \in DOMAIN change[r] THEN Persistable(change[r])[f] ELSE acked[f]
    BY <1>1, <1>3, MergedFacts
  <2> QED BY <1>4, <1>8, <2>1 DEF Agree, RuntimeInv
<1>14. RuntimeInv'
  BY <1>1, <1>9, <1>11, <1>12, <1>13 DEF Agree, RuntimeInv, Saved
<1>15. KeptInv'
  <2>1. \A f \in Fields :
           acked'[f] = IF f \in DOMAIN change[r] THEN Persistable(change[r])[f] ELSE acked[f]
    BY <1>1, <1>3, MergedFacts
  <2>2. CASE "pause" \in DOMAIN change[r]
    <3>1. acked'["pause"] = Saved(change[r]["pause"])
      BY <1>10, <2>1, <2>2 DEF Persistable
    <3>2. change[r]["pause"] \in Pauses
      BY <1>3, <2>2, AskedFacts
    <3>3. acked'["pause"].enabled = pause'.enabled
      BY <1>1, <2>2, <3>1, <3>2, SavedOnce
    <3> QED BY <3>3 DEF KeptInv, InForce
  <2>3. CASE "pause" \notin DOMAIN change[r]
    <3>1. acked'["pause"] = acked["pause"] /\ pause' = pause /\ cleared' = cleared
      BY <1>1, <1>10, <2>1, <2>3 DEF TypeInv, TypeOK
    <3> QED BY <1>1, <1>8, <2>3, <3>1, AckedFacts, StaysKept
  <2> QED BY <2>2, <2>3
<1> QED BY <1>5, <1>6, <1>7, <1>14, <1>15 DEF Agree

LEMMA RestartAgrees == ASSUME TypeInv, Agree, Restart PROVE Agree'
<1>1. /\ pause' = IF Expired(config["pause"]) THEN Off ELSE config["pause"]
      /\ response' = config["response"]
      /\ server' = config["dns"]
      /\ \A r \in Requests : pc'[r] = "idle"
      /\ acked' = [f \in Fields |-> IF Quiet(f) THEN acked[f] ELSE config[f]]
      /\ config' = config /\ disturbed' = {} /\ now' = now
  BY DEF Restart
<1>2. Working' = {}
  BY <1>1 DEF Working
<1>3. OverlapInv' /\ CopyInv'
  BY <1>2 DEF OverlapInv, CopyInv
<1>4. WroteInv'
  BY <1>1 DEF WroteInv
<1>5. pause'.enabled => Saved(pause') = config["pause"]
  <2>1. config["pause"] \in Pauses /\ Whole(config)
    BY DEF TypeInv, Rows, IsRow
  <2>2. Saved(config["pause"]) = config["pause"]
    BY <2>1 DEF Whole, Saved, Pauses
  <2>3. ~Off.enabled
    BY DEF Off
  <2> QED BY <1>1, <2>2, <2>3
<1>6. \A f \in Fields : config[f] = acked'[f]
  <2>1. ASSUME NEW f \in Fields, Quiet(f) PROVE f \notin disturbed /\ Settled(f)
    BY <2>1 DEF Quiet, Touching, InFlight, Settled
  <2> QED BY <1>1, <2>1 DEF Agree, RuntimeInv
<1>7. RuntimeInv'
  BY <1>1, <1>5, <1>6 DEF RuntimeInv, Saved
<1>8. KeptInv'
  <2> SUFFICES ASSUME InForce(acked["pause"])' PROVE pause'.enabled
    BY DEF KeptInv
  <2>1. acked'["pause"] = config["pause"]
    BY <1>6 DEF Fields
  <2>2. config["pause"].enabled /\ ~Expired(config["pause"])
    <3>1. now \in Nat /\ config["pause"] \in Pauses
      BY ConfigRuntimeAssumption DEF TypeInv, TypeOK, IsRow
    <3> QED BY <1>1, <2>1, <3>1 DEF InForce, Expired, Pauses
  <2> QED BY <1>1, <2>2
<1> QED BY <1>3, <1>4, <1>7, <1>8 DEF Agree

(* What a reader that clears a pause leaves of what was said of it.        *)
LEMMA ClearPauseKeeps ==
    ASSUME TypeInv, Agree, NEW q \in Readers, ClearPause(q) PROVE KeptInv'
<1>1. /\ cleared' = (cleared \/ (pause.enabled /\ ~Expired(pause)))
      /\ UNCHANGED <<now, config, pc, change, acked, disturbed>>
  BY DEF ClearPause, requests
<1>2. Settled("pause")' => Settled("pause")
  BY <1>1 DEF Settled
<1>3. SUFFICES ASSUME "pause" \notin disturbed, Settled("pause"), ~cleared, ~cleared',
                      InForce(acked["pause"])
               PROVE  FALSE
  BY <1>1, <1>2 DEF KeptInv, InForce
<1>4. pause.enabled
  BY <1>3 DEF Agree, KeptInv
<1>5. Expired(pause)
  BY <1>1, <1>3, <1>4
<1>6. Saved(pause) = acked["pause"]
  BY <1>3, <1>4 DEF Agree, RuntimeInv, Fields
<1>7. acked["pause"].until = Truncated(pause.until)
  BY <1>6 DEF Saved, TypeInv, TypeOK, Pauses
<1>8. /\ pause.until \in Nat /\ pause.until >= Second /\ pause.until <= now
      /\ now \in Nat /\ Second \in Nat /\ Second > 0
  BY <1>5, ConfigRuntimeAssumption DEF Expired, TypeInv, TypeOK, Pauses
<1>9. Truncated(pause.until) \in 0 .. pause.until /\ Truncated(pause.until) >= Second
  BY <1>8, TruncatedOnce
<1>10. Truncated(pause.until) > 0 /\ Truncated(pause.until) <= now
  BY <1>8, <1>9
<1> QED BY <1>3, <1>7, <1>8, <1>9, <1>10 DEF InForce

(* The clock and the readers leave the row and its copies alone; a reader  *)
(* can only end a pause.                                                   *)
LEMMA QuietStepAgrees ==
    ASSUME Agree, pause' \in {pause, Off}, KeptInv',
           UNCHANGED <<config, response, server, pc, change, copy, acked, disturbed>>
    PROVE  Agree'
<1>1. Working' = Working
  BY DEF Working
<1>2. OverlapInv' /\ CopyInv' /\ WroteInv'
  BY <1>1 DEF Agree, OverlapInv, CopyInv, WroteInv, Persistable, Saved
<1>3. \A f : Settled(f)' <=> Settled(f)
  BY DEF Settled
<1>4. Reloaded' <=> Reloaded
  BY DEF Reloaded
<1>5. ~Off.enabled
  BY DEF Off
<1>6. "pause" \notin disturbed /\ Settled("pause") /\ pause'.enabled => Saved(pause') = config["pause"]
  BY <1>5 DEF Agree, RuntimeInv
<1>7. RuntimeInv'
  BY <1>3, <1>4, <1>6 DEF Agree, RuntimeInv, Saved
<1> QED BY <1>2, <1>7 DEF Agree

LEMMA InitInv == Init => IInv
BY InitTyped, InitAgrees DEF IInv

LEMMA StepInv == ASSUME IInv, [Next]_vars PROVE IInv'
<1>1. TypeInv'  BY StepTyped DEF IInv
<1>2. CASE UNCHANGED vars
  <2>1. KeptInv'
    BY <1>2, AckedFacts, StaysKept DEF vars, runtime, requests, IInv, Settled
  <2>2. QED  BY <1>1, <1>2, <2>1, QuietStepAgrees DEF vars, runtime, requests, IInv
<1>3. ASSUME NEW r \in Requests, Step(r) PROVE Agree'
  BY <1>3, BeginAgrees, LoadAgrees, RefuseAgrees, ReloadServerAgrees, SaveAgrees,
     SaveFailsAgrees, ApplyAgrees DEF Step, IInv
<1>4. CASE Tick \/ \E q \in Readers : LoadPause(q)
  <2>1. UNCHANGED <<config, pause, response, server, pc, change, copy, acked, disturbed, cleared>>
    BY <1>4 DEF Tick, LoadPause, runtime, requests
  <2>2. now' \in Nat /\ now' >= now
    BY <1>4, AckedFacts DEF Tick, LoadPause, IInv
  <2>3. KeptInv'
    BY <2>1, <2>2, AckedFacts, StaysKept DEF IInv, Settled
  <2>4. QED  BY <1>1, <2>1, <2>3, QuietStepAgrees DEF IInv
<1>5. ASSUME NEW q \in Readers, ClearPause(q) PROVE Agree'
  BY <1>1, <1>5, ClearPauseKeeps, QuietStepAgrees DEF ClearPause, requests, IInv
<1>6. CASE Restart
  BY <1>1, <1>6, RestartAgrees DEF IInv
<1> QED BY <1>1, <1>2, <1>3, <1>4, <1>5, <1>6 DEF Next, IInv

-----------------------------------------------------------------------------
(* Theorems.                                                               *)

(* The variables keep their types, whatever requests overlap.              *)
THEOREM TypeCorrect == Spec => []TypeOK
<1>1. TypeInv => TypeOK  BY DEF TypeInv
<1>2. QED  BY <1>1, InitTyped, StepTyped, PTL DEF Spec

(* What requests hold, and what row, runtime and answers are in the fields *)
(* that no overlap and no failed save has disturbed.                       *)
THEOREM InductiveInvariant == Spec => []IInv
<1>1. IInv /\ [Next]_vars => IInv'  BY StepInv
<1>2. QED  BY <1>1, InitInv, PTL DEF Spec

(* What the last answered request set is in the row, so that a restart     *)
(* keeps it, whatever requests for other fields overlap or fail            *)
(* (configStoreManager.Update in internal/admin/api.go).                   *)
THEOREM AnswersAreSaved == Spec => []AcknowledgedIsSaved
<1>1. IInv => AcknowledgedIsSaved
  <2> SUFFICES ASSUME IInv, NEW f \in Fields, Quiet(f) PROVE config[f] = acked[f]
    BY DEF AcknowledgedIsSaved
  <2>1. f \notin disturbed /\ Settled(f)
    BY DEF Quiet, Touching, InFlight, Settled
  <2>2. QED  BY <2>1 DEF IInv, Agree, RuntimeInv
<1>2. QED  BY <1>1, InductiveInvariant, PTL

(* The runtime follows the row in the fields nobody is changing, a pause   *)
(* is in force only if the row has it, and the row's is unless a reader    *)
(* that saw the one before it expired has cleared it; over crashes, and    *)
(* whatever requests for other fields overlap or fail                      *)
(* (blockingRuntimeController in internal/app/app.go,                      *)
(* Runtime.BlockingPause in internal/coreplugin/corehole.go).              *)
THEOREM RuntimeFollowsRow == Spec => []QuietRuntimeMatchesConfig
<1>1. IInv => QuietRuntimeMatchesConfig
  <2> SUFFICES ASSUME IInv PROVE QuietRuntimeMatchesConfig
    OBVIOUS
  <2>1. \A f : Quiet(f) => f \notin disturbed /\ Settled(f)
    BY DEF Quiet, Touching, InFlight, Settled
  <2>2. Quiet("dns") => ~Reloaded
    BY DEF Quiet, Touching, InFlight, Reloaded
  <2>3. Quiet("pause") /\ InForce(config["pause"]) /\ ~cleared => pause.enabled
    BY <2>1 DEF IInv, Agree, RuntimeInv, KeptInv, Fields
  <2>4. QED  BY <2>1, <2>2, <2>3 DEF IInv, Agree, RuntimeInv, QuietRuntimeMatchesConfig
<1>2. QED  BY <1>1, InductiveInvariant, PTL

-----------------------------------------------------------------------------
(* The queries the plugin serves.                                          *)

(* What a query has met in the runtimes there were during it.              *)
MetUnlocal(q) == \E r \in seen[q] : r.local # "match"
MetLocal(q) == \E r \in seen[q] : r.local = "match"
MetUnpaused(q) == \E r \in seen[q] : ~r.paused
MetDenial(q) == \E r \in seen[q] : r.decider = "block"
MetOpen(q) == \E r \in seen[q] : r.paused \/ r.decider = "allow"
MetMode(q, w) == \E r \in seen[q] : w = Plugin!Blocked(r.response, query[q].type)
MetCache(q, status) ==
    /\ status = "disabled" => \E r \in seen[q] : ~r.cache
    /\ status \in {"hit", "miss"} => \E r \in seen[q] : r.cache
    /\ status = "hit" => query[q].upstream = "" /\ ~query[q].error

(* What the chain has answered, and what it has returned.                  *)
Forwarded(q, w) ==
    \/ /\ w.answer = "forwarded" /\ w.rcode \in {"NOERROR", "NXDOMAIN"}
       /\ query[q].rcode = "NOERROR"
    \/ /\ w.answer = "empty" /\ w.rcode = "SERVFAIL"
       /\ query[q].rcode = "SERVFAIL" /\ query[q].error

(* The three ways to be done: the response, and the event.                 *)
DoneLocally(q, w, e) ==
    /\ w = [rcode |-> "NOERROR", answer |-> "local"]
    /\ e.action = "allow" /\ e.rcode = "NOERROR" /\ e.cacheStatus = "bypass"
    /\ MetLocal(q)

DoneBlocked(q, w, e) ==
    /\ w.answer \in {"empty", "null"} /\ w.rcode # "SERVFAIL"
    /\ e.action = "block" /\ e.rcode = w.rcode /\ e.cacheStatus = "bypass"
    /\ MetUnlocal(q) /\ MetUnpaused(q) /\ MetDenial(q) /\ MetMode(q, w)

DoneForwarded(q, w, e) ==
    /\ Forwarded(q, w)
    /\ e.action = "allow" /\ e.rcode = query[q].rcode /\ MetCache(q, e.cacheStatus)
    /\ MetUnlocal(q) /\ MetOpen(q)

DoneInv(q) ==
    /\ Len(wrote[q]) = 1 /\ Len(events[q]) = 1
    /\ \/ DoneLocally(q, Plugin!Response(q), Plugin!Event(q))
       \/ DoneBlocked(q, Plugin!Response(q), Plugin!Event(q))
       \/ DoneForwarded(q, Plugin!Response(q), Plugin!Event(q))

QueryInv(q) ==
    /\ IsFiniteSet(seen[q])
    /\ query[q].at # "none" => stored \in seen[q]
    /\ query[q].at \in {"local", "pause", "decider", "block", "forward"} => wrote[q] = <<>>
    /\ query[q].at \in {"local", "pause", "decider", "block", "forward", "record"} => events[q] = <<>>
    /\ query[q].at \in {"pause", "decider", "block", "forward", "record"} => MetUnlocal(q)
    /\ query[q].at \in {"decider", "block"} => MetUnpaused(q)
    /\ query[q].at = "block" => MetDenial(q)
    /\ query[q].at \in {"forward", "record"} => MetOpen(q)
    /\ query[q].at = "record" => Len(wrote[q]) = 1 /\ Forwarded(q, Plugin!Response(q))
    /\ query[q].at = "done" => DoneInv(q)

ServingInv ==
    /\ Plugin!TypeOK /\ DOMAIN events = ClientQueries
    /\ \A q \in ClientQueries : QueryInv(q)

-----------------------------------------------------------------------------
(* The two modules count alike.                                            *)
LEMMA SameCount == ASSUME NEW S PROVE Plugin!Cardinality(S) = Cardinality(S)
BY DEF Plugin!Cardinality, Cardinality, Plugin!IsFiniteSet, IsFiniteSet

LEMMA ServingInit == ASSUME Plugin!ServeDNSAssumption, Plugin!Init PROVE ServingInv
<1>1. Plugin!TypeOK
  <2>1. Plugin!NoQuery \in Plugin!QueryStates
    BY DEF Plugin!NoQuery, Plugin!QueryStates, Plugin!QTypes
  <2> QED BY <2>1 DEF Plugin!Init, Plugin!TypeOK, Plugin!ServeDNSAssumption
<1>2. ASSUME NEW q \in ClientQueries PROVE QueryInv(q)
  <2>1. query[q].at = "none" /\ seen[q] = {}
    BY DEF Plugin!Init, Plugin!NoQuery
  <2> QED BY <2>1, FS_EmptySet DEF QueryInv
<1> QED BY <1>1, <1>2 DEF Plugin!Init, ServingInv

(* What is stored comes after what was.                                    *)
LEMMA MetMore ==
    ASSUME NEW q \in ClientQueries, seen[q] \subseteq seen'[q], query'[q] = query[q],
           wrote'[q] = wrote[q], events'[q] = events[q],
           IsFiniteSet(seen[q])', query[q].at # "none" => stored' \in seen'[q],
           QueryInv(q)
    PROVE  QueryInv(q)'
<1>1. /\ MetUnlocal(q) => MetUnlocal(q)'
      /\ MetLocal(q) => MetLocal(q)'
      /\ MetUnpaused(q) => MetUnpaused(q)'
      /\ MetDenial(q) => MetDenial(q)'
      /\ MetOpen(q) => MetOpen(q)'
  BY DEF MetUnlocal, MetLocal, MetUnpaused, MetDenial, MetOpen
<1>2. /\ \A w : MetMode(q, w) => MetMode(q, w)'
      /\ \A status : MetCache(q, status) => MetCache(q, status)'
      /\ \A w : Forwarded(q, w) => Forwarded(q, w)'
      /\ Plugin!Response(q)' = Plugin!Response(q) /\ Plugin!Event(q)' = Plugin!Event(q)
  BY DEF MetMode, MetCache, Forwarded, Plugin!Response, Plugin!Event
<1>3. DoneInv(q) => DoneInv(q)'
  BY <1>1, <1>2 DEF DoneInv, DoneLocally, DoneBlocked, DoneForwarded
<1> QED BY <1>1, <1>2, <1>3 DEF QueryInv

LEMMA StoreKeeps == ASSUME Plugin!ServeDNSAssumption, ServingInv, Plugin!Store PROVE ServingInv'
<1>1. /\ stored' \in Plugin!Runtimes /\ changes' \in 0..MaxChanges /\ UNCHANGED <<query, wrote, events>>
      /\ seen' = [q \in ClientQueries |-> IF query[q].at = "none" THEN {} ELSE seen[q] \cup {stored'}]
  BY DEF Plugin!Store, ServingInv, Plugin!TypeOK, Plugin!ServeDNSAssumption
<1>2. Plugin!TypeOK'
  BY <1>1 DEF ServingInv, Plugin!TypeOK
<1>3. ASSUME NEW q \in ClientQueries PROVE QueryInv(q)'
  <2>1. CASE query[q].at = "none"
    BY <1>1, <2>1, FS_EmptySet DEF QueryInv
  <2>2. CASE query[q].at # "none"
    <3>1. seen'[q] = seen[q] \cup {stored'} /\ IsFiniteSet(seen[q])
      BY <1>1, <2>2 DEF ServingInv, QueryInv
    <3>2. IsFiniteSet(seen'[q])
      BY <3>1, FS_AddElement
    <3> QED BY <1>1, <3>1, <3>2, MetMore DEF ServingInv
  <2> QED BY <2>1, <2>2
<1> QED BY <1>1, <1>2, <1>3 DEF ServingInv

(* A query's own step leaves the others alone.                             *)
LEMMA OwnStep ==
    ASSUME ServingInv, NEW q \in ClientQueries, UNCHANGED <<stored, changes>>, QueryInv(q)',
           NEW record \in Plugin!QueryStates, query' = [query EXCEPT ![q] = record],
           NEW responses \in Seq(Plugin!Responses), wrote' = [wrote EXCEPT ![q] = responses],
           DOMAIN events' = ClientQueries, \A p \in ClientQueries \ {q} : events'[p] = events[p],
           NEW met \in SUBSET Plugin!Runtimes, seen' = [seen EXCEPT ![q] = met]
    PROVE  ServingInv'
<1>1. Plugin!TypeOK' /\ DOMAIN events' = ClientQueries
  BY DEF ServingInv, Plugin!TypeOK
<1>2. ASSUME NEW p \in ClientQueries \ {q} PROVE QueryInv(p)'
  <2>1. query'[p] = query[p] /\ wrote'[p] = wrote[p] /\ events'[p] = events[p] /\ seen'[p] = seen[p]
    BY DEF ServingInv, Plugin!TypeOK
  <2>2. QueryInv(p) /\ IsFiniteSet(seen[p]) /\ (query[p].at # "none" => stored \in seen[p])
    BY DEF ServingInv, QueryInv
  <2> QED BY <2>1, <2>2, MetMore
<1> QED BY <1>1, <1>2 DEF ServingInv

LEMMA AskKeeps == ASSUME ServingInv, NEW q \in ClientQueries, Plugin!Ask(q) PROVE ServingInv'
<1>1. PICK type \in Plugin!QTypes : query' = [query EXCEPT ![q] = [Plugin!NoQuery EXCEPT !.at = "local", !.type = type]]
  BY DEF Plugin!Ask, Plugin!Become
<1> DEFINE record == [Plugin!NoQuery EXCEPT !.at = "local", !.type = type]
<1>2. /\ wrote' = [wrote EXCEPT ![q] = <<>>] /\ events' = [events EXCEPT ![q] = <<>>]
      /\ seen' = [seen EXCEPT ![q] = {stored}] /\ UNCHANGED <<stored, changes>> /\ stored \in Plugin!Runtimes
      /\ <<>> \in Seq(Plugin!Responses) /\ {stored} \in SUBSET Plugin!Runtimes
      /\ DOMAIN events' = ClientQueries /\ \A p \in ClientQueries \ {q} : events'[p] = events[p]
  BY DEF Plugin!Ask, ServingInv, Plugin!TypeOK
<1>3. record \in Plugin!QueryStates /\ record.at = "local"
  BY DEF Plugin!NoQuery, Plugin!QueryStates, Plugin!QTypes
<1> HIDE DEF record
<1>4. query'[q].at = "local" /\ wrote'[q] = <<>> /\ events'[q] = <<>> /\ seen'[q] = {stored}
  BY <1>1, <1>2, <1>3 DEF ServingInv, Plugin!TypeOK, record
<1>5. QueryInv(q)'
  BY <1>2, <1>4, FS_Singleton DEF QueryInv
<1>6. query' = [query EXCEPT ![q] = record]
  BY <1>1 DEF record
<1> QED BY <1>2, <1>3, <1>5, <1>6, OwnStep

(* A step to the next state, with nothing sent or recorded.                *)
LEMMA SilentStep ==
    ASSUME ServingInv, NEW q \in ClientQueries, NEW record \in Plugin!QueryStates, query' = [query EXCEPT ![q] = record],
           UNCHANGED <<stored, wrote, events, seen, changes>>,
           query[q].at \in {"local", "pause", "decider", "block", "forward"},
           \/ record.at = "pause" /\ MetUnlocal(q)
           \/ record.at = "decider" /\ MetUnlocal(q) /\ MetUnpaused(q)
           \/ record.at = "block" /\ MetUnlocal(q) /\ MetUnpaused(q) /\ MetDenial(q)
           \/ record.at = "forward" /\ MetUnlocal(q) /\ MetOpen(q)
    PROVE  ServingInv'
<1>1. /\ wrote' = [wrote EXCEPT ![q] = wrote[q]] /\ DOMAIN events' = ClientQueries
      /\ \A p \in ClientQueries \ {q} : events'[p] = events[p]
      /\ seen' = [seen EXCEPT ![q] = seen[q]] /\ wrote[q] \in Seq(Plugin!Responses) /\ seen[q] \in SUBSET Plugin!Runtimes
      /\ query'[q] = record /\ QueryInv(q)
  BY DEF ServingInv, Plugin!TypeOK
<1>2. QueryInv(q)'
  BY <1>1 DEF QueryInv, MetUnlocal, MetUnpaused, MetDenial, MetOpen
<1> QED BY <1>1, <1>2, OwnStep

LEMMA LoadsKeep ==
    ASSUME ServingInv, NEW q \in ClientQueries,
           Plugin!NotLocal(q) \/ Plugin!LoadPause(q) \/ Plugin!LoadDecider(q) PROVE ServingInv'
<1>1. /\ query[q] \in Plugin!QueryStates /\ QueryInv(q) /\ stored \in Plugin!Runtimes
      /\ UNCHANGED <<stored, wrote, events, seen, changes>>
  BY DEF ServingInv, Plugin!TypeOK, Plugin!NotLocal, Plugin!LoadPause, Plugin!LoadDecider
<1>2. CASE Plugin!NotLocal(q)
  <2> DEFINE failing == (stored.local = "failing")
             record == [query[q] EXCEPT !.at = "pause", !.failed = failing]
  <2>1. query[q].at = "local" /\ query' = [query EXCEPT ![q] = record] /\ stored.local # "match"
    BY <1>2 DEF Plugin!NotLocal, Plugin!Become
  <2>2. failing \in BOOLEAN
    OBVIOUS
  <2> HIDE DEF failing
  <2>3. record \in Plugin!QueryStates /\ record.at = "pause"
    BY <1>1, <2>2 DEF Plugin!QueryStates
  <2>4. MetUnlocal(q)
    BY <1>1, <2>1 DEF QueryInv, MetUnlocal
  <2> HIDE DEF record
  <2> QED BY <1>1, <2>1, <2>3, <2>4, SilentStep
<1>3. CASE Plugin!LoadPause(q)
  <2>1. query[q].at = "pause" /\ MetUnlocal(q) /\ stored \in seen[q]
    BY <1>1, <1>3 DEF Plugin!LoadPause, QueryInv
  <2>2. CASE stored.paused
    <3> DEFINE record == [query[q] EXCEPT !.at = "forward", !.reason = "blocking_paused"]
    <3>1. query' = [query EXCEPT ![q] = record]
      BY <1>3, <2>2 DEF Plugin!LoadPause, Plugin!Become
    <3>2. record \in Plugin!QueryStates /\ record.at = "forward"
      BY <1>1 DEF Plugin!QueryStates
    <3>3. MetOpen(q)
      BY <2>1, <2>2 DEF MetOpen
    <3> HIDE DEF record
    <3> QED BY <1>1, <2>1, <3>1, <3>2, <3>3, SilentStep
  <2>3. CASE ~stored.paused
    <3> DEFINE record == [query[q] EXCEPT !.at = "decider"]
    <3>1. query' = [query EXCEPT ![q] = record]
      BY <1>3, <2>3 DEF Plugin!LoadPause, Plugin!Become
    <3>2. record \in Plugin!QueryStates /\ record.at = "decider"
      BY <1>1 DEF Plugin!QueryStates
    <3>3. MetUnpaused(q)
      BY <2>1, <2>3 DEF MetUnpaused
    <3> HIDE DEF record
    <3> QED BY <1>1, <2>1, <3>1, <3>2, <3>3, SilentStep
  <2> QED BY <2>2, <2>3
<1>4. CASE Plugin!LoadDecider(q)
  <2>1. /\ query[q].at = "decider" /\ MetUnlocal(q) /\ MetUnpaused(q) /\ stored \in seen[q]
        /\ stored.decider \in {"allow", "block"}
    BY <1>1, <1>4 DEF Plugin!LoadDecider, QueryInv, Plugin!Runtimes
  <2>2. CASE stored.decider = "block"
    <3> DEFINE record == [query[q] EXCEPT !.at = "block", !.reason = "deny_match"]
    <3>1. query' = [query EXCEPT ![q] = record]
      BY <1>4, <2>2 DEF Plugin!LoadDecider, Plugin!Become
    <3>2. record \in Plugin!QueryStates /\ record.at = "block"
      BY <1>1 DEF Plugin!QueryStates
    <3>3. MetDenial(q)
      BY <2>1, <2>2 DEF MetDenial
    <3> HIDE DEF record
    <3> QED BY <1>1, <2>1, <3>1, <3>2, <3>3, SilentStep
  <2>3. CASE stored.decider = "allow"
    <3> DEFINE record == [query[q] EXCEPT !.at = "forward", !.reason = "no_match"]
    <3>1. query' = [query EXCEPT ![q] = record]
      BY <1>4, <2>3 DEF Plugin!LoadDecider, Plugin!Become
    <3>2. record \in Plugin!QueryStates /\ record.at = "forward"
      BY <1>1 DEF Plugin!QueryStates
    <3>3. MetOpen(q)
      BY <2>1, <2>3 DEF MetOpen
    <3> HIDE DEF record
    <3> QED BY <1>1, <2>1, <3>1, <3>2, <3>3, SilentStep
  <2> QED BY <2>1, <2>2, <2>3
<1> QED BY <1>2, <1>3, <1>4

(* A step that answers, or records, or both.                               *)
LEMMA Appended ==
    ASSUME NEW S, NEW x \in S PROVE Append(<<>>, x) \in Seq(S) /\ Len(Append(<<>>,
           x)) = 1 /\ Append(<<>>, x)[1] = x
OBVIOUS

LEMMA AnsweredKeeps == ASSUME ServingInv, NEW q \in ClientQueries, Plugin!Answered(q) PROVE ServingInv'
<1> DEFINE w == [rcode |-> "NOERROR", answer |-> "local"]
           e == [action |-> "allow", reason |-> "local_dns_match", rcode |-> "NOERROR", cacheStatus |-> "bypass"]
           record == [query[q] EXCEPT !.at = "done"]
<1>1. /\ query[q].at = "local" /\ stored.local = "match" /\ UNCHANGED <<stored, seen, changes>>
      /\ wrote[q] = <<>> /\ events[q] = <<>> /\ stored \in seen[q] /\ IsFiniteSet(seen[q])
      /\ query[q] \in Plugin!QueryStates /\ seen[q] \in SUBSET Plugin!Runtimes
      /\ seen' = [seen EXCEPT ![q] = seen[q]]
      /\ DOMAIN events = ClientQueries /\ DOMAIN wrote = ClientQueries /\ DOMAIN query = ClientQueries
  BY DEF Plugin!Answered, ServingInv, Plugin!TypeOK, QueryInv
<1>2. /\ wrote' = [wrote EXCEPT ![q] = Append(<<>>, w)]
      /\ events' = [events EXCEPT ![q] = Append(<<>>, e)]
      /\ DOMAIN events' = ClientQueries /\ \A p \in ClientQueries \ {q} : events'[p] = events[p]
      /\ query' = [query EXCEPT ![q] = record]
  BY <1>1 DEF Plugin!Answered, Plugin!Write, Plugin!Record, Plugin!Become
<1>3. record \in Plugin!QueryStates /\ record.at = "done" /\ w \in Plugin!Responses
  BY <1>1 DEF Plugin!QueryStates, Plugin!Responses
<1>4. w.rcode = "NOERROR" /\ e.action = "allow" /\ e.rcode = "NOERROR" /\ e.cacheStatus = "bypass"
  OBVIOUS
<1>5. w = [rcode |-> "NOERROR", answer |-> "local"]
  OBVIOUS
<1> HIDE DEF w, e, record
<1>6. Append(<<>>, w) \in Seq(Plugin!Responses)
  BY <1>3, Appended
<1>7. query'[q].at = "done" /\ Len(wrote'[q]) = 1 /\ Len(events'[q]) = 1 /\ wrote'[q][1] = w /\ events'[q][1] = e
  BY <1>1, <1>2, <1>3, Appended
<1>8. DoneLocally(q, w, e)'
  BY <1>1, <1>4, <1>5 DEF DoneLocally, MetLocal
<1>9. DoneInv(q)'
  BY <1>7, <1>8 DEF DoneInv, Plugin!Response, Plugin!Event
<1>10. QueryInv(q)'
  BY <1>1, <1>7, <1>9 DEF QueryInv
<1> QED BY <1>1, <1>2, <1>3, <1>6, <1>10, OwnStep

LEMMA BlockKeeps == ASSUME ServingInv, NEW q \in ClientQueries, Plugin!Block(q) PROVE ServingInv'
<1> DEFINE record == [query[q] EXCEPT !.at = "done"]
<1>w. PICK w : w = Plugin!Blocked(stored.response, query[q].type)
  OBVIOUS
<1>e. PICK e : e = [action |-> "block", reason |-> Plugin!Noted(q), rcode |-> w.rcode, cacheStatus |-> "bypass"]
  OBVIOUS
<1>1. /\ query[q].at = "block" /\ UNCHANGED <<stored, seen, changes>>
      /\ wrote[q] = <<>> /\ events[q] = <<>> /\ stored \in seen[q] /\ IsFiniteSet(seen[q])
      /\ query[q] \in Plugin!QueryStates /\ seen[q] \in SUBSET Plugin!Runtimes /\ stored \in Plugin!Runtimes
      /\ MetUnlocal(q) /\ MetUnpaused(q) /\ MetDenial(q)
      /\ seen' = [seen EXCEPT ![q] = seen[q]]
      /\ DOMAIN events = ClientQueries /\ DOMAIN wrote = ClientQueries /\ DOMAIN query = ClientQueries
  BY DEF Plugin!Block, ServingInv, Plugin!TypeOK, QueryInv
<1>2. w = [rcode |-> w.rcode, answer |-> w.answer] /\ w.rcode \in {"REFUSED", "NOERROR", "NXDOMAIN"}
      /\ w.answer \in {"empty", "null"}
  <2>1. stored.response \in {"nxdomain", "null-ip", "refused"} /\ query[q].type \in Plugin!QTypes
    BY <1>1 DEF Plugin!Runtimes, Plugin!QueryStates
  <2>2. CASE stored.response = "refused"
    BY <1>w, <2>2 DEF Plugin!Blocked
  <2>3. CASE stored.response = "null-ip" /\ query[q].type # "other"
    BY <1>w, <2>3 DEF Plugin!Blocked
  <2>4. CASE stored.response = "null-ip" /\ query[q].type = "other"
    BY <1>w, <2>4 DEF Plugin!Blocked
  <2>5. CASE stored.response = "nxdomain"
    BY <1>w, <2>5 DEF Plugin!Blocked
  <2> QED BY <2>1, <2>2, <2>3, <2>4, <2>5
<1>3. /\ wrote' = [wrote EXCEPT ![q] = Append(wrote[q], [rcode |-> w.rcode, answer |-> w.answer])]
      /\ events' = [events EXCEPT ![q] = Append(events[q], e)]
      /\ query' = [query EXCEPT ![q] = record]
  BY <1>w, <1>e DEF Plugin!Block, Plugin!Write, Plugin!Record, Plugin!Become
<1>4. record \in Plugin!QueryStates /\ record.at = "done" /\ record.type = query[q].type
  BY <1>1 DEF Plugin!QueryStates
<1>5. w \in Plugin!Responses
  BY <1>2 DEF Plugin!Responses
<1>6. e.action = "block" /\ e.rcode = w.rcode /\ e.cacheStatus = "bypass"
  BY <1>e
<1>7. MetMode(q, w)
  BY <1>w, <1>1 DEF MetMode
<1> HIDE DEF record
<1>8. /\ wrote' = [wrote EXCEPT ![q] = Append(<<>>, w)]
      /\ events' = [events EXCEPT ![q] = Append(<<>>, e)]
      /\ DOMAIN events' = ClientQueries /\ \A p \in ClientQueries \ {q} : events'[p] = events[p]
  BY <1>1, <1>2, <1>3
<1>9. Append(<<>>, w) \in Seq(Plugin!Responses)
  BY <1>5, Appended
<1>10. /\ query'[q].at = "done" /\ query'[q].type = query[q].type
       /\ Len(wrote'[q]) = 1 /\ Len(events'[q]) = 1 /\ wrote'[q][1] = w /\ events'[q][1] = e
  BY <1>1, <1>3, <1>4, <1>8, Appended
<1>11. MetUnlocal(q)' /\ MetUnpaused(q)' /\ MetDenial(q)' /\ MetMode(q, w)'
  BY <1>1, <1>7, <1>10 DEF MetUnlocal, MetUnpaused, MetDenial, MetMode
<1>12. DoneBlocked(q, w, e)'
  BY <1>2, <1>6, <1>11 DEF DoneBlocked
<1>13. DoneInv(q)'
  BY <1>10, <1>12 DEF DoneInv, Plugin!Response, Plugin!Event
<1>14. QueryInv(q)'
  BY <1>1, <1>10, <1>13 DEF QueryInv
<1> QED BY <1>1, <1>3, <1>4, <1>8, <1>9, <1>14, OwnStep

LEMMA ForwardKeeps == ASSUME ServingInv, NEW q \in ClientQueries, Plugin!Forward(q) PROVE ServingInv'
<1>1. /\ query[q].at = "forward" /\ UNCHANGED <<stored, events, seen, changes>>
      /\ wrote[q] = <<>> /\ events[q] = <<>> /\ stored \in seen[q] /\ IsFiniteSet(seen[q])
      /\ query[q] \in Plugin!QueryStates /\ seen[q] \in SUBSET Plugin!Runtimes
      /\ MetUnlocal(q) /\ MetOpen(q)
      /\ seen' = [seen EXCEPT ![q] = seen[q]]
      /\ DOMAIN events = ClientQueries /\ DOMAIN wrote = ClientQueries /\ DOMAIN query = ClientQueries
  BY DEF Plugin!Forward, ServingInv, Plugin!TypeOK, QueryInv
<1>2. \E w \in Plugin!Responses, record \in Plugin!QueryStates :
        /\ wrote' = [wrote EXCEPT ![q] = Append(wrote[q], w)] /\ query' = [query EXCEPT ![q] = record]
        /\ record.at = "record"
        /\ \/ /\ w.answer = "forwarded" /\ w.rcode \in {"NOERROR", "NXDOMAIN"} /\ record.rcode = "NOERROR"
           \/ /\ w.answer = "empty" /\ w.rcode = "SERVFAIL" /\ record.rcode = "SERVFAIL" /\ record.error
  <2>1. CASE \E upstream \in {"", "upstream"}, rcode \in {"NOERROR", "NXDOMAIN"} :
            /\ Plugin!Write(q, rcode, "forwarded")
            /\ Plugin!Become(q, [query[q] EXCEPT !.at = "record", !.upstream = upstream, !.rcode = "NOERROR"])
    <3>1. PICK upstream \in {"", "upstream"}, rcode \in {"NOERROR", "NXDOMAIN"} :
            /\ Plugin!Write(q, rcode, "forwarded")
            /\ Plugin!Become(q, [query[q] EXCEPT !.at = "record", !.upstream = upstream, !.rcode = "NOERROR"])
      BY <2>1
    <3> DEFINE w == [rcode |-> rcode, answer |-> "forwarded"]
               record == [query[q] EXCEPT !.at = "record", !.upstream = upstream, !.rcode = "NOERROR"]
    <3>2. record \in Plugin!QueryStates /\ record.at = "record" /\ record.rcode = "NOERROR"
      BY <1>1 DEF Plugin!QueryStates
    <3>3. w \in Plugin!Responses /\ w.answer = "forwarded" /\ w.rcode \in {"NOERROR", "NXDOMAIN"}
      BY DEF Plugin!Responses
    <3>4. wrote' = [wrote EXCEPT ![q] = Append(wrote[q], w)] /\ query' = [query EXCEPT ![q] = record]
      BY <3>1 DEF Plugin!Write, Plugin!Become
    <3> HIDE DEF w, record
    <3> QED BY <3>2, <3>3, <3>4
  <2>2. CASE \E upstream \in {"", "upstream"} :
            /\ Plugin!Write(q, "SERVFAIL", "empty")
            /\ Plugin!Become(q, [query[q] EXCEPT !.at = "record", !.upstream = upstream,
                                          !.rcode = "SERVFAIL", !.error = TRUE])
    <3>1. PICK upstream \in {"", "upstream"} :
            /\ Plugin!Write(q, "SERVFAIL", "empty")
            /\ Plugin!Become(q, [query[q] EXCEPT !.at = "record", !.upstream = upstream,
                                          !.rcode = "SERVFAIL", !.error = TRUE])
      BY <2>2
    <3> DEFINE w == [rcode |-> "SERVFAIL", answer |-> "empty"]
               record == [query[q] EXCEPT !.at = "record", !.upstream = upstream,
                                          !.rcode = "SERVFAIL", !.error = TRUE]
    <3>2. record \in Plugin!QueryStates /\ record.at = "record" /\ record.rcode = "SERVFAIL" /\ record.error
      BY <1>1 DEF Plugin!QueryStates
    <3>3. w \in Plugin!Responses /\ w.answer = "empty" /\ w.rcode = "SERVFAIL"
      BY DEF Plugin!Responses
    <3>4. wrote' = [wrote EXCEPT ![q] = Append(wrote[q], w)] /\ query' = [query EXCEPT ![q] = record]
      BY <3>1 DEF Plugin!Write, Plugin!Become
    <3> HIDE DEF w, record
    <3> QED BY <3>2, <3>3, <3>4
  <2> QED BY <2>1, <2>2 DEF Plugin!Forward
<1>3. PICK w \in Plugin!Responses, record \in Plugin!QueryStates :
        /\ wrote' = [wrote EXCEPT ![q] = Append(wrote[q], w)] /\ query' = [query EXCEPT ![q] = record]
        /\ record.at = "record"
        /\ \/ /\ w.answer = "forwarded" /\ w.rcode \in {"NOERROR", "NXDOMAIN"} /\ record.rcode = "NOERROR"
           \/ /\ w.answer = "empty" /\ w.rcode = "SERVFAIL" /\ record.rcode = "SERVFAIL" /\ record.error
  BY <1>2
<1>4. /\ wrote' = [wrote EXCEPT ![q] = Append(<<>>, w)] /\ Append(<<>>, w) \in Seq(Plugin!Responses)
      /\ wrote'[q] = Append(<<>>, w)
      /\ DOMAIN events' = ClientQueries /\ \A p \in ClientQueries \ {q} : events'[p] = events[p]
  BY <1>1, <1>3, Appended
<1>5. query'[q] = record /\ Len(wrote'[q]) = 1 /\ wrote'[q][1] = w
  BY <1>1, <1>3, <1>4, Appended
<1>6. Forwarded(q, w)'
  BY <1>3, <1>5 DEF Forwarded
<1>7. MetUnlocal(q)' /\ MetOpen(q)'
  BY <1>1 DEF MetUnlocal, MetOpen
<1>8. QueryInv(q)'
  BY <1>1, <1>3, <1>5, <1>6, <1>7 DEF QueryInv, Plugin!Response
<1> QED BY <1>1, <1>3, <1>4, <1>8, OwnStep

LEMMA RecordKeeps == ASSUME ServingInv, NEW q \in ClientQueries, Plugin!RecordForwarded(q) PROVE ServingInv'
<1> DEFINE record == [query[q] EXCEPT !.at = "done"]
<1>s. PICK status : status = Plugin!cacheStatus(stored.cache, query[q].upstream, query[q].error)
  OBVIOUS
<1>e. PICK e : e = [action |-> "allow", reason |-> Plugin!Noted(q), rcode |-> query[q].rcode, cacheStatus |-> status]
  OBVIOUS
<1>1. /\ query[q].at = "record" /\ UNCHANGED <<stored, wrote, seen, changes>>
      /\ events[q] = <<>> /\ stored \in seen[q] /\ IsFiniteSet(seen[q])
      /\ Len(wrote[q]) = 1 /\ Forwarded(q, wrote[q][1]) /\ wrote[q] \in Seq(Plugin!Responses)
      /\ query[q] \in Plugin!QueryStates /\ seen[q] \in SUBSET Plugin!Runtimes /\ stored \in Plugin!Runtimes
      /\ MetUnlocal(q) /\ MetOpen(q)
      /\ seen' = [seen EXCEPT ![q] = seen[q]] /\ wrote' = [wrote EXCEPT ![q] = wrote[q]]
      /\ DOMAIN events = ClientQueries /\ DOMAIN query = ClientQueries
  BY DEF Plugin!RecordForwarded, ServingInv, Plugin!TypeOK, QueryInv, Plugin!Response
<1>2. MetCache(q, status)
  <2>1. stored.cache \in BOOLEAN /\ query[q].error \in BOOLEAN
    BY <1>1 DEF Plugin!Runtimes, Plugin!QueryStates
  <2>2. CASE ~stored.cache
    BY <1>s, <1>1, <2>2 DEF MetCache, Plugin!cacheStatus
  <2>3. CASE stored.cache /\ query[q].upstream # ""
    BY <1>s, <1>1, <2>3 DEF MetCache, Plugin!cacheStatus
  <2>4. CASE stored.cache /\ query[q].upstream = "" /\ ~query[q].error
    BY <1>s, <1>1, <2>4 DEF MetCache, Plugin!cacheStatus
  <2>5. CASE stored.cache /\ query[q].upstream = "" /\ query[q].error
    BY <1>s, <1>1, <2>5 DEF MetCache, Plugin!cacheStatus
  <2> QED BY <2>2, <2>3, <2>4, <2>5
<1>3. e.action = "allow" /\ e.rcode = query[q].rcode /\ e.cacheStatus = status
  BY <1>e
<1>4. /\ record \in Plugin!QueryStates /\ record.at = "done" /\ record.rcode = query[q].rcode
      /\ record.error = query[q].error /\ record.upstream = query[q].upstream
  BY <1>1 DEF Plugin!QueryStates
<1>5. events' = [events EXCEPT ![q] = Append(events[q], e)] /\ query' = [query EXCEPT ![q] = record]
  BY <1>s, <1>e DEF Plugin!RecordForwarded, Plugin!Record, Plugin!Become
<1> HIDE DEF record
<1>6. /\ events'[q] = Append(<<>>, e) /\ query'[q] = record
      /\ DOMAIN events' = ClientQueries /\ \A p \in ClientQueries \ {q} : events'[p] = events[p]
  BY <1>1, <1>5
<1>7. /\ query'[q].at = "done" /\ Len(events'[q]) = 1 /\ events'[q][1] = e
      /\ query'[q].rcode = query[q].rcode
  BY <1>4, <1>6, Appended
<1>8. Forwarded(q, wrote[q][1])' /\ MetCache(q, status)'
  BY <1>1, <1>2, <1>4, <1>6 DEF Forwarded, MetCache
<1>9. MetUnlocal(q)' /\ MetOpen(q)'
  BY <1>1 DEF MetUnlocal, MetOpen
<1>10. DoneForwarded(q, wrote[q][1], e)'
  BY <1>3, <1>7, <1>8, <1>9 DEF DoneForwarded
<1>11. DoneInv(q)'
  BY <1>1, <1>7, <1>10 DEF DoneInv, Plugin!Response, Plugin!Event
<1>12. QueryInv(q)'
  BY <1>1, <1>7, <1>11 DEF QueryInv
<1> QED BY <1>1, <1>4, <1>5, <1>6, <1>12, OwnStep

LEMMA ServingStep == ASSUME Plugin!ServeDNSAssumption, ServingInv, [Plugin!Next]_(Plugin!vars) PROVE ServingInv'
<1>1. CASE UNCHANGED Plugin!vars
  <2>1. Plugin!TypeOK' /\ DOMAIN events' = ClientQueries
    BY <1>1 DEF Plugin!vars, ServingInv, Plugin!TypeOK
  <2>2. ASSUME NEW q \in ClientQueries PROVE QueryInv(q)'
    BY <1>1, <2>2, MetMore DEF Plugin!vars, ServingInv, QueryInv
  <2> QED BY <2>1, <2>2 DEF ServingInv
<1>2. CASE Plugin!Store
  BY <1>2, StoreKeeps
<1>3. ASSUME NEW q \in ClientQueries, Plugin!Ask(q) \/ Plugin!Serve(q) PROVE ServingInv'
  BY <1>3, AskKeeps, AnsweredKeeps, LoadsKeep, BlockKeeps, ForwardKeeps, RecordKeeps DEF Plugin!Serve
<1> QED BY <1>1, <1>2, <1>3 DEF Plugin!Next

(* A set of one member has no other.                                       *)
LEMMA OnlyOne ==
    ASSUME NEW S, IsFiniteSet(S), Cardinality(S) = 1, NEW x \in S, NEW y \in S PROVE x = y
<1>1. \E z : S = {z}
  BY FS_Singleton
<1> QED BY <1>1

LEMMA ServingGood == ASSUME ServingInv PROVE Plugin!TypeOK /\ Plugin!QueriesAnswered
<1>1. ASSUME NEW q \in ClientQueries, Plugin!Done(q)
      PROVE  /\ DoneInv(q) /\ IsFiniteSet(seen[q]) /\ seen[q] \in SUBSET Plugin!Runtimes
             /\ query[q] \in Plugin!QueryStates
  BY <1>1 DEF Plugin!Done, ServingInv, QueryInv, Plugin!TypeOK
<1>2. Plugin!EventTellsResponse
  BY <1>1 DEF Plugin!EventTellsResponse, DoneInv, DoneLocally, DoneBlocked, DoneForwarded, Forwarded
<1>3. Plugin!CacheStatusHonest
  BY <1>1 DEF Plugin!CacheStatusHonest, DoneInv, DoneLocally, DoneBlocked, DoneForwarded, Forwarded, MetCache
<1>4. Plugin!AnswerFromItsTime
  <2>1. ASSUME NEW q \in ClientQueries, Plugin!Done(q)
        PROVE  /\ Plugin!Event(q).action = "block" => MetUnlocal(q) /\ MetUnpaused(q) /\ MetDenial(q)
               /\ Plugin!Event(q).action # "block" /\ Plugin!Response(q).answer = "local" => MetLocal(q)
               /\ Plugin!Event(q).action # "block" /\ Plugin!Response(q).answer # "local" => MetUnlocal(q) /\ MetOpen(q)
    BY <1>1, <2>1 DEF DoneInv, DoneLocally, DoneBlocked, DoneForwarded, Forwarded
  <2> QED BY <2>1 DEF Plugin!AnswerFromItsTime, MetUnlocal, MetUnpaused, MetDenial, MetLocal, MetOpen
<1>5. Plugin!SteadyAnswer
  <2> SUFFICES ASSUME NEW q \in ClientQueries, Plugin!Done(q), Cardinality(seen[q]) = 1, NEW r \in seen[q]
               PROVE  Plugin!Response(q) \in Plugin!Expected(r, query[q].type)
    BY SameCount DEF Plugin!SteadyAnswer
  <2>1. DoneInv(q) /\ \A x \in seen[q] : x = r
    BY <1>1, OnlyOne
  <2>2. r \in Plugin!Runtimes /\ query[q].type \in Plugin!QTypes
    BY <1>1 DEF Plugin!QueryStates
  <2>3. CASE DoneLocally(q, Plugin!Response(q), Plugin!Event(q))
    BY <2>1, <2>3 DEF DoneLocally, MetLocal, Plugin!Expected
  <2>4. CASE DoneBlocked(q, Plugin!Response(q), Plugin!Event(q))
    <3>1. /\ r.local # "match" /\ ~r.paused /\ r.decider = "block"
          /\ Plugin!Response(q) = Plugin!Blocked(r.response, query[q].type)
      BY <2>1, <2>4 DEF DoneBlocked, MetUnlocal, MetUnpaused, MetDenial, MetMode
    <3>2. CASE r.response = "refused"
      BY <3>1, <3>2 DEF Plugin!Expected, Plugin!Blocked
    <3>3. CASE r.response = "null-ip" /\ query[q].type = "other"
      BY <3>1, <3>3 DEF Plugin!Expected, Plugin!Blocked
    <3>4. CASE r.response = "null-ip" /\ query[q].type \in {"A", "AAAA"}
      BY <3>1, <3>4 DEF Plugin!Expected, Plugin!Blocked
    <3>5. CASE r.response = "nxdomain"
      BY <3>1, <3>5 DEF Plugin!Expected, Plugin!Blocked
    <3> QED BY <2>2, <3>2, <3>3, <3>4, <3>5 DEF Plugin!Runtimes, Plugin!QTypes
  <2>5. CASE DoneForwarded(q, Plugin!Response(q), Plugin!Event(q))
    <3>1. r.local # "match" /\ (r.paused \/ r.decider = "allow") /\ Forwarded(q, Plugin!Response(q))
      BY <2>1, <2>5 DEF DoneForwarded, MetUnlocal, MetOpen
    <3>2. Plugin!Response(q) \in Plugin!Responses
      <4>1. wrote[q] \in Seq(Plugin!Responses) /\ Len(wrote[q]) = 1
        BY <2>1 DEF ServingInv, Plugin!TypeOK, DoneInv
      <4> QED BY <4>1 DEF Plugin!Response
    <3>3. Plugin!Response(q) = [rcode |-> Plugin!Response(q).rcode, answer |-> Plugin!Response(q).answer]
      BY <3>2 DEF Plugin!Responses
    <3> HIDE DEF Plugin!Response
    <3> QED BY <3>1, <3>3 DEF Plugin!Expected, Forwarded
  <2> QED BY <2>1, <2>3, <2>4, <2>5 DEF DoneInv
<1> QED BY <1>2, <1>3, <1>4, <1>5 DEF ServingInv, Plugin!QueriesAnswered

-----------------------------------------------------------------------------
(* The times of a pause.                                                   *)

(* An end may be in the past: a duration that wraps goes backwards.        *)
Times == Int \cup {None}

(* What was set for an end that was asked for: the same, or an earlier one *)
(* if the duration wrapped.                                                *)
SetFor(x, end, wrapped) ==
    /\ end \in Times /\ x \in Times /\ (x = None <=> end = None)
    /\ end # None => x <= end
    /\ ~wrapped => x = end

(* With x set for it, the runtime has the pause that was asked for, or its *)
(* saved form after a restart, or nothing once the saved form is over.     *)
Kept(x) ==
    /\ SetFor(x, promised.until, promised.wrapped)
    /\ savedPause.until = Pausing!Format(x)
    /\ heldPause.paused => promised.paused /\ heldPause.until \in {x, Pausing!Format(x)}
    /\ ~heldPause.paused /\ promised.paused => savedPause.until # None /\ savedPause.until <= clock

TruthTold ==
    told.status.paused /\ ~told.status.indefinite /\ promised.paused =>
        /\ promised.until # None
        /\ told.status.remaining * ClockSecond <= promised.until - told.at
        /\ ~promised.wrapped => promised.until - told.at < (told.status.remaining + 2) * ClockSecond

PauseInv ==
    /\ clock \in Nat
    /\ promised.paused \in BOOLEAN /\ promised.wrapped \in BOOLEAN
    /\ savedPause.paused = promised.paused
    /\ heldPause.paused \in BOOLEAN
    /\ parsed # None => parsed.wrapped \in BOOLEAN /\ SetFor(parsed.until, parsed.asked, parsed.wrapped)
    /\ \E x \in Times : Kept(x)
    /\ TruthTold

-----------------------------------------------------------------------------
LEMMA WholeSeconds ==
    ASSUME Pausing!PauseRequestAssumption, NEW t \in Int
    PROVE  /\ t \div ClockSecond \in Int /\ (t \div ClockSecond) * ClockSecond \in Int
           /\ (t \div ClockSecond) * ClockSecond <= t /\ t < (t \div ClockSecond) * ClockSecond + ClockSecond
BY DEF Pausing!PauseRequestAssumption

LEMMA TwoMore ==
    ASSUME Pausing!PauseRequestAssumption, NEW n \in Int
    PROVE  n * ClockSecond \in Int /\ (n + 2) * ClockSecond = n * ClockSecond + ClockSecond + ClockSecond
BY DEF Pausing!PauseRequestAssumption

(* What a product that wraps leaves is less than the product.              *)
LEMMA Wraps ==
    ASSUME Pausing!PauseRequestAssumption, NEW n \in Nat
    PROVE  /\ Pausing!Duration(n) \in Int /\ Pausing!Duration(n) <= n
           /\ n < Half => Pausing!Duration(n) = n
<1> DEFINE m == 2 * Half
           a == n + Half
<1>1. Half \in Nat /\ Half > 0 /\ m \in Nat /\ m > 0 /\ a \in Nat
  BY DEF Pausing!PauseRequestAssumption
<1>2. Pausing!Duration(n) = (a % m) - Half
  BY DEF Pausing!Duration
<1>3. n < Half => a < m
  BY <1>1
<1> HIDE DEF m
<1>4. n = a - Half
  BY <1>1
<1> HIDE DEF a
<1>5. a % m \in Nat /\ a % m <= a /\ (a < m => a % m = a)
  BY <1>1
<1> QED BY <1>1, <1>2, <1>3, <1>4, <1>5

LEMMA Formatted ==
    ASSUME Pausing!PauseRequestAssumption, NEW end \in Times
    PROVE  /\ Pausing!Format(end) \in Times /\ (Pausing!Format(end) = None <=> end = None)
           /\ end # None => Pausing!Format(end) = Pausing!LastSecond(end) /\ end \in Int /\ Pausing!Format(end) \in Int
                            /\ Pausing!Format(end) <= end /\ end < Pausing!Format(end) + ClockSecond
<1>1. CASE end = None
  BY <1>1 DEF Pausing!Format, Times
<1>2. CASE end # None
  <2>1. end \in Int
    BY <1>2 DEF Times
  <2>2. Pausing!Format(end) = (end \div ClockSecond) * ClockSecond
    BY <1>2 DEF Pausing!Format
  <2> QED BY <1>2, <2>1, <2>2, WholeSeconds DEF Pausing!LastSecond, Times, Pausing!PauseRequestAssumption
<1> QED BY <1>1, <1>2

LEMMA PauseInit == ASSUME Pausing!PauseRequestAssumption, Pausing!Init PROVE PauseInv
<1>1. None \in Times /\ Kept(None)
  BY DEF Pausing!Init, Pausing!Off, Pausing!NoPromise, Pausing!Format, Times, Kept, SetFor
<1>2. TruthTold
  BY DEF Pausing!Init, Pausing!NoAnswer, TruthTold
<1> QED BY <1>1, <1>2 DEF Pausing!Init, PauseInv, Pausing!Off, Pausing!NoPromise

LEMMA ParseKeeps == ASSUME Pausing!PauseRequestAssumption, PauseInv, Pausing!Parse PROVE PauseInv'
<1>1. PICK r \in Pausing!Requests :
          Pausing!Valid(r) /\ parsed' = [until |-> Pausing!parseBlockingPauseUntil(r), asked |-> Pausing!Asked(r),
                                         wrapped |-> ~Pausing!Fits(r)]
  BY DEF Pausing!Parse
<1>2. UNCHANGED <<clock, savedPause, heldPause, told, promised>> /\ clock \in Nat
  BY DEF Pausing!Parse, PauseInv
<1>3. r.end \in Ends \cup {None} /\ r.duration \in AskedSeconds \cup {None}
  BY DEF Pausing!Requests
<1>4. SetFor(Pausing!parseBlockingPauseUntil(r), Pausing!Asked(r), ~Pausing!Fits(r))
  <2>1. CASE r.duration = None
    <3>1. Pausing!parseBlockingPauseUntil(r) = r.end /\ Pausing!Asked(r) = r.end
      BY <2>1 DEF Pausing!parseBlockingPauseUntil, Pausing!Asked
    <3>2. r.end \in Times /\ (r.end # None => r.end \in Int)
      <4>1. \A e \in Ends : e \in Int
        BY DEF Pausing!PauseRequestAssumption
      <4> QED BY <1>3, <4>1, Zenon DEF Times
    <3>3. Pausing!Fits(r)
      BY <2>1 DEF Pausing!Fits
    <3>4. SetFor(r.end, r.end, FALSE)
      BY <3>2 DEF SetFor
    <3> QED BY <3>1, <3>3, <3>4, Zenon
  <2>2. CASE r.duration # None
    <3>1. r.duration \in AskedSeconds /\ r.duration > 0 /\ r.duration \in Nat
      <4>1. r.duration > 0
        BY <1>1, <2>2 DEF Pausing!Valid
      <4>2. r.duration \in AskedSeconds /\ r.duration \in Int
        BY <1>3, <2>2 DEF Pausing!PauseRequestAssumption
      <4> QED BY <4>1, <4>2
    <3> DEFINE n == r.duration * ClockSecond
    <3>2. n \in Nat
      BY <3>1 DEF Pausing!PauseRequestAssumption
    <3>3. Pausing!parseBlockingPauseUntil(r) = clock + Pausing!Duration(n) /\ Pausing!Asked(r) = clock + n
      BY <2>2 DEF Pausing!parseBlockingPauseUntil, Pausing!Asked
    <3>4. Pausing!Fits(r) <=> n < Half
      BY <2>2 DEF Pausing!Fits
    <3>5. None \notin Int
      BY DEF Pausing!PauseRequestAssumption
    <3> HIDE DEF n
    <3>6. Pausing!Duration(n) \in Int /\ Pausing!Duration(n) <= n /\ (n < Half => Pausing!Duration(n) = n)
      BY <3>2, Wraps
    <3> QED BY <1>2, <3>2, <3>3, <3>4, <3>5, <3>6 DEF Times, SetFor
  <2> QED BY <2>1, <2>2
<1>5. parsed'.wrapped \in BOOLEAN /\ SetFor(parsed'.until, parsed'.asked, parsed'.wrapped)
  BY <1>1, <1>4 DEF Pausing!Fits
<1>6. (\E x \in Times : Kept(x))' /\ TruthTold'
  BY <1>2 DEF PauseInv, Kept, TruthTold
<1> QED BY <1>2, <1>5, <1>6 DEF PauseInv

(* What is answered of a pause: nothing, or seconds it has.                *)
LEMMA StatusHonest ==
    ASSUME Pausing!PauseRequestAssumption, clock \in Nat, NEW p \in Times, NEW end \in {p, Pausing!Format(p)},
           NEW held, held.paused \in BOOLEAN, held.paused => held.until = end,
           Pausing!BlockingStatusFromPause(held).paused, ~Pausing!BlockingStatusFromPause(held).indefinite
    PROVE  /\ p # None /\ Pausing!BlockingStatusFromPause(held).remaining * ClockSecond \in Int
           /\ Pausing!BlockingStatusFromPause(held).remaining * ClockSecond <= p - clock
           /\ p - clock < (Pausing!BlockingStatusFromPause(held).remaining + 2) * ClockSecond
<1> DEFINE status == Pausing!BlockingStatusFromPause(held)
<1>1. held.paused /\ held.until = end /\ ~(end # None /\ end <= clock)
  <2>1. ~Pausing!NoAnswer.paused
    BY DEF Pausing!NoAnswer
  <2> QED BY <2>1 DEF Pausing!BlockingStatusFromPause
<1>2. end # None
  BY <1>1 DEF Pausing!BlockingStatusFromPause
<1>3. status.remaining = (end - clock) \div ClockSecond
  BY <1>1, <1>2 DEF Pausing!BlockingStatusFromPause
<1>4. /\ p # None /\ p \in Int /\ end \in Int /\ end <= p /\ p < end + ClockSecond
      /\ ClockSecond \in Nat /\ ClockSecond > 0
  BY <1>2, Formatted DEF Times, Pausing!PauseRequestAssumption
<1>5. end - clock \in Int
  BY <1>4
<1> DEFINE n == (end - clock) \div ClockSecond
<1>6. n \in Int /\ n * ClockSecond <= end - clock /\ end - clock < n * ClockSecond + ClockSecond
  BY <1>5, WholeSeconds
<1> HIDE DEF n
<1>7. n * ClockSecond \in Int /\ (n + 2) * ClockSecond = n * ClockSecond + ClockSecond + ClockSecond
  BY <1>6, TwoMore
<1>8. status.remaining = n
  BY <1>3 DEF n
<1>9. n * ClockSecond <= p - clock /\ p - clock < (n + 2) * ClockSecond
  BY <1>4, <1>6, <1>7
<1> QED BY <1>4, <1>7, <1>8, <1>9

(* And so of the pause that was asked for.                                 *)
LEMMA ToldTruth ==
    ASSUME Pausing!PauseRequestAssumption, clock' \in Nat, clock' = clock,
           NEW x \in Times, SetFor(x, promised'.until, promised'.wrapped),
           NEW end \in {x, Pausing!Format(x)},
           heldPause'.paused \in BOOLEAN, heldPause'.paused => heldPause'.until = end,
           told'.status = Pausing!BlockingStatusFromPause(heldPause'), told'.at = clock
    PROVE  TruthTold'
<1> SUFFICES ASSUME told'.status.paused, ~told'.status.indefinite
             PROVE  /\ promised'.until # None
                    /\ told'.status.remaining * ClockSecond <= promised'.until - told'.at
                    /\ ~promised'.wrapped =>
                          promised'.until - told'.at < (told'.status.remaining + 2) * ClockSecond
  BY DEF TruthTold
<1>1. /\ x # None /\ told'.status.remaining * ClockSecond \in Int
      /\ told'.status.remaining * ClockSecond <= x - clock
      /\ x - clock < (told'.status.remaining + 2) * ClockSecond
  BY StatusHonest
<1>2. /\ promised'.until # None /\ promised'.until \in Int /\ x \in Int /\ x <= promised'.until
      /\ ~promised'.wrapped => x = promised'.until
  BY <1>1 DEF SetFor, Times
<1> QED BY <1>1, <1>2

LEMMA PauseKeeps == ASSUME Pausing!PauseRequestAssumption, PauseInv, Pausing!Pause PROVE PauseInv'
<1>1. /\ parsed # None /\ clock' = clock /\ clock \in Nat /\ parsed' = None
      /\ savedPause' = Pausing!PauseUntil(Pausing!Format(parsed.until))
      /\ heldPause' = Pausing!BlockingPause(Pausing!PauseUntil(parsed.until))
      /\ promised' = [paused |-> TRUE, until |-> parsed.asked, wrapped |-> parsed.wrapped]
      /\ parsed.wrapped \in BOOLEAN /\ SetFor(parsed.until, parsed.asked, parsed.wrapped)
      /\ told' = [status |-> Pausing!BlockingStatusFromPause(heldPause'), at |-> clock]
  BY DEF Pausing!Pause, PauseInv, Pausing!Status
<1>2. parsed.until \in Times
  BY <1>1 DEF SetFor
<1>3. /\ promised'.paused = TRUE /\ promised'.until = parsed.asked /\ promised'.wrapped = parsed.wrapped
      /\ savedPause'.paused = TRUE /\ savedPause'.until = Pausing!Format(parsed.until)
  BY <1>1 DEF Pausing!PauseUntil
<1>4. heldPause' = IF parsed.until # None /\ parsed.until <= clock THEN Pausing!Off ELSE Pausing!PauseUntil(parsed.until)
  BY <1>1 DEF Pausing!BlockingPause, Pausing!PauseUntil
<1>5. /\ heldPause'.paused \in BOOLEAN /\ (heldPause'.paused => heldPause'.until = parsed.until)
      /\ ~heldPause'.paused => parsed.until # None /\ parsed.until <= clock
  BY <1>4 DEF Pausing!Off, Pausing!PauseUntil
<1>6. ~heldPause'.paused => Pausing!Format(parsed.until) # None /\ Pausing!Format(parsed.until) <= clock
  BY <1>1, <1>2, <1>5, Formatted
<1> PICK x \in Times : x = parsed.until
  BY <1>2
<1>7. Kept(x)'
  BY <1>1, <1>3, <1>5, <1>6 DEF Kept
<1>8. TruthTold'
  BY <1>1, <1>2, <1>3, <1>5, ToldTruth
<1> QED BY <1>1, <1>2, <1>3, <1>5, <1>7, <1>8 DEF PauseInv

LEMMA GetStatusKeeps == ASSUME Pausing!PauseRequestAssumption, PauseInv, Pausing!GetStatus PROVE PauseInv'
<1>1. /\ clock' = clock /\ clock \in Nat /\ UNCHANGED <<savedPause, parsed, promised>>
      /\ heldPause' = Pausing!BlockingPause(heldPause)
      /\ told' = [status |-> Pausing!BlockingStatusFromPause(heldPause'), at |-> clock]
      /\ heldPause.paused \in BOOLEAN
  BY DEF Pausing!GetStatus, PauseInv, Pausing!Status
<1>2. PICK x \in Times : Kept(x)
  BY DEF PauseInv
<1>3. heldPause' = IF heldPause.paused /\ heldPause.until # None /\ heldPause.until <= clock THEN Pausing!Off ELSE heldPause
  BY <1>1 DEF Pausing!BlockingPause
<1>4. /\ heldPause'.paused \in BOOLEAN
      /\ heldPause'.paused => heldPause.paused /\ heldPause'.until = heldPause.until
      /\ ~heldPause'.paused => ~heldPause.paused \/ (heldPause.paused /\ heldPause.until # None /\ heldPause.until <= clock)
  <2>1. CASE heldPause.paused /\ heldPause.until # None /\ heldPause.until <= clock
    BY <1>3, <2>1 DEF Pausing!Off
  <2>2. CASE ~(heldPause.paused /\ heldPause.until # None /\ heldPause.until <= clock)
    <3>1. heldPause' = heldPause
      BY <1>3, <2>2
    <3> QED BY <1>1, <3>1
  <2> QED BY <2>1, <2>2
<1>5. /\ heldPause.paused => promised.paused /\ heldPause.until \in {x, Pausing!Format(x)}
      /\ savedPause.until = Pausing!Format(x) /\ SetFor(x, promised.until, promised.wrapped)
  BY <1>2 DEF Kept
<1>6. ~heldPause'.paused /\ promised.paused => savedPause.until # None /\ savedPause.until <= clock
  <2>1. CASE ~heldPause.paused
    BY <1>2, <2>1 DEF Kept
  <2>2. CASE heldPause.paused
    BY <1>1, <1>4, <1>5, <2>2, Formatted
  <2> QED BY <1>1, <2>1, <2>2
<1>7. Kept(x)'
  BY <1>1, <1>4, <1>5, <1>6 DEF Kept
<1>8. TruthTold'
  <2>1. told'.status = Pausing!BlockingStatusFromPause(heldPause') /\ told'.at = clock
    BY <1>1
  <2>2. CASE heldPause'.paused
    <3>1. PICK end \in {x, Pausing!Format(x)} : heldPause'.until = end
      BY <1>4, <1>5, <2>2
    <3> QED BY <1>1, <1>4, <1>5, <2>1, <3>1, ToldTruth
  <2>3. CASE ~heldPause'.paused
    BY <2>1, <2>3 DEF Pausing!BlockingStatusFromPause, Pausing!NoAnswer, TruthTold
  <2> QED BY <1>4, <2>2, <2>3
<1> QED BY <1>1, <1>4, <1>7, <1>8 DEF PauseInv

LEMMA OtherKeeps ==
    ASSUME Pausing!PauseRequestAssumption, PauseInv,
           Pausing!Resume \/ Pausing!Restart \/ Pausing!Tick \/ UNCHANGED Pausing!vars PROVE PauseInv'
<1>0. PICK x \in Times : Kept(x)
  BY DEF PauseInv
<1>1. CASE Pausing!Resume
  <2>1. told'.status = Pausing!BlockingStatusFromPause(Pausing!Off)
    BY <1>1 DEF Pausing!Resume, Pausing!Status
  <2>2. Kept(None)' /\ TruthTold'
    BY <1>1, <2>1 DEF Pausing!Resume, Pausing!Off, Pausing!NoPromise, Pausing!Format, Times, Kept, SetFor, TruthTold
  <2> QED BY <1>1, <2>2 DEF Pausing!Resume, PauseInv, Pausing!Off, Pausing!NoPromise, Times
<1>2. CASE Pausing!Restart
  <2>1. /\ UNCHANGED <<clock, savedPause, told, promised>> /\ parsed' = None /\ clock \in Nat
        /\ heldPause' = IF savedPause.paused /\ (savedPause.until = None \/ savedPause.until > clock) THEN savedPause ELSE Pausing!Off
    BY <1>2 DEF Pausing!Restart, Pausing!applyBlockingPause, PauseInv
  <2>2. /\ savedPause.paused = promised.paused /\ savedPause.paused \in BOOLEAN
        /\ savedPause.until = Pausing!Format(x)
    BY <1>0 DEF PauseInv, Kept
  <2>3. heldPause'.paused \in BOOLEAN /\ (heldPause'.paused => promised.paused /\ heldPause'.until = savedPause.until)
    BY <2>1, <2>2 DEF Pausing!Off
  <2>4. ~heldPause'.paused /\ promised.paused => savedPause.until # None /\ savedPause.until <= clock
    <3>1. savedPause.until # None => savedPause.until \in Int
      BY <2>2, Formatted
    <3>2. CASE savedPause.until = None \/ savedPause.until > clock
      <4>1. savedPause.paused => heldPause' = savedPause
        BY <2>1, <3>2
      <4> QED BY <2>2, <4>1
    <3>3. CASE ~(savedPause.until = None \/ savedPause.until > clock)
      BY <2>1, <3>1, <3>3
    <3> QED BY <3>2, <3>3
  <2>5. Kept(x)' /\ TruthTold'
    BY <1>0, <2>1, <2>2, <2>3, <2>4 DEF Kept, PauseInv, TruthTold
  <2> QED BY <2>1, <2>3, <2>5 DEF PauseInv
<1>3. CASE Pausing!Tick
  <2>1. UNCHANGED <<savedPause, heldPause, parsed, told, promised>> /\ clock' = clock + 1 /\ clock \in Nat
    BY <1>3 DEF Pausing!Tick, PauseInv
  <2>2. savedPause.until # None => savedPause.until \in Int
    BY <1>0, Formatted DEF Kept
  <2>3. Kept(x)' /\ TruthTold'
    BY <1>0, <2>1, <2>2 DEF Kept, PauseInv, TruthTold
  <2> QED BY <2>1, <2>3 DEF PauseInv
<1>4. CASE UNCHANGED Pausing!vars
  <2>1. Kept(x)' /\ TruthTold'
    BY <1>0, <1>4 DEF Pausing!vars, PauseInv, Kept, TruthTold
  <2> QED BY <1>4, <2>1 DEF Pausing!vars, PauseInv
<1> QED BY <1>1, <1>2, <1>3, <1>4

LEMMA PauseGood ==
    ASSUME Pausing!PauseRequestAssumption, PauseInv
    PROVE  Pausing!PausedUntilExpiry /\ Pausing!NeverPausedTooLong /\ Pausing!RemainingIsHonest
<1>0. PICK x \in Times : Kept(x)
  BY DEF PauseInv
<1>1. /\ clock \in Nat /\ promised.until \in Times /\ savedPause.until = Pausing!Format(x)
      /\ promised.paused \in BOOLEAN /\ heldPause.paused \in BOOLEAN /\ promised.wrapped \in BOOLEAN
      /\ heldPause.paused => promised.paused /\ heldPause.until \in {x, savedPause.until}
      /\ ~heldPause.paused /\ promised.paused => savedPause.until # None /\ savedPause.until <= clock
      /\ (x = None <=> promised.until = None) /\ (promised.until # None => x <= promised.until)
      /\ ~promised.wrapped => x = promised.until
  BY <1>0 DEF PauseInv, Kept, SetFor
<1>2. Pausing!Paused <=> heldPause.paused /\ ~(heldPause.until # None /\ heldPause.until <= clock)
  BY <1>1 DEF Pausing!Paused, Pausing!BlockingPause, Pausing!Off
<1>3. /\ Pausing!Format(x) \in Times /\ (Pausing!Format(x) = None <=> x = None)
      /\ x # None =>
            /\ Pausing!Format(x) = Pausing!LastSecond(x)
            /\ x \in Int /\ Pausing!Format(x) \in Int
            /\ Pausing!Format(x) <= x
  BY Formatted
<1>4. Pausing!PausedUntilExpiry
  <2> SUFFICES ASSUME promised.paused, ~promised.wrapped,
                      promised.until = None \/ clock < Pausing!LastSecond(promised.until) PROVE Pausing!Paused
    BY DEF Pausing!PausedUntilExpiry
  <2>1. x = promised.until
    BY <1>1
  <2> QED BY <1>1, <1>2, <1>3, <2>1
<1>5. Pausing!NeverPausedTooLong
  BY <1>1, <1>2, <1>3 DEF Pausing!NeverPausedTooLong, Times
<1>6. Pausing!RemainingIsHonest
  BY DEF Pausing!RemainingIsHonest, PauseInv, TruthTold
<1> QED BY <1>4, <1>5, <1>6

-----------------------------------------------------------------------------
(* The DNSSEC plugin and the cache before it.                              *)

(* What an answer that is not a failure may hold for the clients of a key. *)
FitFor(k, msg) ==
    /\ msg.rcode = "NOERROR" /\ msg.signed # "bogus"
    /\ ~Signed!clientRequestsDNSSEC(k) => msg.records \cap Signed!ProofTypes = {} /\ ~msg.do
    /\ k.do /\ msg.ad => "RRSIG" \in msg.records
    /\ k.do /\ msg.signed = "secure" => msg.ad

(* The cache has an answer without AD for the query.                       *)
Bare(q) == cache[Signed!KeyOf(q)] # NoMsg /\ ~cache[Signed!KeyOf(q)].ad

Messages ==
    [rcode : {"NOERROR", "SERVFAIL"}, ad : BOOLEAN, do : BOOLEAN,
     signed : {"secure", "insecure", "bogus"}, records : SUBSET {"A", "SOA", "NSEC", "RRSIG"}]

SigningInv ==
    /\ zone \in Zones /\ DOMAIN cache = Signed!Keys
    /\ \A k \in Signed!Keys : cache[k] # NoMsg => cache[k] \in Messages /\ FitFor(k, cache[k])
    /\ question # NoMsg =>
          /\ question \in Signed!Queries
          /\ reply.rcode = "NOERROR" =>
                /\ FitFor(question, reply)
                /\ ~Signed!clientRequestsDNSSEC(question) /\ ~question.ad => ~reply.ad
                /\ question.ad /\ reply.signed = "secure" /\ ~reply.ad => Bare(question)

-----------------------------------------------------------------------------
(* The resolver is always asked to check, and for everything.              *)
LEMMA Asking ==
    ASSUME Signed!DnssecUpstreamAssumption, zone \in Zones, NEW q \in Signed!Queries
    PROVE  LET msg == Signed!Resolver(Signed!upstreamDNSSECRequest(q)) IN
           /\ msg \in Messages
           /\ msg.rcode = "NOERROR" => msg.signed # "bogus"
           /\ msg.rcode = "NOERROR" /\ msg.ad => "RRSIG" \in msg.records
           /\ msg.rcode = "NOERROR" /\ msg.signed = "secure" => msg.ad
<1> DEFINE u == Signed!upstreamDNSSECRequest(q)
<1>1. u.type = q.type /\ ~u.cd /\ u.do /\ u.ad /\ q.type \in {"A", "TXT", "RRSIG"} /\ u.do \in BOOLEAN
  BY DEF Signed!upstreamDNSSECRequest, Signed!Queries
<1>2. zone \in {"secure", "insecure", "bogus"}
  BY DEF Signed!DnssecUpstreamAssumption
<1>3. Signed!Data(u.type) \in SUBSET {"A", "SOA", "NSEC", "RRSIG"}
  <2>1. CASE q.type = "A"
    BY <1>1, <2>1 DEF Signed!Data
  <2>2. CASE q.type = "TXT"
    BY <1>1, <2>2 DEF Signed!Data
  <2>3. CASE q.type = "RRSIG"
    BY <1>1, <2>3 DEF Signed!Data
  <2> QED BY <1>1, <2>1, <2>2, <2>3
<1>4. Signed!Proofs(u.type) \in SUBSET {"A", "SOA", "NSEC", "RRSIG"} /\ "RRSIG" \in Signed!Proofs(u.type)
  BY DEF Signed!Proofs
<1> HIDE DEF u
<1>5. CASE zone = "bogus"
  <2>1. Signed!Resolver(u) = [rcode |-> "SERVFAIL", records |-> {}, ad |-> FALSE, do |-> u.do, signed |-> zone]
    BY <1>1, <1>5 DEF Signed!Resolver
  <2> QED BY <1>1, <1>5, <2>1 DEF u, Messages
<1>6. CASE zone # "bogus"
  <2> DEFINE given == Signed!Data(u.type) \cup (IF zone # "insecure" THEN Signed!Proofs(u.type) ELSE {})
             validated == (zone = "secure")
  <2>1. Signed!Resolver(u) = [rcode |-> "NOERROR", ad |-> validated, do |-> u.do, signed |-> zone, records |-> given]
    BY <1>1, <1>6 DEF Signed!Resolver
  <2>2. given \in SUBSET {"A", "SOA", "NSEC", "RRSIG"} /\ (zone = "secure" => "RRSIG" \in given)
    BY <1>3, <1>4
  <2>3. validated \in BOOLEAN /\ (validated <=> zone = "secure")
    OBVIOUS
  <2> HIDE DEF given, validated
  <2> QED BY <1>1, <1>2, <1>6, <2>1, <2>2, <2>3 DEF u, Messages
<1> QED BY <1>5, <1>6

LEMMA Written ==
    ASSUME Signed!DnssecUpstreamAssumption, zone \in Zones, NEW q \in Signed!Queries
    PROVE  /\ Signed!ServeDNS(q) \in Messages
           /\ Signed!ServeDNS(q).rcode = "NOERROR" =>
                 /\ FitFor(q, Signed!ServeDNS(q))
                 /\ ~Signed!clientRequestsDNSSEC(q) /\ ~q.ad => ~Signed!ServeDNS(q).ad
                 /\ q.ad /\ Signed!ServeDNS(q).signed = "secure" => Signed!ServeDNS(q).ad
<1> DEFINE msg == Signed!Resolver(Signed!upstreamDNSSECRequest(q))
           shown == IF Signed!clientRequestsDNSSEC(q) THEN msg ELSE Signed!stripDNSSECRecords(msg)
<1>1. /\ msg \in Messages /\ (msg.rcode = "NOERROR" => msg.signed # "bogus")
      /\ msg.rcode = "NOERROR" /\ msg.ad => "RRSIG" \in msg.records
      /\ msg.rcode = "NOERROR" /\ msg.signed = "secure" => msg.ad
  BY Asking
<1>2. Signed!ServeDNS(q) = IF Signed!clientRequestsDNSSEC(q) \/ q.ad THEN shown ELSE [shown EXCEPT !.ad = FALSE]
  BY DEF Signed!ServeDNS, Signed!WriteMsg
<1> HIDE DEF msg
<1>3. CASE Signed!clientRequestsDNSSEC(q)
  <2>1. Signed!ServeDNS(q) = msg
    BY <1>2, <1>3
  <2> QED BY <1>1, <1>3, <2>1 DEF FitFor
<1>4. CASE ~Signed!clientRequestsDNSSEC(q)
  <2>1. /\ shown = [msg EXCEPT !.records = {t \in @ : ~Signed!isDNSSECProofRecord(t)}, !.do = FALSE]
        /\ ~q.do
    BY <1>4 DEF Signed!stripDNSSECRecords, Signed!clientRequestsDNSSEC
  <2>2. /\ shown \in Messages /\ shown.records \cap Signed!ProofTypes = {} /\ ~shown.do
        /\ shown.signed = msg.signed /\ shown.rcode = msg.rcode /\ shown.ad = msg.ad
    BY <1>1, <2>1 DEF Messages, Signed!isDNSSECProofRecord
  <2> HIDE DEF shown
  <2>3. CASE q.ad
    <3>1. Signed!ServeDNS(q) = shown
      BY <1>2, <2>3
    <3>2. shown.signed = "secure" /\ shown.rcode = "NOERROR" => shown.ad
      BY <1>1, <2>2
    <3> QED BY <1>1, <1>4, <2>1, <2>2, <2>3, <3>1, <3>2 DEF FitFor
  <2>4. CASE ~q.ad
    <3>1. Signed!ServeDNS(q) = [shown EXCEPT !.ad = FALSE]
      BY <1>2, <1>4, <2>4
    <3>2. /\ Signed!ServeDNS(q) \in Messages /\ Signed!ServeDNS(q).records = shown.records /\ Signed!ServeDNS(q).do = shown.do
          /\ Signed!ServeDNS(q).signed = msg.signed /\ Signed!ServeDNS(q).rcode = msg.rcode /\ ~Signed!ServeDNS(q).ad
      BY <2>2, <3>1 DEF Messages
    <3> QED BY <1>1, <1>4, <2>1, <2>2, <2>4, <3>2 DEF FitFor
  <2> QED BY <2>3, <2>4
<1> QED BY <1>3, <1>4

LEMMA KeyFacts ==
    ASSUME NEW q \in Signed!Queries
    PROVE  /\ Signed!KeyOf(q) \in Signed!Keys /\ Signed!KeyOf(q).do = q.do
           /\ Signed!clientRequestsDNSSEC(Signed!KeyOf(q)) = Signed!clientRequestsDNSSEC(q)
BY DEF Signed!Queries, Signed!Keys, Signed!KeyOf, Signed!clientRequestsDNSSEC

LEMMA HitKeeps == ASSUME SigningInv, NEW q \in Signed!Queries, Signed!Hit(q) PROVE SigningInv'
<1>1. /\ zone \in Zones /\ UNCHANGED <<zone, cache>> /\ question' = q /\ reply' = Signed!FromCache(q)
      /\ cache[Signed!KeyOf(q)] \in Messages /\ FitFor(Signed!KeyOf(q), cache[Signed!KeyOf(q)])
  BY KeyFacts DEF SigningInv, Signed!Hit
<1> DEFINE kept == cache[Signed!KeyOf(q)]
<1>2. CASE q.do \/ q.ad
  <2>1. reply' = kept
    BY <1>1, <1>2 DEF Signed!FromCache
  <2>2. FitFor(q, reply)'
    BY <1>1, <2>1, KeyFacts DEF FitFor, Signed!clientRequestsDNSSEC
  <2>3. ~Signed!clientRequestsDNSSEC(q) /\ ~q.ad => ~reply'.ad
    BY <1>2 DEF Signed!clientRequestsDNSSEC
  <2>4. ~reply'.ad => Bare(q)'
    <3>1. kept # NoMsg
      BY DEF Signed!Hit
    <3> QED BY <1>1, <2>1, <3>1 DEF Bare, Signed!KeyOf
  <2>5. \A k \in Signed!Keys : cache'[k] # NoMsg => cache'[k] \in Messages /\ FitFor(k, cache'[k])
    BY <1>1 DEF SigningInv
  <2> QED
    BY <1>1, <2>2, <2>3, <2>4, <2>5
    DEF SigningInv, FitFor, Bare, Signed!clientRequestsDNSSEC, Signed!KeyOf
<1>3. CASE ~(q.do \/ q.ad)
  <2>1. reply' = [kept EXCEPT !.ad = FALSE]
    BY <1>1, <1>3 DEF Signed!FromCache
  <2> HIDE DEF kept
  <2>2. /\ ~reply'.ad /\ reply'.rcode = kept.rcode /\ reply'.signed = kept.signed
        /\ reply'.records = kept.records /\ reply'.do = kept.do
    BY <1>1, <2>1 DEF Messages, kept
  <2> QED BY <1>1, <1>3, <2>2, KeyFacts DEF SigningInv, FitFor, Signed!clientRequestsDNSSEC, kept
<1> QED BY <1>2, <1>3

LEMMA MissKeeps ==
    ASSUME Signed!DnssecUpstreamAssumption, SigningInv, NEW q \in Signed!Queries, Signed!Miss(q)
    PROVE  SigningInv'
<1>1. /\ zone \in Zones /\ zone' = zone /\ question' = q /\ reply' = Signed!ServeDNS(q) /\ DOMAIN cache = Signed!Keys
      /\ \/ cache' = cache
         \/ reply'.rcode = "NOERROR" /\ cache' = [cache EXCEPT ![Signed!KeyOf(q)] = reply']
  BY DEF SigningInv, Signed!Miss
<1>2. /\ reply' \in Messages
      /\ reply'.rcode = "NOERROR" =>
            /\ FitFor(q, reply') /\ (~Signed!clientRequestsDNSSEC(q) /\ ~q.ad => ~reply'.ad)
            /\ q.ad /\ reply'.signed = "secure" => reply'.ad
  BY <1>1, Written
<1>3. DOMAIN cache' = Signed!Keys
  BY <1>1
<1>4. ASSUME NEW k \in Signed!Keys, cache'[k] # NoMsg PROVE cache'[k] \in Messages /\ FitFor(k, cache'[k])
  <2>1. CASE cache'[k] = cache[k]
    BY <1>4, <2>1 DEF SigningInv
  <2>2. CASE cache'[k] # cache[k]
    <3>1. k = Signed!KeyOf(q) /\ cache'[k] = reply' /\ reply'.rcode = "NOERROR"
      BY <1>1, <2>2
    <3> QED BY <1>2, <3>1, KeyFacts DEF FitFor
  <2> QED BY <2>1, <2>2
<1>5. question' # NoMsg =>
          /\ question' \in Signed!Queries
          /\ reply'.rcode = "NOERROR" =>
                /\ FitFor(question', reply') /\ (~Signed!clientRequestsDNSSEC(question') /\ ~question'.ad => ~reply'.ad)
                /\ question'.ad /\ reply'.signed = "secure" => reply'.ad
  BY <1>1, <1>2
<1>6. \A k \in Signed!Keys : cache'[k] # NoMsg => cache'[k] \in Messages /\ FitFor(k, cache'[k])
  BY <1>4
<1> QED BY <1>1, <1>3, <1>5, <1>6 DEF SigningInv, FitFor, Signed!clientRequestsDNSSEC

LEMMA SigningInit == ASSUME Signed!Init PROVE SigningInv
BY DEF Signed!Init, SigningInv

LEMMA SigningStep == ASSUME SigningInv, [Signed!Next]_(Signed!vars) PROVE SigningInv'
<1>1. ASSUME NEW q \in Signed!Queries, Signed!Hit(q) \/ Signed!Miss(q) PROVE SigningInv'
  BY <1>1, AnsweringAssumption, HitKeeps, MissKeeps
<1>2. CASE Signed!Expire
  BY <1>2 DEF Signed!Expire, SigningInv, FitFor
<1>3. CASE Signed!Resign
  BY <1>3 DEF Signed!Resign, SigningInv, FitFor
<1>4. CASE UNCHANGED Signed!vars
  BY <1>4 DEF Signed!vars, SigningInv, FitFor, Bare, Signed!KeyOf, Signed!clientRequestsDNSSEC
<1> QED BY <1>1, <1>2, <1>3, <1>4 DEF Signed!Next

LEMMA SigningGood ==
    ASSUME SigningInv
    PROVE  /\ Signed!BasicClientSeesNone /\ Signed!ProofsForThoseWhoAsk /\ Signed!BogusStaysOut
           /\ Signed!ADForThoseWhoAsk
BY DEF SigningInv, Bare, Signed!ADForThoseWhoAsk, Signed!BasicClientSeesNone, Signed!ProofsForThoseWhoAsk, Signed!BogusStaysOut,
       Signed!Answered, FitFor, Signed!clientRequestsDNSSEC

-----------------------------------------------------------------------------
(* The custom records.                                                     *)

(* Who will read what is saved.                                            *)
WillRead(c) == place[c] = "reload" \/ (place[c] = "get" /\ own[c] \in DOMAIN records)

(* As long as no read has failed and no reloads have overlapped: one at    *)
(* most has read and not stored; and what is saved will be read, or has    *)
(* been read and will be stored, or is in service.                         *)
RecordsInv ==
    readFaults = 0 /\ ~overlaps =>
        /\ \A c, d \in Records!Callers : place[c] = "store" /\ place[d] = "store" => c = d
        /\ \/ \E c \in Records!Callers : WillRead(c)
           \/ \E c \in Records!Callers : place[c] = "store" /\ read[c] = Records!ListEnabled
           \/ (\A c \in Records!Callers : place[c] # "store") /\ resolver = Records!ListEnabled

TableInv ==
    /\ Records!TypeOK /\ DOMAIN read = Records!Callers /\ overlaps \in BOOLEAN
    /\ RecordsInv

(* The two modules count alike.                                            *)
LEMMA SameCountRecords == ASSUME NEW S PROVE Records!Cardinality(S) = Cardinality(S)
BY DEF Records!Cardinality, Cardinality, Records!IsFiniteSet, IsFiniteSet

LEMMA TableInit ==
    ASSUME Records!LocalDNSAssumption, Records!Init PROVE TableInv
<1>1. PICK n \in 0..MaxRows : DOMAIN records = 1..n
  BY DEF Records!Init, Records!LocalDNSAssumption
<1>2. Cardinality(DOMAIN records) = n
  BY <1>1, FS_Interval
<1>3. nextId = n + 1 /\ Records!Servable(records)
  BY <1>2, SameCountRecords DEF Records!Init, Records!LocalDNSAssumption
<1>4. Records!TypeOK
  BY <1>1, <1>3 DEF Records!Init, Records!TypeOK, Records!LocalDNSAssumption, Records!Callers
<1>5. RecordsInv
  BY DEF Records!Init, RecordsInv, WillRead, Records!Callers, Records!LocalDNSAssumption
<1> QED BY <1>4, <1>5 DEF Records!Init, TableInv

LEMMA ValuesKnown == ASSUME NEW type \in Records!Types PROVE Records!ValuesOf(type) \subseteq Names \cup IPv4 \cup IPv6
BY DEF Records!ValuesOf, Records!Types, Records!Domains

LEMMA RowServable ==
    ASSUME Records!LocalRecordsAssumption, Records!LocalDNSAssumption, NEW id \in 1..MaxRows, NEW input \in Inputs,
           Records!Valid(input)
    PROVE  /\ Records!Row(id, input) \in Records!SavedRows /\ Records!Row(id, input).id = id
           /\ Records!Row(id, input).value \in Records!ValuesOf(Records!Row(id, input).type)
           /\ Records!Row(id, input).type = "PTR" => Records!Row(id, input).name \in PtrNames
<1>1. /\ input \in [name : Nat, type : STRING, value : Nat, ttl : Nat, enabled : BOOLEAN]
      /\ MaxTTL \in Nat /\ DefaultTTL \in 1..MaxTTL
  BY DEF Records!LocalRecordsAssumption, Records!LocalDNSAssumption
<1>2. Records!NewRecord(input).ttl \in 1..MaxTTL
  BY <1>1 DEF Records!NewRecord, Records!Valid
<1>3. input.value \in Names \cup IPv4 \cup IPv6
  BY ValuesKnown DEF Records!Valid
<1> QED BY <1>1, <1>2, <1>3 DEF Records!Row, Records!SavedRows, Records!Valid

LEMMA EnabledServable == ASSUME Records!Servable(records) PROVE Records!ListEnabled \subseteq Records!SavedRows
BY DEF Records!ListEnabled, Records!Rows, Records!Servable

(* An edit: its request will read what it has saved.                       *)
LEMMA RecordCommitKeeps ==
    ASSUME TableInv, NEW c \in Editors, NEW rows, NEW id, NEW label \in {"get", "reload"},
           Records!Commit(c, rows, id, label), Records!Servable(rows), id \in 1..MaxRows,
           nextId' \in 1..MaxRows + 1, \A i \in DOMAIN rows : i < nextId',
           label = "get" => id \in DOMAIN rows,
           Records!LocalDNSAssumption
    PROVE  TableInv'
<1>1. /\ records' = rows /\ own' = [own EXCEPT ![c] = id] /\ place' = [place EXCEPT ![c] = label]
      /\ edits' \in 0..MaxEdits /\ UNCHANGED <<resolver, read, readFaults, overlaps>>
      /\ c \in Records!Callers /\ place[c] = "idle"
  BY DEF Records!Commit, Records!Goto, TableInv, Records!TypeOK, Records!LocalDNSAssumption, Records!Callers
<1>2. Records!TypeOK'
  BY <1>1 DEF TableInv, Records!TypeOK
<1>3. WillRead(c)'
  BY <1>1 DEF WillRead, TableInv, Records!TypeOK
<1>4. \A d \in Records!Callers : place'[d] = "store" => place[d] = "store"
  BY <1>1 DEF TableInv, Records!TypeOK
<1>5. RecordsInv'
  BY <1>1, <1>3, <1>4 DEF TableInv, RecordsInv
<1> QED BY <1>1, <1>2, <1>5 DEF TableInv

LEMMA RecordEditKeeps ==
    ASSUME Records!LocalRecordsAssumption, Records!LocalDNSAssumption, TableInv, NEW c \in Records!Callers,
           Records!Create(c) \/ Records!Update(c) \/ Records!Delete(c)
    PROVE  TableInv'
<1>1. /\ Records!Servable(records) /\ nextId \in 1..MaxRows + 1 /\ \A id \in DOMAIN records : id < nextId
      /\ \A id \in DOMAIN records : id \in 1..MaxRows
      /\ MaxRows \in Nat
  BY DEF TableInv, Records!TypeOK, Records!Servable, Records!SavedRows, Records!LocalDNSAssumption
<1>2. CASE Records!Create(c)
  <2>1. PICK input \in Inputs :
          /\ Records!Valid(input)
          /\ Records!Commit(c, [id \in DOMAIN records \cup {nextId} |->
                          IF id = nextId THEN Records!Row(id, input) ELSE records[id]], nextId, "get")
    BY <1>2 DEF Records!Create
  <2> DEFINE rows == [id \in DOMAIN records \cup {nextId} |-> IF id = nextId THEN Records!Row(id, input) ELSE records[id]]
  <2>2. nextId \in 1..MaxRows /\ nextId' = nextId + 1 /\ c \in Editors
    BY <1>1, <1>2, <2>1 DEF Records!Create, Records!Commit
  <2>3. Records!Servable(rows)
    BY <1>1, <2>1, <2>2, RowServable DEF Records!Servable
  <2>4. /\ \A i \in DOMAIN rows : i < nextId'
        /\ nextId' \in 1..MaxRows + 1 /\ nextId \in DOMAIN rows
    BY <1>1, <2>2
  <2> QED BY <2>1, <2>2, <2>3, <2>4, RecordCommitKeeps
<1>3. CASE Records!Update(c)
  <2>1. PICK id \in DOMAIN records, input \in Inputs :
          Records!Valid(input) /\ Records!Commit(c, [records EXCEPT ![id] = Records!Row(id, input)], id, "get")
    BY <1>3 DEF Records!Update
  <2> DEFINE rows == [records EXCEPT ![id] = Records!Row(id, input)]
  <2>2. Records!Servable(rows)
    BY <1>1, <2>1, RowServable DEF Records!Servable
  <2>3. nextId' = nextId /\ c \in Editors
    BY <1>3, <2>1 DEF Records!Update, Records!Commit
  <2>4. DOMAIN rows = DOMAIN records
    OBVIOUS
  <2> QED BY <1>1, <2>1, <2>2, <2>3, <2>4, RecordCommitKeeps
<1>4. CASE Records!Delete(c)
  <2>1. PICK id \in DOMAIN records : Records!Commit(c, [i \in DOMAIN records \ {id} |-> records[i]], id, "reload")
    BY <1>4 DEF Records!Delete
  <2> DEFINE rows == [i \in DOMAIN records \ {id} |-> records[i]]
  <2>2. Records!Servable(rows)
    BY <1>1 DEF Records!Servable
  <2>3. nextId' = nextId /\ c \in Editors
    BY <1>4, <2>1 DEF Records!Delete, Records!Commit
  <2> QED BY <1>1, <2>1, <2>2, <2>3, RecordCommitKeeps
<1> QED BY <1>2, <1>3, <1>4

LEMMA RecordGetKeeps == ASSUME TableInv, NEW c \in Records!Callers, Records!Get(c) PROVE TableInv'
<1>1. /\ UNCHANGED <<records, nextId, resolver, own, read, edits, readFaults, overlaps>> /\ place[c] = "get"
      /\ place' = [place EXCEPT ![c] = IF own[c] \in DOMAIN records THEN "reload" ELSE "idle"]
      /\ place \in [Records!Callers -> {"idle", "get", "reload", "store"}]
  BY DEF Records!Get, Records!Goto, TableInv, Records!TypeOK
<1>2. Records!TypeOK'
  BY <1>1 DEF TableInv, Records!TypeOK, Records!Servable
<1>3. Records!ListEnabled' = Records!ListEnabled /\ \A d \in Records!Callers : WillRead(d) => WillRead(d)'
  BY <1>1 DEF Records!ListEnabled, Records!Rows, WillRead
<1>4. \A d \in Records!Callers : place'[d] = "store" <=> place[d] = "store"
  BY <1>1
<1>5. RecordsInv'
  BY <1>1, <1>3, <1>4 DEF TableInv, RecordsInv
<1> QED BY <1>1, <1>2, <1>5 DEF TableInv

LEMMA RecordReadKeeps == ASSUME TableInv, NEW c \in Records!Callers, Records!ReadRecords(c) PROVE TableInv'
<1>1. /\ UNCHANGED <<records, nextId, resolver, own, edits, readFaults>> /\ place[c] = "reload"
      /\ read' = [read EXCEPT ![c] = Records!ListEnabled] /\ place' = [place EXCEPT ![c] = "store"]
      /\ place \in [Records!Callers -> {"idle", "get", "reload", "store"}] /\ DOMAIN read = Records!Callers
  BY DEF Records!ReadRecords, Records!Goto, TableInv, Records!TypeOK
<1>2. overlaps' \in BOOLEAN /\ (~overlaps' => ~overlaps /\ \A d \in Records!Callers : place[d] # "store")
  <2>1. overlaps' = (overlaps \/ \E d \in Records!Callers : place[d] = "store") /\ overlaps \in BOOLEAN
    BY DEF Records!ReadRecords, TableInv
  <2> QED BY <2>1
<1>3. Records!ListEnabled' = Records!ListEnabled /\ Records!ListEnabled \subseteq Records!SavedRows
  BY <1>1, EnabledServable DEF Records!ListEnabled, Records!Rows, TableInv, Records!TypeOK
<1>4. Records!TypeOK'
  BY <1>1, <1>3 DEF TableInv, Records!TypeOK, Records!Servable
<1>5. \A d \in Records!Callers : ~overlaps' => (place'[d] = "store" <=> d = c)
  BY <1>1, <1>2
<1>6. place'[c] = "store" /\ read'[c] = Records!ListEnabled'
  BY <1>1, <1>3
<1>7. RecordsInv'
  BY <1>5, <1>6 DEF RecordsInv
<1> QED BY <1>1, <1>2, <1>4, <1>7 DEF TableInv

LEMMA RecordInstallKeeps == ASSUME TableInv, NEW c \in Records!Callers, Records!Install(c) PROVE TableInv'
<1>1. /\ UNCHANGED <<records, nextId, own, edits, readFaults, overlaps>> /\ place[c] = "store"
      /\ resolver' = read[c] /\ read' = [read EXCEPT ![c] = {}] /\ place' = [place EXCEPT ![c] = "idle"]
      /\ place \in [Records!Callers -> {"idle", "get", "reload", "store"}] /\ DOMAIN read = Records!Callers
  BY DEF Records!Install, Records!Goto, TableInv, Records!TypeOK
<1>2. Records!TypeOK'
  BY <1>1 DEF TableInv, Records!TypeOK, Records!Servable
<1>3. Records!ListEnabled' = Records!ListEnabled /\ \A d \in Records!Callers : WillRead(d) => WillRead(d)'
  BY <1>1 DEF Records!ListEnabled, Records!Rows, WillRead
<1>4. \A d \in Records!Callers : place'[d] = "store" <=> place[d] = "store" /\ d # c
  BY <1>1
<1>5. ASSUME readFaults = 0, ~overlaps
      PROVE  /\ \A d \in Records!Callers : place'[d] # "store"
             /\ (\E d \in Records!Callers : WillRead(d)') \/ resolver' = Records!ListEnabled'
  <2>1. \A d \in Records!Callers : place[d] = "store" => d = c
    BY <1>1, <1>5 DEF TableInv, RecordsInv
  <2>2. \/ \E d \in Records!Callers : WillRead(d)
        \/ read[c] = Records!ListEnabled
    BY <1>1, <1>5, <2>1 DEF TableInv, RecordsInv
  <2> QED BY <1>1, <1>3, <1>4, <2>1, <2>2
<1>6. RecordsInv'
  BY <1>1, <1>5 DEF RecordsInv
<1> QED BY <1>1, <1>2, <1>6 DEF TableInv

LEMMA RecordFailKeeps == ASSUME Records!LocalDNSAssumption, TableInv, NEW c \in Records!Callers, Records!ReadFails(c) PROVE TableInv'
<1>1. /\ UNCHANGED <<records, nextId, resolver, own, read, edits, overlaps>>
      /\ readFaults' = readFaults + 1 /\ readFaults' \in 0..MaxReadFaults /\ readFaults \in Nat
      /\ place' = [place EXCEPT ![c] = "idle"]
  BY DEF Records!ReadFails, Records!Goto, TableInv, Records!TypeOK, Records!LocalDNSAssumption
<1>2. Records!TypeOK'
  BY <1>1 DEF TableInv, Records!TypeOK, Records!Servable
<1>3. RecordsInv'
  BY <1>1 DEF RecordsInv
<1> QED BY <1>1, <1>2, <1>3 DEF TableInv

LEMMA TableStep ==
    ASSUME Records!LocalRecordsAssumption, Records!LocalDNSAssumption, TableInv, [Records!Next]_(Records!vars) PROVE TableInv'
<1>1. CASE UNCHANGED Records!vars
  BY <1>1 DEF Records!vars, TableInv, Records!TypeOK, Records!Servable, RecordsInv, WillRead, Records!ListEnabled, Records!Rows
<1> QED BY <1>1, RecordEditKeeps, RecordGetKeeps, RecordReadKeeps, RecordInstallKeeps, RecordFailKeeps DEF Records!Next

LEMMA TableGood == ASSUME TableInv PROVE Records!TypeOK /\ Records!QuietRuntimeIsCurrent
BY DEF TableInv, RecordsInv, WillRead, Records!QuietRuntimeIsCurrent, Records!Quiet

-----------------------------------------------------------------------------
(* The names and the answers of custom records.  Induction over the turns  *)
(* of the walk is by the least number at which a claim fails.              *)

(* A set of numbers that has one has a smallest.                           *)
LEMMA Smallest == ASSUME NEW T \in SUBSET Nat, T # {} PROVE \E m \in T : \A k \in T : m <= k
<1> DEFINE R == StrictSubsetOrdering(Nat)
           U == {1..m : m \in T}
<1>2. IsWellFoundedOn(R, FiniteSubsetsOf(Nat))
  BY FS_StrictSubsetOrderingWellFounded
<1>3. U \subseteq FiniteSubsetsOf(Nat)
  <2>1. ASSUME NEW m \in T PROVE 1..m \in FiniteSubsetsOf(Nat)
    BY FS_Interval DEF FiniteSubsetsOf
  <2> QED BY <2>1
<1>4. U # {}
  OBVIOUS
<1>5. \A A, B \in U : A \subseteq B /\ A # B => <<A, B>> \in R
  <2>1. \A A \in U : A \in SUBSET Nat
    BY <1>3 DEF FiniteSubsetsOf
  <2> QED BY <2>1 DEF StrictSubsetOrdering
<1> HIDE DEF R
<1>6. PICK A \in U : \A B \in U : ~(<<B, A>> \in R)
  <2> HIDE DEF U
  <2> QED BY <1>2, <1>3, <1>4, WFMin
<1>7. PICK m \in T : A = 1..m
  OBVIOUS
<1>8. ASSUME NEW k \in T, k < m PROVE FALSE
  <2>1. 1..k \subseteq 1..m /\ m \in 1..m /\ m \notin 1..k
    BY <1>8
  <2>2. 1..k \in U
    OBVIOUS
  <2> QED BY <1>5, <1>6, <1>7, <2>1, <2>2
<1> QED BY <1>8

(* A function applied again and again.                                     *)
Iterates(f, n, W, first, F) ==
    f \in [0..n -> W] /\ f[0] = first /\ \A k \in 1..n : f[k] = F[f[k - 1]]

LEMMA Iterated ==
    ASSUME NEW n \in Nat, NEW W, NEW first \in W, NEW F, F \in [W -> W]
    PROVE  \E f : Iterates(f, n, W, first, F)
<1> DEFINE Good(m, f) == f \in [0..m -> W] /\ f[0] = first /\ \A k \in 1..m : f[k] = F[f[k - 1]]
           T == {m \in Nat : ~\E f : Good(m, f)}
<1>1. ASSUME T # {} PROVE FALSE
  <2>1. PICK m \in T : \A k \in T : m <= k
    BY <1>1, Smallest
  <2>2. m \in Nat /\ ~\E f : Good(m, f)
    OBVIOUS
  <2>3. CASE m = 0
    <3>1. Good(m, [k \in 0..m |-> first])
      BY <2>3
    <3> HIDE DEF Good
    <3> QED BY <2>2, <3>1
  <2>4. CASE m # 0
    <3>1. m - 1 \in Nat /\ m - 1 \in 0..m - 1 /\ 0 \in 0..m - 1 /\ \E f : Good(m - 1, f)
      <4> HIDE DEF Good
      <4>1. m - 1 \in Nat /\ m - 1 \notin T
        BY <2>1, <2>2, <2>4
      <4> QED BY <4>1
    <3>2. PICK f : Good(m - 1, f)
      BY <3>1
    <3> DEFINE last == F[f[m - 1]]
               g == [k \in 0..m |-> IF k < m THEN f[k] ELSE last]
    <3>3. last \in W
      BY <3>1, <3>2
    <3> HIDE DEF last
    <3>4. \A k \in 0..m - 1 : k \in 0..m /\ k < m /\ g[k] = f[k] /\ f[k] \in W
      BY <2>2, <3>2
    <3>5. g[m] = last
      BY <2>2
    <3>6. g \in [0..m -> W]
      <4>1. \A k \in 0..m : k \in 0..m - 1 \/ k = m
        BY <2>2
      <4>2. \A k \in 0..m : g[k] \in W
        BY <3>3, <3>4, <3>5, <4>1
      <4> QED BY <4>2
    <3>7. \A k \in 1..m : g[k] = F[g[k - 1]]
      <4> SUFFICES ASSUME NEW k \in 1..m PROVE g[k] = F[g[k - 1]]
        OBVIOUS
      <4>1. k - 1 \in 0..m - 1
        BY <2>2
      <4>2. g[k - 1] = f[k - 1]
        BY <3>4, <4>1
      <4> HIDE DEF g
      <4>3. CASE k = m
        BY <3>5, <4>2, <4>3 DEF last
      <4>4. CASE k # m
        <5>1. k \in 1..m - 1 /\ k \in 0..m - 1
          BY <2>2, <4>4
        <5> QED BY <3>2, <3>4, <4>2, <5>1
      <4> QED BY <4>3, <4>4
    <3>8. g[0] = first
      BY <3>1, <3>2, <3>4
    <3>9. Good(m, g)
      <4> HIDE DEF g
      <4> QED BY <3>6, <3>7, <3>8
    <3> HIDE DEF Good, g
    <3> QED BY <2>2, <3>9
  <2> QED BY <2>3, <2>4
<1>2. PICK f : Good(n, f)
  BY <1>1
<1> QED BY <1>2 DEF Iterates

(* The image of a finite set.                                              *)
LEMMA ImageFinite ==
    ASSUME NEW f, f = [x \in DOMAIN f |-> f[x]], IsFiniteSet(DOMAIN f)
    PROVE  IsFiniteSet({f[x] : x \in DOMAIN f})
<1> DEFINE T == {f[x] : x \in DOMAIN f}
           S == DOMAIN f
<1>1. f \in [S -> T]
  OBVIOUS
<1>2. \A y \in T : \E x \in S : f[x] = y
  OBVIOUS
<1> HIDE DEF T, S
<1>3. f \in Surjection(S, T)
  BY <1>1, <1>2 DEF Surjection
<1> QED BY <1>3, FS_Surjection DEF S, T

-----------------------------------------------------------------------------
(* Rows to answer from: finitely many, all enabled, with an id each.       *)
ReadOut(rows) ==
    /\ IsFiniteSet(rows) /\ rows \subseteq Records!SavedRows
    /\ \A r \in rows : r.enabled
    /\ \A r, s \in rows : r.id = s.id => r = s

RowsInv == ReadOut(resolver) /\ \A c \in Records!Callers : ReadOut(read[c])

LEMMA NoRows == ReadOut({})
BY FS_EmptySet DEF ReadOut

LEMMA FewerRows == ASSUME NEW S, ReadOut(S), NEW U \in SUBSET S PROVE ReadOut(U)
<1>1. IsFiniteSet(U)
  BY FS_Subset DEF ReadOut
<1> QED BY <1>1 DEF ReadOut

LEMMA EnabledReadOut == ASSUME TableInv PROVE ReadOut(Records!ListEnabled)
<1> DEFINE f == [id \in DOMAIN records |-> records[id]]
           S == {f[id] : id \in DOMAIN f}
<1>1. /\ MaxRows \in Nat
      /\ \A id \in DOMAIN records : records[id] \in Records!SavedRows /\ records[id].id = id
  BY AnsweringAssumption DEF TableInv, Records!TypeOK, Records!Servable, Records!LocalDNSAssumption
<1>2. DOMAIN records \in SUBSET (1..MaxRows)
  BY <1>1 DEF Records!SavedRows
<1>3. IsFiniteSet(1..MaxRows)
  <2>1. 1 \in Int /\ MaxRows \in Int
    BY <1>1
  <2> QED BY <2>1, FS_Interval, Zenon
<1>4. IsFiniteSet(DOMAIN records)
  BY <1>2, <1>3, FS_Subset
<1>5. f = [id \in DOMAIN f |-> f[id]] /\ DOMAIN f = DOMAIN records
  OBVIOUS
<1>6. IsFiniteSet(S)
  <2> HIDE DEF f
  <2> QED BY <1>4, <1>5, ImageFinite
<1>7. S \subseteq Records!SavedRows /\ (\A r, s \in S : r.id = s.id => r = s) /\ Records!ListEnabled \in SUBSET S
  BY <1>1 DEF Records!ListEnabled, Records!Rows
<1>8. \A r \in Records!ListEnabled : r.enabled
  BY DEF Records!ListEnabled
<1> HIDE DEF S
<1>9. IsFiniteSet(Records!ListEnabled)
  BY <1>6, <1>7, FS_Subset
<1> QED BY <1>7, <1>8, <1>9 DEF ReadOut

LEMMA RowsInit == ASSUME Records!Init PROVE RowsInv
BY NoRows DEF Records!Init, RowsInv

LEMMA RowsStep == ASSUME TableInv, RowsInv, [Records!Next]_(Records!vars) PROVE RowsInv'
<1>1. ASSUME UNCHANGED <<resolver, read>> PROVE RowsInv'
  BY <1>1 DEF RowsInv, ReadOut
<1>2. ASSUME NEW c \in Records!Callers, Records!ReadRecords(c) PROVE RowsInv'
  <2>1. resolver' = resolver /\ read' = [read EXCEPT ![c] = Records!ListEnabled] /\ DOMAIN read = Records!Callers
    BY <1>2 DEF Records!ReadRecords, TableInv
  <2> QED BY <2>1, EnabledReadOut DEF RowsInv
<1>3. ASSUME NEW c \in Records!Callers, Records!Install(c) PROVE RowsInv'
  <2>1. resolver' = read[c] /\ read' = [read EXCEPT ![c] = {}] /\ DOMAIN read = Records!Callers
    BY <1>3 DEF Records!Install, TableInv
  <2> QED BY <2>1, NoRows DEF RowsInv
<1> QED BY <1>1, <1>2, <1>3 DEF Records!Next, Records!vars, Records!Create, Records!Update, Records!Delete,
           Records!Commit, Records!Get, Records!ReadFails

-----------------------------------------------------------------------------
(* The rows of a name in their order.                                      *)

LEMMA Ranks ==
    /\ Records!Rank["A"] = 1 /\ Records!Rank["AAAA"] = 2
    /\ Records!Rank["CNAME"] = 3 /\ Records!Rank["PTR"] = 4
BY DEF Records!Rank

LEMMA RowFacts ==
    ASSUME NEW S, ReadOut(S), NEW r \in S
    PROVE  /\ r.id \in Nat /\ r.value \in Nat /\ r.type \in {"A", "AAAA", "CNAME", "PTR"}
           /\ Records!Rank[r.type] \in Nat
<1>1. r \in Records!SavedRows
  BY DEF ReadOut
<1>2. Names \cup IPv4 \cup IPv6 \subseteq Nat
  BY AnsweringAssumption DEF Records!LocalRecordsAssumption
<1>3. r.id \in Nat /\ r.value \in Nat /\ r.type \in {"A", "AAAA", "CNAME", "PTR"}
  BY <1>1, <1>2 DEF Records!SavedRows, Records!Types
<1>4. Records!Rank[r.type] \in Nat
  BY <1>3, Ranks
<1> QED BY <1>3, <1>4

(* Any two rows are in this order, one way.                                *)
LEMMA BeforeRows ==
    ASSUME NEW S, ReadOut(S), NEW r \in S, NEW s \in S
    PROVE  /\ ~Records!Before(r, r)
           /\ Records!Before(r, s) => ~Records!Before(s, r)
           /\ r # s => Records!Before(r, s) \/ Records!Before(s, r)
           /\ \A t \in S : Records!Before(r, s) /\ Records!Before(s, t) => Records!Before(r, t)
<1> DEFINE B(x, y) ==
             \/ Records!Rank[x.type] < Records!Rank[y.type]
             \/ Records!Rank[x.type] = Records!Rank[y.type] /\ x.value < y.value
             \/ Records!Rank[x.type] = Records!Rank[y.type] /\ x.value = y.value /\ x.id < y.id
<1>1. \A x \in S : /\ x.id \in Nat /\ x.value \in Nat /\ x.type \in {"A", "AAAA", "CNAME", "PTR"}
                   /\ Records!Rank[x.type] \in Nat
  BY RowFacts
<1>2. \A x, y \in S : Records!Rank[x.type] = Records!Rank[y.type] <=> x.type = y.type
  BY <1>1, Ranks
<1>3. \A x, y \in S : Records!Before(x, y) <=> B(x, y)
  BY <1>2 DEF Records!Before
<1>4. ~B(r, r) /\ (B(r, s) => ~B(s, r))
  BY <1>1
<1>5. r # s => B(r, s) \/ B(s, r)
  <2>1. r # s => r.id # s.id
    BY DEF ReadOut
  <2> QED BY <1>1, <2>1
<1>6. \A t \in S : B(r, s) /\ B(s, t) => B(r, t)
  BY <1>1
<1> HIDE DEF B
<1> QED BY <1>3, <1>4, <1>5, <1>6

(* The place of a row among others.                                        *)
LEMMA PlaceFacts ==
    ASSUME NEW S, ReadOut(S), NEW e \in S
    PROVE  /\ Records!Place(e, S) \in 1..Cardinality(S)
           /\ \A f \in S : /\ Records!Before(e, f) <=> Records!Place(e, S) < Records!Place(f, S)
                           /\ Records!Place(e, S) = Records!Place(f, S) => e = f
<1> DEFINE Ahead(x) == {g \in S : Records!Before(g, x)}
<1>1. \A x : Records!Place(x, S) = 1 + Cardinality(Ahead(x))
  BY SameCountRecords DEF Records!Place
<1>2. \A x \in S : /\ IsFiniteSet(Ahead(x)) /\ Cardinality(Ahead(x)) \in Nat
                   /\ Cardinality(Ahead(x)) < Cardinality(S) /\ Cardinality(S) \in Nat
  <2> SUFFICES ASSUME NEW x \in S
               PROVE  /\ IsFiniteSet(Ahead(x)) /\ Cardinality(Ahead(x)) \in Nat
                      /\ Cardinality(Ahead(x)) < Cardinality(S) /\ Cardinality(S) \in Nat
    OBVIOUS
  <2>1. IsFiniteSet(S) /\ Ahead(x) \in SUBSET S /\ x \notin Ahead(x)
    BY BeforeRows DEF ReadOut
  <2> HIDE DEF Ahead
  <2>2. /\ IsFiniteSet(Ahead(x)) /\ Cardinality(Ahead(x)) <= Cardinality(S)
        /\ Cardinality(S) = Cardinality(Ahead(x)) => S = Ahead(x)
    BY <2>1, FS_Subset
  <2>3. Cardinality(Ahead(x)) \in Nat /\ Cardinality(S) \in Nat
    BY <2>1, <2>2, FS_CardinalityType
  <2> QED BY <2>1, <2>2, <2>3
<1>3. ASSUME NEW x \in S, NEW y \in S, Records!Before(x, y)
      PROVE  Records!Place(x, S) < Records!Place(y, S)
  <2>1. Ahead(x) \in SUBSET Ahead(y) /\ x \in Ahead(y) /\ x \notin Ahead(x)
    BY <1>3, BeforeRows
  <2> HIDE DEF Ahead
  <2>2. /\ Cardinality(Ahead(x)) <= Cardinality(Ahead(y))
        /\ Cardinality(Ahead(y)) = Cardinality(Ahead(x)) => Ahead(y) = Ahead(x)
    BY <1>2, <2>1, FS_Subset
  <2>3. Cardinality(Ahead(x)) < Cardinality(Ahead(y))
    BY <1>2, <2>1, <2>2
  <2> QED BY <1>1, <1>2, <2>3
<1> HIDE DEF Ahead
<1>4. \A x \in S : Records!Place(x, S) \in 1..Cardinality(S)
  BY <1>1, <1>2
<1>5. ASSUME NEW f \in S
      PROVE  /\ Records!Before(e, f) <=> Records!Place(e, S) < Records!Place(f, S)
             /\ Records!Place(e, S) = Records!Place(f, S) => e = f
  <2>1. Records!Place(e, S) \in Int /\ Records!Place(f, S) \in Int
    BY <1>4
  <2>2. e # f => Records!Before(e, f) \/ Records!Before(f, e)
    BY BeforeRows
  <2>3. ~Records!Before(e, e)
    BY BeforeRows
  <2>4. Records!Before(e, f) => Records!Place(e, S) < Records!Place(f, S)
    BY <1>3
  <2>5. Records!Before(f, e) => Records!Place(f, S) < Records!Place(e, S)
    BY <1>3
  <2> QED BY <2>1, <2>2, <2>3, <2>4, <2>5
<1> QED BY <1>4, <1>5

(* Every place is taken: as many rows as places, none in the same.         *)
LEMMA PlacesTaken ==
    ASSUME NEW S, ReadOut(S), NEW k \in 1..Cardinality(S)
    PROVE  \E e \in S : Records!Place(e, S) = k
<1> DEFINE n == Cardinality(S)
           T == 1..n
           f == [e \in S |-> Records!Place(e, S)]
<1>1. IsFiniteSet(S) /\ n \in Nat
  BY FS_CardinalityType DEF ReadOut
<1>2. IsFiniteSet(T) /\ Cardinality(T) = n
  <2> HIDE DEF n
  <2>1. 1 \in Int /\ n \in Int
    BY <1>1
  <2>2. IsFiniteSet(1..n) /\ Cardinality(1..n) = IF 1 > n THEN 0 ELSE n - 1 + 1
    BY <2>1, FS_Interval, Zenon
  <2> QED BY <1>1, <2>2
<1>3. f \in [S -> T]
  BY PlaceFacts
<1>4. \A x, y \in S : f[x] = f[y] => x = y
  BY PlaceFacts
<1> HIDE DEF f, n
<1>5. f \in Injection(S, T)
  BY <1>3, <1>4 DEF Injection, IsInjective
<1>6. f \in Surjection(S, T)
  <2> HIDE DEF T
  <2> QED BY <1>1, <1>2, <1>5, FS_Injection DEF n
<1>7. \E x \in S : f[x] = k
  BY <1>6 DEF Surjection, n
<1> QED BY <1>7 DEF f

(* The rows in their order: each row once, at its place.                      *)
LEMMA OrderedFacts ==
    ASSUME NEW S, ReadOut(S)
    PROVE  /\ Cardinality(S) \in Nat
           /\ Records!Ordered(S) \in Seq(S) /\ Len(Records!Ordered(S)) = Cardinality(S)
           /\ \A k \in 1..Cardinality(S) : Records!Ordered(S)[k] \in S
                                           /\ Records!Place(Records!Ordered(S)[k], S) = k
           /\ \A e \in S : Records!Ordered(S)[Records!Place(e, S)] = e
<1> DEFINE n == Cardinality(S)
           s == Records!Ordered(S)
<1>1. n \in Nat
  BY FS_CardinalityType DEF ReadOut
<1>2. s = [k \in 1..n |-> CHOOSE e \in S : Records!Place(e, S) = k]
  BY SameCountRecords DEF Records!Ordered
<1>3. \A k \in 1..n : s[k] \in S /\ Records!Place(s[k], S) = k
  <2> SUFFICES ASSUME NEW k \in 1..n PROVE s[k] \in S /\ Records!Place(s[k], S) = k
    OBVIOUS
  <2>1. \E e \in S : Records!Place(e, S) = k
    BY PlacesTaken
  <2> QED BY <1>2, <2>1
<1> HIDE DEF s, n
<1>4. s \in [1..n -> S]
  BY <1>2, <1>3
<1>5. s \in Seq(S) /\ Len(s) = n
  BY <1>1, <1>4
<1>6. ASSUME NEW e \in S PROVE s[Records!Place(e, S)] = e
  <2>1. Records!Place(e, S) \in 1..n
    BY PlaceFacts DEF n
  <2>2. s[Records!Place(e, S)] \in S
        /\ Records!Place(s[Records!Place(e, S)], S) = Records!Place(e, S)
    BY <1>3, <2>1
  <2> QED BY <2>2, PlaceFacts
<1> QED BY <1>1, <1>3, <1>5, <1>6 DEF s, n

(* The first row comes before the others.                                  *)
LEMMA FirstFacts ==
    ASSUME NEW S, ReadOut(S), S # {}
    PROVE  /\ Records!Ordered(S)[1] \in S
           /\ \A s \in S : Records!Ordered(S)[1] = s \/ Records!Before(Records!Ordered(S)[1], s)
<1> DEFINE first == Records!Ordered(S)[1]
<1>1. Cardinality(S) \in Nat /\ 1 \in 1..Cardinality(S)
  BY PlaceFacts, OrderedFacts
<1>2. first \in S /\ Records!Place(first, S) = 1
  BY <1>1, OrderedFacts
<1> HIDE DEF first
<1>3. ASSUME NEW s \in S, s # first PROVE Records!Before(first, s)
  <2>1. Records!Place(s, S) \in 1..Cardinality(S) /\ Records!Place(s, S) # 1
    BY <1>2, <1>3, PlaceFacts
  <2>2. Records!Place(first, S) < Records!Place(s, S)
    BY <1>1, <1>2, <2>1
  <2> QED BY <1>2, <2>2, PlaceFacts
<1> QED BY <1>2, <1>3 DEF first

(* What the walk finds at a name.                                          *)
LEMMA FoundFacts ==
    ASSUME ReadOut(resolver), NEW n
    PROVE  /\ \A type \in {"A", "AAAA"} : /\ Records!Direct(resolver, type, n) = Records!Holds(n, type)
                                          /\ ReadOut(Records!Holds(n, type))
           /\ Records!Aliases(resolver, n) = {} => Records!Target(n) = {}
           /\ Records!Aliases(resolver, n) # {} =>
                 LET first == Records!FirstAlias(resolver, n)
                 IN  /\ first \in resolver /\ first.name = n /\ first.type = "CNAME"
                     /\ Records!Target(n) = {first.value}
<1> DEFINE al == Records!Aliases(resolver, n)
           first == Records!FirstAlias(resolver, n)
<1>1. al = {r \in resolver : r.name = n /\ r.type = "CNAME"}
  BY DEF Records!Aliases, Records!RecordsOf, ReadOut
<1>2. ASSUME NEW type \in {"A", "AAAA"}
      PROVE  /\ Records!Direct(resolver, type, n) = Records!Holds(n, type)
             /\ ReadOut(Records!Holds(n, type))
  <2>1. Records!Direct(resolver, type, n) = Records!Holds(n, type)
    BY DEF Records!Direct, Records!RecordsOf, Records!recordMatchesQuestion, Records!Holds, ReadOut
  <2>2. Records!Holds(n, type) \in SUBSET resolver
    BY DEF Records!Holds
  <2> QED BY <2>1, <2>2, FewerRows
<1>3. Records!Target(n) = {r.value : r \in {x \in al : \A y \in al : x.value <= y.value}}
  BY <1>1 DEF Records!Target
<1>4. al \in SUBSET resolver /\ ReadOut(al)
  BY <1>1, FewerRows
<1>5. \A r \in al : r.value \in Nat /\ r.id \in Nat /\ r.type = "CNAME" /\ r.name = n /\ r \in resolver
  BY <1>1, RowFacts
<1>6. first = Records!Ordered(al)[1]
  BY DEF Records!FirstAlias
<1> HIDE DEF al, first
<1>7. ASSUME al # {}
      PROVE  /\ first \in resolver /\ first.name = n /\ first.type = "CNAME"
             /\ Records!Target(n) = {first.value}
  <2>1. first \in al /\ \A s \in al : first = s \/ Records!Before(first, s)
    BY <1>4, <1>6, <1>7, FirstFacts
  <2>2. \A s \in al : first.value <= s.value
    <3> SUFFICES ASSUME NEW s \in al PROVE first.value <= s.value
      OBVIOUS
    <3>1. CASE first = s
      BY <1>5, <2>1, <3>1
    <3>2. CASE Records!Before(first, s)
      <4>1. first.type = "CNAME" /\ s.type = "CNAME" /\ ~(Records!Rank["CNAME"] < Records!Rank["CNAME"])
        BY <1>5, <2>1, Ranks
      <4>2. first.value \in Nat /\ s.value \in Nat
        BY <1>5, <2>1
      <4> QED BY <3>2, <4>1, <4>2 DEF Records!Before
    <3> QED BY <2>1, <3>1, <3>2
  <2>3. \A s \in al : (\A y \in al : s.value <= y.value) => s.value = first.value
    BY <1>5, <2>1, <2>2
  <2>4. Records!Target(n) = {first.value}
    BY <1>3, <2>1, <2>2, <2>3
  <2> QED BY <1>5, <2>1, <2>4
<1>8. al = {} => Records!Target(n) = {}
  BY <1>3
<1> QED BY <1>2, <1>7, <1>8 DEF al, first

-----------------------------------------------------------------------------
(* The walk along the aliases.                                             *)

Chains == Seq(resolver)

(* The names a walk can come to.                                           *)
Places(name) == {name} \cup {r.value : r \in resolver}
Walks(name) == [at : Places(name), seen : SUBSET Places(name), answer : Chains, done : BOOLEAN]

(* The aliases a walk has followed: each the only lead from its name,      *)
(* which has no address, and each to the name of the next, the last to     *)
(* where the walk is; no name twice.                                       *)
IsChain(c, name, type, at, met) ==
    /\ \A k \in DOMAIN c : /\ c[k].type = "CNAME" /\ Records!Holds(c[k].name, type) = {}
                           /\ Records!Target(c[k].name) = {c[k].value}
    /\ \A k \in 1..Len(c) - 1 : c[k + 1].name = c[k].value
    /\ IF c = <<>> THEN at = name ELSE c[1].name = name /\ at = c[Len(c)].value
    /\ met = {c[k].name : k \in DOMAIN c}
    /\ \A j, k \in DOMAIN c : c[j].name = c[k].name => j = k

DeadEnd(at, met, type) ==
    at \in met \/ (Records!Holds(at, type) = {} /\ Records!Target(at) = {})

(* How a walk stands after so many turns of the loop: under way, at a dead *)
(* end, or with what was asked for.                                        *)
Stands(w, c, turns, type) ==
    \/ ~w.done /\ w.answer = c /\ Len(c) = turns
    \/ w.done /\ Len(c) < turns /\ w.answer = c /\ DeadEnd(w.at, w.seen, type)
    \/ /\ w.done /\ Len(c) < turns /\ w.at \notin w.seen /\ Records!Holds(w.at, type) # {}
       /\ w.answer = c \o Records!Ordered(Records!Holds(w.at, type))

Walked(w, turns, name, type) ==
    /\ w \in Walks(name)
    /\ \E c \in Chains : IsChain(c, name, type, w.at, w.seen) /\ Stands(w, c, turns, type)

(* An alias more.                                                          *)
LEMMA ChainGrows ==
    ASSUME NEW c \in Chains, NEW name, NEW type, NEW at, NEW met,
           IsChain(c, name, type, at, met), at \notin met,
           NEW alias \in resolver, alias.type = "CNAME", alias.name = at,
           Records!Holds(at, type) = {}, Records!Target(at) = {alias.value}
    PROVE  /\ Append(c, alias) \in Chains /\ Len(Append(c, alias)) = Len(c) + 1
           /\ IsChain(Append(c, alias), name, type, alias.value, met \cup {at})
<1> DEFINE n == Len(c)
           d == Append(c, alias)
<1>1. n \in Nat /\ d \in Chains /\ Len(d) = n + 1 /\ DOMAIN c = 1..n /\ DOMAIN d = 1..n + 1
  BY DEF Chains
<1>2. d[n + 1] = alias /\ \A k \in 1..n : d[k] = c[k]
  BY DEF Chains
<1>3. c = <<>> <=> n = 0
  BY DEF Chains
<1> HIDE DEF d, n
<1>4. \A k \in 1..n + 1 : k \in 1..n \/ k = n + 1
  BY <1>1
<1>5. n + 1 \in 1..n + 1 /\ \A k \in 1..n : k \in 1..n + 1
  BY <1>1
<1>6. \A k \in DOMAIN d : /\ d[k].type = "CNAME" /\ Records!Holds(d[k].name, type) = {}
                          /\ Records!Target(d[k].name) = {d[k].value}
  <2> SUFFICES ASSUME NEW k \in DOMAIN d
               PROVE  /\ d[k].type = "CNAME" /\ Records!Holds(d[k].name, type) = {}
                      /\ Records!Target(d[k].name) = {d[k].value}
    OBVIOUS
  <2>1. k \in 1..n \/ k = n + 1
    BY <1>1, <1>4
  <2>2. CASE k \in 1..n
    BY <1>1, <1>2, <2>2 DEF IsChain
  <2>3. CASE k = n + 1
    BY <1>2, <2>3
  <2> QED BY <2>1, <2>2, <2>3
<1>7. \A k \in 1..n : d[k + 1].name = d[k].value
  <2> SUFFICES ASSUME NEW k \in 1..n PROVE d[k + 1].name = d[k].value
    OBVIOUS
  <2>1. CASE k = n
    <3>1. n # 0 /\ at = c[n].value
      BY <1>1, <1>3, <2>1 DEF IsChain, n
    <3> QED BY <1>2, <2>1, <3>1
  <2>2. CASE k # n
    <3>1. k \in 1..n - 1 /\ k + 1 \in 1..n
      BY <1>1, <2>2
    <3>2. c[k + 1].name = c[k].value
      BY <3>1 DEF IsChain, n
    <3> QED BY <1>2, <3>1, <3>2
  <2> QED BY <2>1, <2>2
<1>8. d[1].name = name /\ d # <<>> /\ alias.value = d[Len(d)].value
  <2>1. CASE n = 0
    BY <1>1, <1>2, <1>3, <2>1 DEF IsChain
  <2>2. CASE n # 0
    <3>1. 1 \in 1..n
      BY <1>1, <2>2
    <3> QED BY <1>1, <1>2, <1>3, <2>2, <3>1 DEF IsChain
  <2> QED BY <2>1, <2>2
<1>9. met \cup {at} = {d[k].name : k \in DOMAIN d}
  <2>1. met = {c[k].name : k \in 1..n}
    BY <1>1 DEF IsChain
  <2> QED BY <1>1, <1>2, <1>4, <1>5, <2>1
<1>10. \A j, k \in DOMAIN d : d[j].name = d[k].name => j = k
  <2>1. \A k \in 1..n : d[k].name # at
    BY <1>1, <1>2 DEF IsChain
  <2>2. \A j, k \in 1..n : d[j].name = d[k].name => j = k
    BY <1>1, <1>2 DEF IsChain
  <2> QED BY <1>1, <1>2, <1>4, <2>1, <2>2
<1>11. Len(d) - 1 = n
  BY <1>1
<1>12. IsChain(d, name, type, alias.value, met \cup {at})
  BY <1>6, <1>7, <1>8, <1>9, <1>10, <1>11 DEF IsChain
<1> QED BY <1>1, <1>12 DEF d, n

(* A turn of the loop.                                                     *)
LEMMA StepWalked ==
    ASSUME ReadOut(resolver), NEW name, NEW type \in {"A", "AAAA"}, NEW turns \in Nat,
           NEW w, Walked(w, turns, name, type)
    PROVE  Walked(Records!Step(resolver, type, w), turns + 1, name, type)
<1> DEFINE v == Records!Step(resolver, type, w)
           holds == Records!Holds(w.at, type)
           alias == Records!FirstAlias(resolver, w.at)
<1> SUFFICES Walked(v, turns + 1, name, type)
  OBVIOUS
<1>1. PICK c \in Chains : IsChain(c, name, type, w.at, w.seen) /\ Stands(w, c, turns, type)
  BY DEF Walked
<1>2. /\ w \in Walks(name) /\ w.at \in Places(name) /\ w.seen \in SUBSET Places(name)
      /\ w.answer \in Chains /\ w.done \in BOOLEAN /\ Len(c) \in Nat
      /\ w = [at |-> w.at, seen |-> w.seen, answer |-> w.answer, done |-> w.done]
  BY DEF Walked, Walks, Chains
<1>3. Records!Direct(resolver, type, w.at) = holds /\ ReadOut(holds) /\ holds \subseteq resolver
  BY FoundFacts DEF Records!Holds
<1>4. type \in Records!FollowsAliases
  BY DEF Records!FollowsAliases
<1>5. CASE w.done
  <2>1. v = w
    BY <1>2, <1>5 DEF Records!Step, Records!Ended
  <2> HIDE DEF v
  <2>2. Stands(w, c, turns + 1, type)
    BY <1>1, <1>2, <1>5 DEF Stands
  <2> QED BY <1>1, <1>2, <2>1, <2>2 DEF Walked
<1>6. CASE ~w.done /\ (w.at \in w.seen \/ (holds = {} /\ Records!Aliases(resolver, w.at) = {}))
  <2>1. v = [at |-> w.at, seen |-> w.seen, answer |-> w.answer, done |-> TRUE]
    BY <1>2, <1>3, <1>6 DEF Records!Step, Records!Ended
  <2>2. v \in Walks(name) /\ v.at = w.at /\ v.seen = w.seen /\ v.answer = w.answer /\ v.done = TRUE
    <3> HIDE DEF v
    <3> QED BY <1>2, <2>1 DEF Walks
  <2> HIDE DEF v
  <2>3. DeadEnd(w.at, w.seen, type)
    BY <1>6, FoundFacts DEF DeadEnd
  <2>4. Len(c) < turns + 1 /\ w.answer = c
    BY <1>1, <1>2, <1>6 DEF Stands
  <2>5. Stands(v, c, turns + 1, type)
    BY <2>2, <2>3, <2>4 DEF Stands
  <2> QED BY <1>1, <2>2, <2>5 DEF Walked
<1>7. CASE ~w.done /\ w.at \notin w.seen /\ holds # {}
  <2> DEFINE found == Records!Ordered(holds)
             out == c \o found
  <2>1. w.answer = c /\ Len(c) < turns + 1
    BY <1>1, <1>2, <1>7 DEF Stands
  <2>2. v = [at |-> w.at, seen |-> w.seen, answer |-> out, done |-> TRUE]
    <3>1. v = Records!EndedWith(w, holds)
      BY <1>3, <1>7 DEF Records!Step
    <3>2. Records!EndedWith(w, holds) = [w EXCEPT !.answer = w.answer \o found, !.done = TRUE]
      BY DEF Records!EndedWith
    <3> HIDE DEF v, found, holds
    <3> QED BY <1>2, <2>1, <3>1, <3>2
  <2>3. out \in Chains
    <3>1. found \in Seq(holds)
      BY <1>3, OrderedFacts
    <3>2. found \in Chains
      BY <1>3, <3>1 DEF Chains
    <3> HIDE DEF found
    <3> QED BY <3>2 DEF Chains
  <2>4. v \in Walks(name) /\ v.at = w.at /\ v.seen = w.seen /\ v.answer = out /\ v.done = TRUE
    <3> HIDE DEF v, out
    <3> QED BY <1>2, <2>2, <2>3 DEF Walks
  <2> HIDE DEF v
  <2>5. Stands(v, c, turns + 1, type)
    BY <1>7, <2>1, <2>4 DEF Stands
  <2> QED BY <1>1, <2>4, <2>5 DEF Walked
<1>8. CASE ~w.done /\ w.at \notin w.seen /\ holds = {} /\ Records!Aliases(resolver, w.at) # {}
  <2> DEFINE d == Append(c, alias)
             met == w.seen \cup {w.at}
  <2>1. w.answer = c /\ Len(c) = turns
    BY <1>1, <1>2, <1>8 DEF Stands
  <2>2. v = [at |-> alias.value, seen |-> met, answer |-> d, done |-> FALSE]
    <3>1. v = [w EXCEPT !.answer = Append(w.answer, alias), !.at = alias.value, !.seen = w.seen \cup {w.at}]
      BY <1>3, <1>4, <1>8 DEF Records!Step
    <3> HIDE DEF v, alias
    <3> QED BY <1>2, <1>8, <2>1, <3>1
  <2>3. /\ alias \in resolver /\ alias.name = w.at /\ alias.type = "CNAME"
        /\ Records!Target(w.at) = {alias.value}
    BY <1>8, FoundFacts
  <2>4. d \in Chains /\ Len(d) = turns + 1 /\ IsChain(d, name, type, alias.value, met)
    <3>1. IsChain(c, name, type, w.at, w.seen) /\ Records!Holds(w.at, type) = {} /\ w.at \notin w.seen
      BY <1>1, <1>8
    <3>2. Records!Target(w.at) = {alias.value}
      BY <2>3
    <3> HIDE DEF alias
    <3>3. Append(c, alias) \in Chains /\ Len(Append(c, alias)) = Len(c) + 1
      BY <2>3 DEF Chains
    <3>4. IsChain(Append(c, alias), name, type, alias.value, w.seen \cup {w.at})
      BY <2>3, <3>1, <3>2, ChainGrows
    <3> QED BY <2>1, <3>3, <3>4
  <2>5. alias.value \in Places(name) /\ met \in SUBSET Places(name)
    BY <1>2, <2>3 DEF Places
  <2>6. v \in Walks(name) /\ v.at = alias.value /\ v.seen = met /\ v.answer = d /\ v.done = FALSE
    <3> HIDE DEF v, d, met, alias
    <3> QED BY <2>2, <2>4, <2>5 DEF Walks
  <2> HIDE DEF v, d, met, alias
  <2>7. Stands(v, d, turns + 1, type)
    BY <2>4, <2>6 DEF Stands
  <2> QED BY <2>4, <2>6, <2>7 DEF Walked
<1> QED BY <1>2, <1>5, <1>6, <1>7, <1>8

(* The loop from its start to its bound.                                   *)
LEMMA AnswerWalked ==
    ASSUME ReadOut(resolver), NEW name, NEW type \in {"A", "AAAA"}
    PROVE  \E w : /\ Walked(w, maxCNAMEChain, name, type)
                  /\ Records!answerName(resolver, type, name) = w.answer
<1> DEFINE W == Walks(name)
           first == [at |-> name, seen |-> {}, answer |-> <<>>, done |-> FALSE]
           n == maxCNAMEChain
           step(w) == Records!Step(resolver, type, w)
           F == [w \in W |-> IF step(w) \in W THEN step(w) ELSE w]
           rule(f) == [k \in 0..n |-> IF k = 0 THEN first ELSE step(f[k - 1])]
           walk == CHOOSE f : f = rule(f)
<1>1. n \in Nat
  BY AnsweringAssumption DEF Records!LocalRecordsAssumption
<1>2. Walked(first, 0, name, type)
  <2>1. <<>> \in Chains /\ Len(<<>>) = 0 /\ DOMAIN <<>> = {}
    BY DEF Chains
  <2>2. first \in W
    BY <2>1 DEF Walks, Places
  <2>3. IsChain(<<>>, name, type, name, {})
    BY DEF IsChain
  <2>4. Stands(first, <<>>, 0, type)
    BY <2>1 DEF Stands
  <2> QED BY <2>1, <2>2, <2>3, <2>4 DEF Walked
<1>3. first \in W /\ F \in [W -> W]
  BY <1>2 DEF Walked
<1>4. PICK f \in [0..n -> W] : f[0] = first /\ \A k \in 1..n : f[k] = F[f[k - 1]]
  <2> HIDE DEF F, first, n, W
  <2>1. \E f : Iterates(f, n, W, first, F)
    BY <1>1, <1>3, Iterated
  <2> QED BY <2>1 DEF Iterates
<1>5. ASSUME NEW k \in Nat, NEW w, Walked(w, k, name, type)
      PROVE  Walked(step(w), k + 1, name, type) /\ w \in W /\ step(w) \in W
  <2>1. Walked(step(w), k + 1, name, type)
    BY <1>5, StepWalked
  <2> HIDE DEF step
  <2>2. w \in Walks(name)
    BY <1>5 DEF Walked
  <2>3. step(w) \in Walks(name)
    BY <2>1 DEF Walked
  <2> QED BY <2>1, <2>2, <2>3
<1> HIDE DEF W, first, n
<1>6. \A k \in 0..n : Walked(f[k], k, name, type)
  <2> DEFINE T == {k \in Nat : k \in 0..n /\ ~Walked(f[k], k, name, type)}
  <2>1. ASSUME T # {} PROVE FALSE
    <3>1. PICK m \in T : \A k \in T : m <= k
      <4> HIDE DEF T
      <4>1. T \in SUBSET Nat
        BY DEF T
      <4> QED BY <2>1, <4>1, Smallest
    <3>2. m # 0 /\ m \in Nat /\ m \in 0..n
      BY <1>2, <1>4
    <3>3. m - 1 \in Nat /\ m - 1 \in 0..n /\ m - 1 \notin T /\ m \in 1..n
      BY <1>1, <3>1, <3>2
    <3>4. Walked(f[m - 1], m - 1, name, type)
      BY <3>3
    <3>5. f[m] = F[f[m - 1]] /\ f[m - 1] \in W
      BY <1>4, <3>3
    <3>6. step(f[m - 1]) \in W /\ Walked(step(f[m - 1]), (m - 1) + 1, name, type)
      BY <1>5, <3>3, <3>4
    <3>7. f[m] = step(f[m - 1]) /\ (m - 1) + 1 = m
      BY <3>2, <3>5, <3>6
    <3> QED BY <3>1, <3>6, <3>7
  <2> QED BY <1>1, <2>1
<1>7. \A k \in 1..n : f[k] = step(f[k - 1])
  <2> SUFFICES ASSUME NEW k \in 1..n PROVE f[k] = step(f[k - 1])
    OBVIOUS
  <2>1. k - 1 \in 0..n /\ k - 1 \in Nat
    BY <1>1
  <2>2. f[k - 1] \in W /\ step(f[k - 1]) \in W
    BY <1>4, <1>5, <1>6, <2>1
  <2> QED BY <1>4, <2>2
<1>8. f = rule(f)
  <2> HIDE DEF step
  <2>1. f = [k \in 0..n |-> f[k]]
    BY <1>4
  <2>2. \A k \in 0..n : f[k] = IF k = 0 THEN first ELSE step(f[k - 1])
    BY <1>1, <1>4, <1>7
  <2> QED BY <2>1, <2>2
<1>9. walk = rule(walk)
  <2> HIDE DEF rule
  <2> QED BY <1>8
<1>10. Records!answerName(resolver, type, name) = walk[n].answer
  BY DEF Records!answerName, first, n
<1> HIDE DEF walk
<1>11. walk[0] = first /\ \A k \in 1..n : walk[k] = step(walk[k - 1])
  <2> HIDE DEF step
  <2>1. \A k \in 0..n : walk[k] = IF k = 0 THEN first ELSE step(walk[k - 1])
    BY <1>9
  <2> QED BY <1>1, <2>1
<1>12. \A k \in 0..n : Walked(walk[k], k, name, type)
  <2> DEFINE T == {k \in Nat : k \in 0..n /\ ~Walked(walk[k], k, name, type)}
  <2>1. ASSUME T # {} PROVE FALSE
    <3>1. PICK m \in T : \A k \in T : m <= k
      <4> HIDE DEF T
      <4>1. T \in SUBSET Nat
        BY DEF T
      <4> QED BY <2>1, <4>1, Smallest
    <3>2. m # 0 /\ m \in Nat /\ m \in 0..n
      BY <1>2, <1>11
    <3>3. m - 1 \in Nat /\ m - 1 \in 0..n /\ m - 1 \notin T /\ m \in 1..n
      BY <1>1, <3>1, <3>2
    <3>4. Walked(walk[m - 1], m - 1, name, type)
      BY <3>3
    <3>5. Walked(step(walk[m - 1]), (m - 1) + 1, name, type)
      BY <1>5, <3>3, <3>4
    <3>6. walk[m] = step(walk[m - 1]) /\ (m - 1) + 1 = m
      BY <1>11, <3>2, <3>3
    <3> QED BY <3>1, <3>5, <3>6
  <2> QED BY <1>1, <2>1
<1>13. Walked(walk[n], n, name, type)
  BY <1>1, <1>12
<1> QED BY <1>10, <1>13 DEF n

-----------------------------------------------------------------------------
(* The answers.                                                            *)

(* An answer from custom records, as the walk has left it: the aliases,    *)
(* and what was found at their end.                                        *)
EndsAt(answer, c, at, met, type) ==
    /\ Len(c) <= maxCNAMEChain
    /\ \/ answer = c /\ Len(c) = maxCNAMEChain
       \/ answer = c /\ DeadEnd(at, met, type)
       \/ /\ Len(c) < maxCNAMEChain /\ Records!Holds(at, type) # {}
          /\ answer = c \o Records!Ordered(Records!Holds(at, type))

LEMMA AnswerMade ==
    ASSUME ReadOut(resolver), NEW name \in Records!Domains, NEW type \in {"A", "AAAA"}
    PROVE  \E c \in Chains : \E at, met :
              IsChain(c, name, type, at, met) /\ EndsAt(Records!Asked(name, type), c, at, met, type)
<1>1. Records!Asked(name, type) = Records!answerName(resolver, type, name)
  BY DEF Records!Asked, Records!Resolve
<1>2. PICK w : /\ Walked(w, maxCNAMEChain, name, type)
               /\ Records!answerName(resolver, type, name) = w.answer
  BY AnswerWalked
<1>3. PICK c \in Chains : IsChain(c, name, type, w.at, w.seen) /\ Stands(w, c, maxCNAMEChain, type)
  BY <1>2 DEF Walked
<1>4. Len(c) \in Nat /\ maxCNAMEChain \in Nat
  BY AnsweringAssumption DEF Records!LocalRecordsAssumption, Chains
<1>5. Len(c) <= maxCNAMEChain
  BY <1>3, <1>4 DEF Stands
<1>6. CASE ~w.done /\ w.answer = c /\ Len(c) = maxCNAMEChain
  BY <1>1, <1>2, <1>3, <1>5, <1>6 DEF EndsAt
<1>7. CASE w.done /\ Len(c) < maxCNAMEChain /\ w.answer = c /\ DeadEnd(w.at, w.seen, type)
  BY <1>1, <1>2, <1>3, <1>5, <1>7 DEF EndsAt
<1>8. CASE /\ w.done /\ Len(c) < maxCNAMEChain /\ w.at \notin w.seen /\ Records!Holds(w.at, type) # {}
           /\ w.answer = c \o Records!Ordered(Records!Holds(w.at, type))
  BY <1>1, <1>2, <1>3, <1>5, <1>8 DEF EndsAt
<1> QED BY <1>3, <1>6, <1>7, <1>8 DEF Stands

(* Aliases that lead on form a chain.                                      *)
LEMMA ChainRows ==
    ASSUME ReadOut(resolver), NEW c \in Chains
    PROVE  Len(c) \in Nat /\ DOMAIN c = 1..Len(c) /\ (c = <<>> <=> Len(c) = 0)
           /\ \A k \in DOMAIN c : c[k] \in resolver
BY DEF Chains

(* What was asked for, at the end of the aliases: m records after n.       *)
Extends(answer, c, n, m, holds) ==
    /\ n \in Nat /\ m \in Nat /\ m > 0 /\ Len(answer) = n + m
    /\ \A k \in 1..n : answer[k] = c[k]
    /\ \A k \in n + 1..n + m : answer[k] \in holds
    /\ \A r \in holds : \E k \in n + 1..n + m : answer[k] = r
    /\ \A j, k \in n + 1..n + m : answer[j] = answer[k] => j = k

LEMMA EndRows ==
    ASSUME ReadOut(resolver), NEW c \in Chains, NEW at, NEW type \in {"A", "AAAA"},
           NEW holds, holds = Records!Holds(at, type), holds # {},
           NEW answer, answer = c \o Records!Ordered(holds),
           NEW n, n = Len(c), NEW m, m = Cardinality(holds)
    PROVE  Extends(answer, c, n, m, holds)
<1> DEFINE found == Records!Ordered(holds)
<1>1. ReadOut(holds)
  BY FoundFacts
<1>2. /\ m \in Nat /\ found \in Seq(holds) /\ Len(found) = m
      /\ \A k \in 1..m : found[k] \in holds /\ Records!Place(found[k], holds) = k
      /\ \A r \in holds : Records!Place(r, holds) \in 1..m /\ found[Records!Place(r, holds)] = r
  BY <1>1, OrderedFacts, PlaceFacts
<1>3. c \in Seq(resolver) /\ n \in Nat /\ DOMAIN c = 1..n
  BY DEF Chains
<1>4. PICK r \in holds : TRUE
  OBVIOUS
<1> HIDE DEF found
<1>5. m > 0
  BY <1>2, <1>4
<1>6. Len(answer) = n + m
  BY <1>2, <1>3 DEF found
<1>7. \A k \in 1..n : answer[k] = c[k]
  BY <1>2, <1>3 DEF found
<1>8. ASSUME NEW k \in n + 1..n + m PROVE k - n \in 1..m /\ answer[k] = found[k - n]
  <2>1. k \in Nat /\ k > n /\ k <= n + m
    BY <1>2, <1>3
  <2>2. answer = c \o found
    BY DEF found
  <2>3. k \in 1..Len(c) + Len(found) /\ ~(k <= Len(c))
    BY <1>2, <1>3, <2>1
  <2>4. answer[k] = found[k - Len(c)]
    BY <1>2, <1>3, <2>2, <2>3
  <2>5. k - n \in 1..m
    BY <1>2, <1>3, <2>1
  <2> QED BY <2>4, <2>5
<1>9. ASSUME NEW k \in n + 1..n + m PROVE answer[k] \in holds
  <2>1. k - n \in 1..m /\ answer[k] = found[k - n]
    BY <1>8
  <2>2. found[k - n] \in holds
    BY <1>2, <2>1
  <2> QED BY <2>1, <2>2
<1>10. ASSUME NEW s \in holds PROVE \E k \in n + 1..n + m : answer[k] = s
  <2> DEFINE p == Records!Place(s, holds)
  <2>1. p \in 1..m /\ found[p] = s
    BY <1>2
  <2> HIDE DEF p
  <2>2. n + p \in n + 1..n + m /\ (n + p) - n = p
    BY <1>2, <1>3, <2>1
  <2> QED BY <1>8, <2>1, <2>2
<1>11. ASSUME NEW j \in n + 1..n + m, NEW k \in n + 1..n + m, answer[j] = answer[k] PROVE j = k
  <2>1. j - n \in 1..m /\ k - n \in 1..m /\ found[j - n] = found[k - n]
    BY <1>8, <1>11
  <2>2. j - n = k - n
    BY <1>2, <2>1
  <2> QED BY <1>2, <1>3, <2>2
<1> QED BY <1>2, <1>3, <1>5, <1>6, <1>7, <1>9, <1>10, <1>11 DEF Extends

(* The aliases of an answer, counted.                                      *)
LEMMA FewAliases ==
    ASSUME NEW n \in Nat, NEW K, K \subseteq 1..n
    PROVE  Records!Cardinality(K) <= n
<1>1. IsFiniteSet(1..n) /\ Cardinality(1..n) = n
  <2>1. 1 \in Int /\ n \in Int
    OBVIOUS
  <2>2. IsFiniteSet(1..n) /\ Cardinality(1..n) = IF 1 > n THEN 0 ELSE n - 1 + 1
    BY <2>1, FS_Interval, Zenon
  <2> QED BY <2>2
<1>2. Cardinality(K) <= Cardinality(1..n)
  BY <1>1, FS_Subset
<1> QED BY <1>1, <1>2, SameCountRecords

(* What AnswersAreChains says of an answer.                                *)
IsAnswer(answer, name, type) ==
    LET last == answer[Len(answer)]
    IN  /\ answer[1].name = name
        /\ \A k \in 1..Len(answer) - 1 :
              IF answer[k].type = "CNAME"
              THEN answer[k + 1].name = answer[k].value
              ELSE answer[k + 1].name = answer[k].name
        /\ \A j, k \in 1..Len(answer) : answer[j] = answer[k] => j = k
        /\ Records!Cardinality({k \in 1..Len(answer) : answer[k].type = "CNAME"}) <= maxCNAMEChain
        /\ \/ last.type = type
           \/ Records!Holds(last.value, type) = {} /\ Records!Target(last.value) = {}
           \/ \E k \in 1..Len(answer) : answer[k].name = last.value
           \/ Len(answer) = maxCNAMEChain

(* Every answer is a chain from the name asked for.                        *)
LEMMA ManyAliases ==
    ASSUME NEW n \in Nat, NEW K, K \subseteq 1..n, n <= maxCNAMEChain, maxCNAMEChain \in Nat
    PROVE  Records!Cardinality(K) <= maxCNAMEChain
<1>1. IsFiniteSet(K)
  <2>1. 1 \in Int /\ n \in Int
    OBVIOUS
  <2>2. IsFiniteSet(1..n)
    BY <2>1, FS_Interval, Zenon
  <2> QED BY <2>2, FS_Subset
<1>2. Records!Cardinality(K) \in Nat
  BY <1>1, FS_CardinalityType, SameCountRecords
<1>3. Records!Cardinality(K) <= n
  BY FewAliases
<1> QED BY <1>2, <1>3

LEMMA ChainGood ==
    ASSUME ReadOut(resolver), NEW name \in Records!Domains, NEW type \in {"A", "AAAA"},
           NEW c \in Chains, NEW at, NEW met, IsChain(c, name, type, at, met),
           NEW answer, answer # <<>>, EndsAt(answer, c, at, met, type)
    PROVE  IsAnswer(answer, name, type)
<1> DEFINE n == Len(c)
           last == answer[Len(answer)]
           aliases == {k \in 1..Len(answer) : answer[k].type = "CNAME"}
           Ending == \/ last.type = type
                     \/ Records!Holds(last.value, type) = {} /\ Records!Target(last.value) = {}
                     \/ \E k \in 1..Len(answer) : answer[k].name = last.value
                     \/ Len(answer) = maxCNAMEChain
<1>1. n \in Nat /\ DOMAIN c = 1..n /\ (c = <<>> <=> n = 0) /\ maxCNAMEChain \in Nat
  BY ChainRows, AnsweringAssumption DEF Records!LocalRecordsAssumption
<1>2. /\ \A k \in 1..n : /\ c[k].type = "CNAME" /\ Records!Holds(c[k].name, type) = {}
                         /\ Records!Target(c[k].name) = {c[k].value}
      /\ \A k \in 1..n - 1 : c[k + 1].name = c[k].value
      /\ IF n = 0 THEN at = name ELSE c[1].name = name /\ at = c[n].value
      /\ met = {c[k].name : k \in 1..n}
      /\ \A j, k \in 1..n : c[j].name = c[k].name => j = k
  BY <1>1 DEF IsChain
<1> HIDE DEF n
<1>3. \A j, k \in 1..n : c[j] = c[k] => j = k
  BY <1>2
<1>6. n <= maxCNAMEChain
  BY DEF n, EndsAt
<1>4. CASE answer = c
  <2>1. n # 0 /\ 1 \in 1..n /\ n \in 1..n /\ Len(answer) = n
    <3>1. Len(answer) = n
      BY <1>4 DEF n
    <3> QED BY <1>1, <1>4, <3>1
  <2>2. answer[1].name = name /\ last = answer[n] /\ at = answer[n].value
    BY <1>2, <1>4, <2>1
  <2>3. \A k \in 1..n - 1 : k \in 1..n
    BY <1>1
  <2>4. \A k \in 1..n - 1 : IF answer[k].type = "CNAME"
                            THEN answer[k + 1].name = answer[k].value
                            ELSE answer[k + 1].name = answer[k].name
    BY <1>2, <1>4, <2>3
  <2>5. aliases \subseteq 1..n
    BY <2>1
  <2> HIDE DEF aliases, last
  <2>6. Records!Cardinality(aliases) <= maxCNAMEChain
    BY <1>1, <1>6, <2>5, ManyAliases DEF n
  <2>7. Ending
    <3>1. CASE Len(c) = maxCNAMEChain
      BY <2>1, <3>1 DEF n
    <3>2. CASE at \in met
      <4>1. \E k \in 1..Len(answer) : answer[k].name = last.value
        BY <1>2, <1>4, <2>1, <2>2, <3>2
      <4> QED BY <4>1
    <3>3. CASE Records!Holds(at, type) = {} /\ Records!Target(at) = {}
      BY <2>2, <3>3
    <3>4. CASE Records!Holds(at, type) # {} /\ answer = c \o Records!Ordered(Records!Holds(at, type))
      <4> DEFINE m == Cardinality(Records!Holds(at, type))
      <4>1. m \in Nat /\ m > 0 /\ Len(answer) = n + m
        <5>1. Extends(answer, c, n, m, Records!Holds(at, type))
          BY <3>4, EndRows DEF n
        <5> HIDE DEF m
        <5> QED BY <5>1 DEF Extends
      <4> HIDE DEF m
      <4> QED BY <1>1, <2>1, <4>1
    <3> QED BY <3>1, <3>2, <3>3, <3>4 DEF DeadEnd, EndsAt
  <2> HIDE DEF Ending
  <2>8. \A j, k \in 1..Len(answer) : answer[j] = answer[k] => j = k
    BY <1>3, <1>4, <2>1
  <2> QED BY <2>1, <2>2, <2>4, <2>6, <2>7, <2>8 DEF IsAnswer, Ending, aliases, last
<1>5. CASE /\ Len(c) < maxCNAMEChain /\ Records!Holds(at, type) # {}
           /\ answer = c \o Records!Ordered(Records!Holds(at, type))
  <2> DEFINE holds == Records!Holds(at, type)
             m == Cardinality(holds)
  <2>1. /\ m \in Nat /\ m > 0 /\ Len(answer) = n + m
        /\ \A k \in 1..n : answer[k] = c[k]
        /\ \A k \in n + 1..n + m : answer[k] \in holds
        /\ \A j, k \in n + 1..n + m : answer[j] = answer[k] => j = k
    <3>1. n = Len(c) /\ holds # {} /\ answer = c \o Records!Ordered(holds)
      BY <1>5 DEF n
    <3>2. Extends(answer, c, n, m, holds)
      BY <3>1, EndRows
    <3> HIDE DEF m, holds
    <3> QED BY <3>2 DEF Extends
  <2>2. \A r \in holds : r.name = at /\ r.type = type /\ r.type # "CNAME"
    BY DEF Records!Holds
  <2> HIDE DEF m, holds, n
  <2>3. \A k \in 1..n + m : k \in 1..n \/ k \in n + 1..n + m
    BY <1>1, <2>1
  <2>4. answer[1].name = name
    <3>1. CASE n = 0
      <4>1. 1 \in n + 1..n + m
        BY <1>1, <2>1, <3>1
      <4> QED BY <1>2, <2>1, <2>2, <3>1, <4>1
    <3>2. CASE n # 0
      <4>1. 1 \in 1..n
        BY <1>1, <3>2
      <4> QED BY <1>2, <2>1, <3>2, <4>1
    <3> QED BY <3>1, <3>2
  <2>5. ASSUME NEW k \in 1..(n + m) - 1
        PROVE  IF answer[k].type = "CNAME"
               THEN answer[k + 1].name = answer[k].value
               ELSE answer[k + 1].name = answer[k].name
    <3>1. CASE k \in 1..n - 1
      <4>1. k \in 1..n /\ k + 1 \in 1..n
        BY <1>1, <3>1
      <4> QED BY <1>2, <2>1, <3>1, <4>1
    <3>2. CASE k = n
      <4>1. n \in 1..n /\ n # 0 /\ n + 1 \in n + 1..n + m
        BY <1>1, <2>1, <3>2
      <4>2. answer[n] = c[n] /\ answer[n + 1].name = at /\ c[n].type = "CNAME" /\ at = c[n].value
        BY <1>2, <2>1, <2>2, <4>1
      <4> QED BY <3>2, <4>2
    <3>3. CASE k \in n + 1..n + m
      <4>1. k + 1 \in n + 1..n + m
        BY <1>1, <2>1, <3>3
      <4> QED BY <2>1, <2>2, <3>3, <4>1
    <3>4. k \in 1..n - 1 \/ k = n \/ k \in n + 1..n + m
      BY <1>1, <2>1
    <3> QED BY <3>1, <3>2, <3>3, <3>4
  <2>6. ASSUME NEW j \in 1..n + m, NEW k \in 1..n + m, answer[j] = answer[k] PROVE j = k
    <3>1. \A i \in 1..n : answer[i].type = "CNAME"
      BY <1>2, <2>1
    <3>2. \A i \in n + 1..n + m : answer[i].type # "CNAME"
      BY <2>1, <2>2
    <3>3. CASE j \in 1..n /\ k \in 1..n
      BY <1>3, <2>1, <2>6, <3>3
    <3>4. CASE j \in n + 1..n + m /\ k \in n + 1..n + m
      BY <2>1, <2>6, <3>4
    <3> QED BY <2>3, <2>6, <3>1, <3>2, <3>3, <3>4
  <2>7. Records!Cardinality(aliases) <= maxCNAMEChain
    <3>1. aliases \subseteq 1..n
      BY <2>1, <2>2, <2>3
    <3> HIDE DEF aliases
    <3> QED BY <1>1, <1>6, <3>1, ManyAliases
  <2>8. last.type = type
    <3>1. n + m \in n + 1..n + m
      BY <1>1, <2>1
    <3> QED BY <2>1, <2>2, <3>1
  <2>9. Ending
    BY <2>8
  <2> HIDE DEF aliases, last, Ending
  <2> QED BY <2>1, <2>4, <2>5, <2>6, <2>7, <2>9 DEF IsAnswer, Ending, aliases, last
<1> QED BY <1>4, <1>5 DEF EndsAt

(* Whatever the records say, an answer is a chain.                         *)
LEMMA ChainsGood == ASSUME ReadOut(resolver) PROVE Records!AnswersAreChains
<1>1. ASSUME NEW name \in Records!Domains, NEW type \in {"A", "AAAA"},
             Records!Asked(name, type) # <<>>
      PROVE  IsAnswer(Records!Asked(name, type), name, type)
  BY <1>1, AnswerMade, ChainGood
<1> QED BY <1>1 DEF Records!AnswersAreChains, IsAnswer

(* The names a number of aliases away, by the lookup that follows them.    *)
LEMMA HopsFacts ==
    ASSUME NEW name, maxCNAMEChain \in Nat
    PROVE  /\ Records!After(name)[0] = {name}
           /\ \A k \in 1..maxCNAMEChain :
                 Records!After(name)[k] = UNION {Records!Target(x) : x \in Records!After(name)[k - 1]}
<1> DEFINE N == maxCNAMEChain
           W == SUBSET Places(name)
           first == {name}
           next(S) == UNION {Records!Target(x) : x \in S}
           F == [S \in W |-> next(S)]
           rule(f) == [k \in 0..N |-> IF k = 0 THEN first ELSE next(f[k - 1])]
           hops == CHOOSE f : f = rule(f)
<1>1. \A x : Records!Target(x) \subseteq Places(name)
  BY DEF Records!Target, Places
<1>2. first \in W
  BY DEF Places
<1>3. F \in [W -> W]
  BY <1>1
<1>4. PICK f \in [0..N -> W] : f[0] = first /\ \A k \in 1..N : f[k] = F[f[k - 1]]
  <2> HIDE DEF F, first, W
  <2>1. \E f : Iterates(f, N, W, first, F)
    BY <1>2, <1>3, Iterated
  <2> QED BY <2>1 DEF Iterates
<1>5. \A k \in 1..N : f[k] = next(f[k - 1])
  <2> HIDE DEF next, W
  <2>1. \A k \in 1..N : k - 1 \in 0..N
    OBVIOUS
  <2> QED BY <1>4, <2>1
<1>6. f = rule(f)
  <2> HIDE DEF next, first, W
  <2>1. f = [k \in 0..N |-> f[k]]
    BY <1>4
  <2>2. \A k \in 0..N : f[k] = IF k = 0 THEN first ELSE next(f[k - 1])
    BY <1>4, <1>5
  <2> QED BY <2>1, <2>2
<1>7. hops = rule(hops)
  <2> HIDE DEF rule
  <2> QED BY <1>6
<1>8. Records!After(name) = hops
  BY DEF Records!After
<1> HIDE DEF hops
<1>9. hops[0] = first /\ \A k \in 1..N : hops[k] = next(hops[k - 1])
  <2> HIDE DEF next, first
  <2>1. \A k \in 0..N : hops[k] = IF k = 0 THEN first ELSE next(hops[k - 1])
    BY <1>7
  <2> QED BY <2>1
<1> QED BY <1>8, <1>9

(* They are where the walk passes; and beyond a dead end it has passed.    *)
Follow(hops, c, n, at) == (\A k \in 0..n - 1 : hops[k] = {c[k + 1].name}) /\ hops[n] = {at}

LEMMA HopsOnChain ==
    ASSUME maxCNAMEChain \in Nat, ReadOut(resolver), NEW name, NEW type, NEW c \in Chains,
           NEW at, NEW met, IsChain(c, name, type, at, met), Len(c) <= maxCNAMEChain,
           NEW n, n = Len(c)
    PROVE  Follow(Records!After(name), c, n, at)
<1> DEFINE hops == Records!After(name)
           Spot(k) == IF k < n THEN c[k + 1].name ELSE at
           T == {k \in Nat : k \in 0..n /\ hops[k] # {Spot(k)}}
<1>1. n \in Nat /\ DOMAIN c = 1..n /\ (c = <<>> <=> n = 0) /\ n <= maxCNAMEChain
  BY ChainRows
<1>2. /\ \A k \in 1..n : Records!Target(c[k].name) = {c[k].value}
      /\ \A k \in 1..n - 1 : c[k + 1].name = c[k].value
      /\ IF n = 0 THEN at = name ELSE c[1].name = name /\ at = c[n].value
  BY <1>1 DEF IsChain
<1>3. hops[0] = {name} /\ \A k \in 1..maxCNAMEChain : hops[k] = UNION {Records!Target(x) : x \in hops[k - 1]}
  BY HopsFacts
<1> HIDE DEF hops
<1>4. ASSUME T # {} PROVE FALSE
  <2>1. PICK m \in T : \A k \in T : m <= k
    <3> HIDE DEF T
    <3>1. T \in SUBSET Nat
      BY DEF T
    <3> QED BY <1>4, <3>1, Smallest
  <2>2. m \in Nat /\ m \in 0..n /\ hops[m] # {Spot(m)}
    OBVIOUS
  <2>3. m # 0
    <3>1. hops[0] = {Spot(0)}
      BY <1>1, <1>2, <1>3
    <3> QED BY <2>2, <3>1
  <2>4. m - 1 \in Nat /\ m - 1 \in 0..n /\ m - 1 \notin T /\ m \in 1..n /\ m \in 1..maxCNAMEChain /\ m - 1 < n
    BY <1>1, <2>1, <2>2, <2>3
  <2>5. hops[m - 1] = {c[m].name}
    <3>1. hops[m - 1] = {Spot(m - 1)}
      BY <2>4
    <3>2. Spot(m - 1) = c[m].name
      BY <2>4
    <3> QED BY <3>1, <3>2
  <2>6. hops[m] = {c[m].value}
    <3>1. Records!Target(c[m].name) = {c[m].value}
      BY <1>2, <2>4
    <3>2. hops[m] = UNION {Records!Target(x) : x \in hops[m - 1]}
      BY <1>3, <2>4
    <3> QED BY <2>5, <3>1, <3>2
  <2>7. Spot(m) = c[m].value
    <3>1. CASE m = n
      BY <1>2, <2>4, <3>1
    <3>2. CASE m # n
      <4>1. m \in 1..n - 1 /\ m < n
        BY <1>1, <2>4, <3>2
      <4> QED BY <1>2, <4>1
    <3> QED BY <3>1, <3>2
  <2> QED BY <2>2, <2>6, <2>7
<1>5. \A k \in 0..n : hops[k] = {Spot(k)}
  BY <1>1, <1>4
<1>6. \A k \in 0..n - 1 : k \in 0..n /\ Spot(k) = c[k + 1].name
  BY <1>1
<1>7. n \in 0..n /\ Spot(n) = at
  BY <1>1
<1> HIDE DEF Spot
<1> QED BY <1>5, <1>6, <1>7 DEF hops, Follow

LEMMA HopsStay ==
    ASSUME maxCNAMEChain \in Nat, ReadOut(resolver), NEW name, NEW type, NEW c \in Chains,
           NEW at, NEW met, IsChain(c, name, type, at, met), DeadEnd(at, met, type)
    PROVE  \A k \in 0..maxCNAMEChain : \A x \in Records!After(name)[k] : Records!Holds(x, type) = {}
<1> DEFINE n == Len(c)
           N == maxCNAMEChain
           hops == Records!After(name)
           Stay == met \cup {at}
           T == {k \in Nat : k \in 0..N /\ ~(hops[k] \subseteq Stay)}
<1>1. n \in Nat /\ DOMAIN c = 1..n /\ (c = <<>> <=> n = 0)
  BY ChainRows
<1>2. /\ \A k \in 1..n : /\ Records!Target(c[k].name) = {c[k].value}
                         /\ Records!Holds(c[k].name, type) = {}
      /\ \A k \in 1..n - 1 : c[k + 1].name = c[k].value
      /\ IF n = 0 THEN at = name ELSE c[1].name = name /\ at = c[n].value
      /\ met = {c[k].name : k \in 1..n}
  BY <1>1 DEF IsChain
<1>3. hops[0] = {name} /\ \A k \in 1..N : hops[k] = UNION {Records!Target(x) : x \in hops[k - 1]}
  BY HopsFacts
<1> HIDE DEF hops, n
<1>4. ASSUME NEW k \in 1..n PROVE c[k].value \in Stay
  <2>1. CASE k = n
    <3>1. n # 0
      BY <1>1
    <3> QED BY <1>2, <2>1, <3>1
  <2>2. CASE k # n
    <3>1. k \in 1..n - 1 /\ k + 1 \in 1..n
      BY <1>1, <2>2
    <3> QED BY <1>2, <3>1
  <2> QED BY <2>1, <2>2
<1>5. \A x \in met : Records!Target(x) \subseteq Stay /\ Records!Holds(x, type) = {}
  BY <1>2, <1>4
<1>6. Records!Target(at) \subseteq Stay /\ Records!Holds(at, type) = {}
  <2>1. CASE at \in met
    BY <1>5, <2>1
  <2>2. CASE Records!Holds(at, type) = {} /\ Records!Target(at) = {}
    BY <2>2
  <2> QED BY <2>1, <2>2 DEF DeadEnd
<1>7. name \in Stay
  <2>1. CASE n = 0
    BY <1>2, <2>1
  <2>2. CASE n # 0
    <3>1. 1 \in 1..n
      BY <1>1, <2>2
    <3> QED BY <1>2, <2>2, <3>1
  <2> QED BY <2>1, <2>2
<1>8. \A x \in Stay : Records!Target(x) \subseteq Stay /\ Records!Holds(x, type) = {}
  BY <1>5, <1>6
<1> HIDE DEF Stay
<1>9. ASSUME T # {} PROVE FALSE
  <2>1. PICK m \in T : \A k \in T : m <= k
    <3> HIDE DEF T
    <3>1. T \in SUBSET Nat
      BY DEF T
    <3> QED BY <1>9, <3>1, Smallest
  <2>2. m \in Nat /\ m \in 0..N /\ ~(hops[m] \subseteq Stay)
    OBVIOUS
  <2>3. m # 0
    BY <1>3, <1>7, <2>2
  <2>4. m - 1 \in Nat /\ m - 1 \in 0..N /\ m - 1 \notin T /\ m \in 1..N
    BY <2>1, <2>2, <2>3
  <2>5. hops[m - 1] \subseteq Stay
    BY <2>4
  <2>6. hops[m] \subseteq Stay
    BY <1>3, <1>8, <2>4, <2>5
  <2> QED BY <2>2, <2>6
<1>10. \A k \in 0..N : hops[k] \subseteq Stay
  BY <1>9
<1> QED BY <1>8, <1>10 DEF hops

-----------------------------------------------------------------------------
(* What AddressesInReach says of a name.                                   *)
FoundInReach(name, type) ==
    LET found(k) == \E n \in Records!After(name)[k] : Records!Holds(n, type) # {}
        reach == {k \in 0..maxCNAMEChain - 1 : found(k)}
        nearest == CHOOSE k \in reach : \A j \in reach : k <= j
        answer == Records!Asked(name, type)
    IN  reach # {} =>
            {answer[k] : k \in 1..Len(answer)} \cap {r \in resolver : r.type = type}
                = UNION {Records!Holds(n, type) : n \in Records!After(name)[nearest]}

LEMMA ReachGood ==
    ASSUME ReadOut(resolver), NEW name \in Records!Domains, NEW type \in {"A", "AAAA"}
    PROVE  FoundInReach(name, type)
<1> DEFINE N == maxCNAMEChain
           hops == Records!After(name)
           found(k) == \E x \in hops[k] : Records!Holds(x, type) # {}
           reach == {k \in 0..N - 1 : found(k)}
           nearest == CHOOSE k \in reach : \A j \in reach : k <= j
           answer == Records!Asked(name, type)
           got == {answer[k] : k \in 1..Len(answer)} \cap {r \in resolver : r.type = type}
<1> SUFFICES ASSUME reach # {}
             PROVE  got = UNION {Records!Holds(x, type) : x \in hops[nearest]}
  BY DEF FoundInReach
<1>1. N \in Nat
  BY AnsweringAssumption DEF Records!LocalRecordsAssumption
<1>2. PICK c \in Chains : \E at, met : IsChain(c, name, type, at, met) /\ EndsAt(answer, c, at, met, type)
  BY AnswerMade
<1>3. PICK at, met : IsChain(c, name, type, at, met) /\ EndsAt(answer, c, at, met, type)
  BY <1>2
<1> DEFINE n == Len(c)
           holds == Records!Holds(at, type)
           m == Cardinality(holds)
<1>4. n \in Nat /\ DOMAIN c = 1..n
  BY ChainRows
<1>5. \A k \in 1..n : c[k].type = "CNAME" /\ Records!Holds(c[k].name, type) = {}
  <2>1. IsChain(c, name, type, at, met)
    BY <1>3
  <2> HIDE DEF n
  <2> QED BY <1>4, <2>1 DEF IsChain
<1>6. (\A k \in 0..n - 1 : hops[k] = {c[k + 1].name}) /\ hops[n] = {at}
  <2>1. Follow(hops, c, n, at)
    BY <1>1, <1>3, HopsOnChain DEF EndsAt
  <2> HIDE DEF n, hops
  <2> QED BY <2>1 DEF Follow
<1>7. DeadEnd(at, met, type) => \A k \in 0..N : ~found(k)
  BY <1>1, <1>3, HopsStay
<1>8. n <= N
  BY <1>3 DEF EndsAt
<1>9. \/ n = N
      \/ DeadEnd(at, met, type)
      \/ n < N /\ holds # {} /\ answer = c \o Records!Ordered(holds)
  BY <1>3 DEF EndsAt
<1>10. Extends(c \o Records!Ordered(holds), c, n, m, holds) \/ holds = {}
  BY EndRows
<1> HIDE DEF n, hops, answer, holds, m
<1>11. \A k \in 0..n - 1 : ~found(k)
  <2> SUFFICES ASSUME NEW k \in 0..n - 1 PROVE ~found(k)
    OBVIOUS
  <2>1. k + 1 \in 1..n
    BY <1>4
  <2> QED BY <1>5, <1>6, <2>1
<1>12. n # N /\ ~DeadEnd(at, met, type)
  <2>1. \A k \in 0..N - 1 : k \in 0..N
    BY <1>1
  <2> QED BY <1>7, <1>11, <2>1
<1>13. n < N /\ holds # {} /\ Extends(answer, c, n, m, holds)
  BY <1>9, <1>10, <1>12
<1>14. n \in reach
  <2>1. n \in 0..N - 1
    BY <1>1, <1>4, <1>13
  <2> QED BY <1>6, <1>13, <2>1 DEF holds
<1>15. \A k \in reach : n <= k
  <2> SUFFICES ASSUME NEW k \in reach, k < n PROVE FALSE
    BY <1>1, <1>4
  <2>1. k \in 0..n - 1
    BY <1>1, <1>4
  <2> QED BY <1>11, <2>1
<1>16. nearest = n
  <2>1. reach \subseteq Int
    BY <1>1
  <2> HIDE DEF reach
  <2>2. nearest \in reach /\ \A j \in reach : nearest <= j
    BY <1>14, <1>15
  <2> HIDE DEF nearest
  <2>3. nearest <= n /\ n <= nearest
    BY <1>14, <1>15, <2>2
  <2> QED BY <1>14, <2>1, <2>2, <2>3
<1>17. UNION {Records!Holds(x, type) : x \in hops[nearest]} = holds
  BY <1>6, <1>16 DEF holds
<1>18. got = holds
  <2>1. \A r \in holds : r \in resolver /\ r.type = type
    BY DEF holds, Records!Holds
  <2>2. m \in Nat /\ Len(answer) = n + m
    BY <1>13 DEF Extends
  <2>3. \A k \in 1..Len(answer) : k \in 1..n \/ k \in n + 1..n + m
    BY <1>4, <2>2
  <2>4. \A k \in n + 1..n + m : k \in 1..Len(answer)
    BY <1>4, <2>2
  <2>5. \A k \in 1..n : answer[k].type # type
    BY <1>5, <1>13 DEF Extends
  <2>6. \A k \in n + 1..n + m : answer[k] \in holds
    BY <1>13 DEF Extends
  <2>7. \A r \in holds : \E k \in n + 1..n + m : answer[k] = r
    BY <1>13 DEF Extends
  <2>8. \A r \in got : r \in holds
    BY <2>3, <2>5, <2>6
  <2>9. \A r \in holds : r \in got
    BY <2>1, <2>4, <2>7
  <2> QED BY <2>8, <2>9
<1> QED BY <1>17, <1>18

(* Whatever the records say, an address in reach is found.                 *)
LEMMA AddressesFound == ASSUME ReadOut(resolver) PROVE Records!AddressesInReach
<1>1. \A name \in Records!Domains, type \in {"A", "AAAA"} : FoundInReach(name, type)
  BY ReachGood
<1> QED BY <1>1 DEF Records!AddressesInReach, FoundInReach

-----------------------------------------------------------------------------
(* All of it.                                                              *)

AnsweringInv ==
    /\ part \in {"edits", "chains"} => TableInv /\ RowsInv
    /\ part = "plugin" => ServingInv
    /\ part = "signed" => SigningInv

LEMMA AnsweringStart == ASSUME AnsweringInit PROVE AnsweringInv
BY AnsweringAssumption, TableInit, RowsInit, ServingInit, SigningInit DEF AnsweringInit, AnsweringInv

LEMMA AnsweringStep == ASSUME AnsweringInv, [AnsweringNext]_answeringVars PROVE AnsweringInv'
<1>1. part' = part
  BY DEF AnsweringNext, answeringVars
<1>2. ASSUME part \in {"edits", "chains"} PROVE TableInv' /\ RowsInv'
  <2>1. [Records!Next]_(Records!vars)
    BY <1>2 DEF AnsweringNext, answeringVars, recordVars, Records!vars
  <2> QED BY <1>2, <2>1, AnsweringAssumption, TableStep, RowsStep DEF AnsweringInv
<1>3. ASSUME part = "plugin" PROVE ServingInv'
  <2>1. [Plugin!Next]_(Plugin!vars)
    BY <1>3 DEF AnsweringNext, answeringVars, pluginVars, Plugin!vars
  <2> QED BY <1>3, <2>1, AnsweringAssumption, ServingStep DEF AnsweringInv
<1>4. ASSUME part = "signed" PROVE SigningInv'
  <2>1. [Signed!Next]_(Signed!vars)
    BY <1>4 DEF AnsweringNext, answeringVars, signedVars, Signed!vars
  <2> QED BY <1>4, <2>1, SigningStep DEF AnsweringInv
<1> QED BY <1>1, <1>2, <1>3, <1>4 DEF AnsweringInv

(* What is saved can be served, and between requests the runtime answers   *)
(* by exactly the enabled records, however requests interleave, unless a   *)
(* read failed or two reloads overlapped (the handlers of                  *)
(* internal/admin/customdns_api.go, localDNSRuntimeReloader in             *)
(* internal/app/app.go).                                                   *)
THEOREM RecordsServed == AnsweringSpec => []CustomRecordsServed
<1>1. AnsweringInit => AnsweringInv
  BY AnsweringStart
<1>2. AnsweringInv /\ [AnsweringNext]_answeringVars => AnsweringInv'
  BY AnsweringStep
<1>3. AnsweringInv => CustomRecordsServed
  BY TableGood DEF AnsweringInv, CustomRecordsServed
<1> QED BY <1>1, <1>2, <1>3, PTL DEF AnsweringSpec

(* Whatever custom records there are, an answer to an address query is a   *)
(* chain from the name asked for, each alias leading to the next owner, no *)
(* record twice; it ends with the addresses, where the aliases end or      *)
(* start over, or at the bound; and addresses within the bound are found,  *)
(* all of the nearest name that has some (answerName in                    *)
(* internal/localdns/resolver.go).                                         *)
THEOREM ChainsFollowed == AnsweringSpec => []ChainsAnswer
<1>1. AnsweringInit => AnsweringInv
  BY AnsweringStart
<1>2. AnsweringInv /\ [AnsweringNext]_answeringVars => AnsweringInv'
  BY AnsweringStep
<1>3. AnsweringInv => ChainsAnswer
  BY ChainsGood, AddressesFound DEF AnsweringInv, RowsInv, ChainsAnswer
<1> QED BY <1>1, <1>2, <1>3, PTL DEF AnsweringSpec

(* A query that is over was answered once: from a local record, by the     *)
(* decider of some time without a pause, or by the chain, or, if nothing   *)
(* changed meanwhile, as documented; and it was audited once, with an      *)
(* event that tells how it was answered (Handler.ServeDNS in               *)
(* internal/coreplugin/corehole.go).                                       *)
THEOREM QueriesServed == AnsweringSpec => []QueriesAnswered
<1>1. AnsweringInit => AnsweringInv
  BY AnsweringStart
<1>2. AnsweringInv /\ [AnsweringNext]_answeringVars => AnsweringInv'
  BY AnsweringStep
<1>3. AnsweringInv => QueriesAnswered
  BY ServingGood DEF AnsweringInv, QueriesAnswered
<1> QED BY <1>1, <1>2, <1>3, PTL DEF AnsweringSpec

(* A client that asked for no DNSSEC sees none of it, one that set DO gets *)
(* the signatures of what is called authentic, and data that failed        *)
(* validation reaches nobody, whoever asked before and whatever the cache  *)
(* kept, for a cache of any size; one that set DO sees AD on what was      *)
(* validated, and one that set AD alone does unless the cache has for it   *)
(* an answer without AD (dnssecUpstreamHandler in                          *)
(* internal/coredns/dnssec_upstream.go).                                   *)
THEOREM SignaturesKeptApart == AnsweringSpec => []DNSSECKeptApart
<1>1. AnsweringInit => AnsweringInv
  BY AnsweringStart
<1>2. AnsweringInv /\ [AnsweringNext]_answeringVars => AnsweringInv'
  BY AnsweringStep
<1>3. AnsweringInv => DNSSECKeptApart
  BY SigningGood DEF AnsweringInv, DNSSECKeptApart
<1> QED BY <1>1, <1>2, <1>3, PTL DEF AnsweringSpec

(* A pause lasts until the last whole second of what was asked for and     *)
(* never past it, over restarts, and an answer reports it to a second; a   *)
(* pause whose duration in nanoseconds wraps may be over at once, but it   *)
(* too never lasts longer, nor is it reported longer, than was asked for   *)
(* (parseBlockingPauseUntil and BlockingStatusFromPause in                 *)
(* internal/admin/api.go, blockingRuntimeController in                     *)
(* internal/app/app.go).                                                   *)
THEOREM PausesLast == AnsweringSpec => []PauseLasts
<1> DEFINE Inv == part = "pausing" => PauseInv
<1>1. AnsweringInit => Inv
  BY AnsweringAssumption, PauseInit DEF AnsweringInit
<1>2. Inv /\ [AnsweringNext]_answeringVars => Inv'
  <2> SUFFICES ASSUME Inv, [AnsweringNext]_answeringVars, part' = "pausing" PROVE PauseInv'
    OBVIOUS
  <2>1. part = "pausing"
    BY DEF AnsweringNext, answeringVars
  <2>2. [Pausing!Next]_(Pausing!vars)
    BY <2>1 DEF AnsweringNext, answeringVars, pauseVars, Pausing!vars
  <2> QED BY <2>1, <2>2, AnsweringAssumption, ParseKeeps, PauseKeeps, GetStatusKeeps, OtherKeeps
          DEF Pausing!Next
<1>3. Inv => PauseLasts
  BY AnsweringAssumption, PauseGood DEF PauseLasts
<1> QED BY <1>1, <1>2, <1>3, PTL DEF AnsweringSpec
=============================================================================
