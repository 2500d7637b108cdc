------------------------ MODULE AdministrationProofs ------------------------
(***************************************************************************)
(* Proofs about what the administration keeps: the admin user and the API  *)
(* keys (Owning), browser sessions, an audit database that is migrated     *)
(* (Upgrading), and the configuration that one process leaves to the next  *)
(* (Configuring), for any passwords, keys, tokens, handlers, processes,    *)
(* files, rows, updates and failures.  Each part has an inductive          *)
(* invariant of its own; together they are that of Administration.         *)
(***************************************************************************)
EXTENDS Administration, FiniteSetTheorems, TLAPS

-----------------------------------------------------------------------------
(* The admin user and the API keys.                                        *)

(* A password that was answered 201 is no None, so that no setup after it  *)
(* finds the table empty; a key is only ever enabled when it is made.      *)
OwningInv == Owning!TypeOK /\ Owning!AccountsHold

LEMMA OwningInit == ASSUME Owning!AccountsAssumption, Owning!Init PROVE OwningInv
<1>1. Owning!TypeOK
  BY DEF Owning!AccountsAssumption, Owning!Init, Owning!TypeOK, Owning!Rows, Owning!Absent, Owning!Running
<1>2. Owning!AccountsHold
  BY DEF Owning!Init, Owning!AccountsHold, Owning!OwnerKeepsPassword, Owning!RevokedForGood,
         Owning!RevokedOnce
<1> QED BY <1>1, <1>2 DEF OwningInv

(* A handler that answers, or goes on to its next step.                    *)
LEMMA RunTyped ==
    ASSUME Owning!TypeOK, NEW h \in Handlers, NEW next \in Owning!Running, run' = [run EXCEPT ![h] = next]
    PROVE  run' \in [Handlers -> Owning!Running]
BY DEF Owning!TypeOK

LEMMA DoneTyped ==
    ASSUME Owning!TypeOK, NEW h \in Handlers, NEW status \in Nat, Owning!Done(h, status)
    PROVE  run' \in [Handlers -> Owning!Running]
BY RunTyped DEF Owning!Done, Owning!Running

(* A step that leaves users and keys alone.                                *)
LEMMA HandlersOnly ==
    ASSUME OwningInv, UNCHANGED <<admin, keys, owner, revoked>>,
           run' \in [Handlers -> Owning!Running],
           starts' \in 0 .. MaxStarts, accountFaults' \in 0 .. MaxAccountFaults
    PROVE  OwningInv'
BY DEF OwningInv, Owning!TypeOK, Owning!AccountsHold, Owning!OwnerKeepsPassword,
       Owning!RevokedForGood, Owning!RevokedOnce

LEMMA OwningHandlers ==
    ASSUME Owning!AccountsAssumption, OwningInv, NEW h \in Handlers,
           \/ \E request \in Owning!Calls : Owning!Begin(h, request)
           \/ Owning!Fails(h) \/ Owning!IsSetup(h) \/ Owning!FindValidAPIKeyByHash(h)
    PROVE  OwningInv'
<1>1. /\ Owning!TypeOK /\ run[h] \in Owning!Running /\ keys \in [Keys -> Owning!Rows]
      /\ starts \in 0 .. MaxStarts /\ accountFaults \in 0 .. MaxAccountFaults /\ MaxStarts \in Nat /\ MaxAccountFaults \in Nat
  BY DEF OwningInv, Owning!TypeOK, Owning!AccountsAssumption
<1>2. ASSUME NEW request \in Owning!Calls, Owning!Begin(h, request) PROVE OwningInv'
  <2>1. Owning!Absent \in Owning!Rows
    BY DEF Owning!Absent, Owning!Rows
  <2>2. request \in Owning!Running
    BY <2>1 DEF Owning!Calls, Owning!Running
  <2>3. run' \in [Handlers -> Owning!Running]
    BY <1>1, <1>2, <2>2, RunTyped DEF Owning!Begin
  <2>4. starts' \in 0 .. MaxStarts
    BY <1>1, <1>2 DEF Owning!Begin
  <2> QED BY <1>1, <1>2, <2>3, <2>4, HandlersOnly DEF Owning!Begin
<1>3. CASE Owning!Fails(h)
  <2>1. run' \in [Handlers -> Owning!Running]
    BY <1>1, <1>3, DoneTyped DEF Owning!Fails
  <2>2. accountFaults' \in 0 .. MaxAccountFaults
    BY <1>1, <1>3 DEF Owning!Fails
  <2> QED BY <1>1, <1>3, <2>1, <2>2, HandlersOnly DEF Owning!Fails
<1>4. CASE Owning!IsSetup(h)
  <2>1. CASE Owning!Done(h, 409)
    BY <1>1, <1>4, <2>1, DoneTyped, HandlersOnly DEF Owning!IsSetup
  <2>2. CASE run' = [run EXCEPT ![h].pc = "create"]
    <3>1. run[h] \in [pc : {"check", "create"}, password : Passwords]
      BY <1>1, <1>4 DEF Owning!IsSetup, Owning!Running, Owning!Idle
    <3>2. [run[h] EXCEPT !.pc = "create"] \in Owning!Running
      BY <3>1 DEF Owning!Running
    <3>3. run' \in [Handlers -> Owning!Running]
      BY <1>1, <2>2, <3>2, RunTyped
    <3> QED BY <1>1, <1>4, <3>3, HandlersOnly DEF Owning!IsSetup
  <2> QED BY <1>4, <2>1, <2>2 DEF Owning!IsSetup
<1>5. CASE Owning!FindValidAPIKeyByHash(h)
  <2>1. run[h] \in [pc : {"find", "mark"}, key : Keys, row : Owning!Rows]
    BY <1>1, <1>5 DEF Owning!FindValidAPIKeyByHash, Owning!Running, Owning!Idle
  <2>2. keys[run[h].key] \in Owning!Rows
    BY <1>1, <2>1
  <2>3. CASE Owning!Done(h, 401)
    BY <1>1, <1>5, <2>3, DoneTyped, HandlersOnly DEF Owning!FindValidAPIKeyByHash
  <2>4. CASE run' = [run EXCEPT ![h].pc = "mark", ![h].row = keys[run[h].key]]
    <3>1. [run[h] EXCEPT !.pc = "mark", !.row = keys[run[h].key]] \in Owning!Running
      BY <2>1, <2>2 DEF Owning!Running
    <3>2. run' = [run EXCEPT ![h] = [run[h] EXCEPT !.pc = "mark", !.row = keys[run[h].key]]]
      BY <1>1, <2>4 DEF Owning!TypeOK
    <3>3. run' \in [Handlers -> Owning!Running]
      BY <1>1, <3>1, <3>2, RunTyped
    <3> QED BY <1>1, <1>5, <3>3, HandlersOnly DEF Owning!FindValidAPIKeyByHash
  <2> QED BY <1>5, <2>3, <2>4 DEF Owning!FindValidAPIKeyByHash
<1> QED BY <1>2, <1>3, <1>4, <1>5

(* No password has been answered 201 when the row is inserted.             *)
LEMMA OwningSetup ==
    ASSUME Owning!AccountsAssumption, OwningInv, NEW h \in Handlers, Owning!CreateAdmin(h)
    PROVE  OwningInv'
<1>1. /\ Owning!TypeOK /\ run[h] \in Owning!Running /\ owner \subseteq Passwords
      /\ accountFaults \in 0 .. MaxAccountFaults /\ starts \in 0 .. MaxStarts /\ MaxAccountFaults \in Nat /\ None \notin Passwords
      /\ Owning!OwnerKeepsPassword
  BY DEF OwningInv, Owning!TypeOK, Owning!AccountsHold, Owning!AccountsAssumption
<1>2. run[h] \in [pc : {"check", "create"}, password : Passwords]
  BY <1>1 DEF Owning!CreateAdmin, Owning!Running, Owning!Idle
<1>3. run' \in [Handlers -> Owning!Running] /\ accountFaults' \in 0 .. MaxAccountFaults
  <2>1. Owning!Done(h, 409) \/ Owning!Done(h, 201) \/ Owning!Done(h, 500)
    BY DEF Owning!CreateAdmin
  <2>2. accountFaults' \in 0 .. MaxAccountFaults
    BY <1>1 DEF Owning!CreateAdmin
  <2> QED BY <1>1, <2>1, <2>2, DoneTyped
<1>4. UNCHANGED <<keys, starts, revoked>>
  BY DEF Owning!CreateAdmin
<1>5. CASE admin # None
  BY <1>1, <1>3, <1>4, <1>5, HandlersOnly DEF Owning!CreateAdmin
<1>6. CASE admin = None
  <2>1. owner = {}
    BY <1>1, <1>6 DEF Owning!OwnerKeepsPassword
  <2>2. admin' = run[h].password /\ owner' \subseteq {run[h].password}
    BY <1>6, <2>1 DEF Owning!CreateAdmin
  <2>3. admin' \in Passwords /\ owner' \subseteq Passwords
    BY <1>2, <2>2
  <2>4. Owning!OwnerKeepsPassword'
    BY <2>2 DEF Owning!OwnerKeepsPassword
  <2> QED BY <1>3, <1>4, <2>3, <2>4
          DEF OwningInv, Owning!TypeOK, Owning!AccountsHold, Owning!RevokedForGood, Owning!RevokedOnce
<1> QED BY <1>5, <1>6

(* A row of a key is only ever written field by field.                     *)
LEMMA OwningKeys ==
    ASSUME Owning!AccountsAssumption, OwningInv, NEW h \in Handlers,
           Owning!CreateAPIKey(h) \/ Owning!MarkAPIKeyUsed(h) \/ Owning!RevokeAPIKey(h)
    PROVE  OwningInv'
<1>1. /\ Owning!TypeOK /\ run[h] \in Owning!Running /\ keys \in [Keys -> Owning!Rows]
      /\ starts \in 0 .. MaxStarts /\ accountFaults \in 0 .. MaxAccountFaults /\ MaxAccountFaults \in Nat
      /\ revoked \in [Keys -> Nat] /\ Owning!RevokedForGood /\ Owning!RevokedOnce
  BY DEF OwningInv, Owning!TypeOK, Owning!AccountsHold, Owning!AccountsAssumption
<1>2. run[h].key \in Keys
  BY <1>1 DEF Owning!CreateAPIKey, Owning!MarkAPIKeyUsed, Owning!RevokeAPIKey, Owning!Running, Owning!Idle
<1>3. run' \in [Handlers -> Owning!Running]
  <2>1. Owning!Done(h, 201) \/ Owning!Done(h, 200) \/ Owning!Done(h, 204) \/ Owning!Done(h, 404)
    BY DEF Owning!CreateAPIKey, Owning!MarkAPIKeyUsed, Owning!RevokeAPIKey
  <2> QED BY <1>1, <2>1, DoneTyped
<1>4. UNCHANGED <<admin, starts, owner>> /\ accountFaults' \in 0 .. MaxAccountFaults
  BY <1>1 DEF Owning!CreateAPIKey, Owning!MarkAPIKeyUsed, Owning!RevokeAPIKey
<1> DEFINE key == run[h].key
<1>5. \/ keys' = keys /\ revoked' = revoked
      \/ keys' = [keys EXCEPT ![key] = [keys[key] EXCEPT !.exists = TRUE]] /\ revoked' = revoked
      \/ keys' = [keys EXCEPT ![key] = [keys[key] EXCEPT !.used = TRUE]] /\ revoked' = revoked
      \/ /\ ~keys[key].disabled
         /\ keys' = [keys EXCEPT ![key] = [keys[key] EXCEPT !.disabled = TRUE]]
         /\ revoked' = [revoked EXCEPT ![key] = revoked[key] + 1]
  BY <1>1 DEF Owning!CreateAPIKey, Owning!MarkAPIKeyUsed, Owning!RevokeAPIKey
<1>6. keys[key] \in Owning!Rows
  BY <1>1, <1>2
<1> HIDE DEF key
<1>7. keys' \in [Keys -> Owning!Rows] /\ revoked' \in [Keys -> Nat]
  <2>1. /\ [keys[key] EXCEPT !.exists = TRUE] \in Owning!Rows
        /\ [keys[key] EXCEPT !.used = TRUE] \in Owning!Rows
        /\ [keys[key] EXCEPT !.disabled = TRUE] \in Owning!Rows
    BY <1>6 DEF Owning!Rows
  <2> QED BY <1>1, <1>2, <1>5, <2>1 DEF key
<1>8. ASSUME NEW k \in Keys
      PROVE  (revoked'[k] > 0 => keys'[k].disabled) /\ revoked'[k] <= 1
  <2>1. /\ revoked[k] \in Nat /\ revoked[k] <= 1
        /\ revoked[k] > 0 => keys[k].disabled
        /\ keys[k] \in Owning!Rows
    BY <1>1 DEF Owning!RevokedForGood, Owning!RevokedOnce
  <2>2. CASE keys'[k].disabled = keys[k].disabled /\ revoked'[k] = revoked[k]
    BY <2>1, <2>2
  <2>3. CASE ~keys[k].disabled /\ keys'[k].disabled = TRUE /\ revoked'[k] = revoked[k] + 1
    <3>1. revoked[k] = 0
      BY <2>1, <2>3
    <3> QED BY <2>3, <3>1
  <2>4. \/ keys'[k].disabled = keys[k].disabled /\ revoked'[k] = revoked[k]
        \/ ~keys[k].disabled /\ keys'[k].disabled = TRUE /\ revoked'[k] = revoked[k] + 1
    <3>1. CASE k = key
      BY <1>1, <1>5, <1>6, <3>1 DEF Owning!Rows
    <3>2. CASE k # key
      BY <1>1, <1>5, <3>2
    <3> QED BY <3>1, <3>2
  <2> QED BY <2>2, <2>3, <2>4
<1>9. Owning!RevokedForGood' /\ Owning!RevokedOnce'
  BY <1>8 DEF Owning!RevokedForGood, Owning!RevokedOnce
<1> QED BY <1>3, <1>4, <1>7, <1>9
        DEF OwningInv, Owning!TypeOK, Owning!AccountsHold, Owning!OwnerKeepsPassword

LEMMA OwningStep ==
    ASSUME Owning!AccountsAssumption, OwningInv, [Owning!Next]_(Owning!vars) PROVE OwningInv'
<1>1. CASE UNCHANGED Owning!vars
  BY <1>1 DEF Owning!vars, OwningInv, Owning!TypeOK, Owning!AccountsHold, Owning!OwnerKeepsPassword,
              Owning!RevokedForGood, Owning!RevokedOnce
<1>2. CASE Owning!Next
  BY <1>2, OwningHandlers, OwningSetup, OwningKeys DEF Owning!Next
<1> QED BY <1>1, <1>2

-----------------------------------------------------------------------------
(* Browser sessions: the inductive invariant.                              *)

(* A row or a cached session has the expiry its client was told, and the   *)
(* row of a live session nobody leaves is there, once it was imported.     *)
TablesInv ==
    /\ available => imported
    /\ \A t \in Legacy : issued[t] = InstalledAt + TTL
    /\ \A t \in Tokens : rows[t] \in {NoTime, issued[t]} /\ cache[t] \in {NoTime, issued[t]}
    /\ \A t \in Tokens :
          issued[t] # NoTime /\ t \notin leaving /\ ~Spent(t) /\ (imported \/ t \notin Legacy) =>
              rows[t] = issued[t]

(* What a handler has found is true of its session.                        *)
RequestHas(r) ==
    /\ issued[req[r].token] # NoTime /\ req[r].at <= now
    /\ req[r].kind = "logout" => req[r].token \in leaving
    /\ req[r].pc \in Busy \ {"arrived"} => available
    /\ req[r].pc = "accepted" /\ req[r].kind = "logout" => available
    /\ req[r].pc = "arrived" /\ ~available => req[r].excused

RequestFound(r) ==
    /\ req[r].pc = "found" =>
          req[r].expires = issued[req[r].token] /\ req[r].expires > req[r].at
    /\ req[r].pc = "expired" \/ (req[r].pc = "dropped" /\ req[r].kind = "use") =>
          issued[req[r].token] <= req[r].at
    /\ req[r].pc = "accepted" => req[r].at < issued[req[r].token]
    /\ req[r].pc = "refused" => req[r].excused \/ req[r].token \in leaving \/ Spent(req[r].token)

RequestInv == \A r \in Requests : req[r].pc # "idle" => RequestHas(r) /\ RequestFound(r)

(* What a logout took from the cache stays out of it, before and after its *)
(* row is gone: nobody holds the row, or that was noticed.                 *)
LogoutInv ==
    \A t \in Tokens \ disturbed :
        /\ t \in ended => rows[t] = NoTime /\ issued[t] # NoTime /\ imported
        /\ t \in ended \/ (\E r \in Requests : Ends(r, t)) =>
              cache[t] = NoTime /\ \A q \in Requests : ~Holds(q, t)

SessionsInv == TypeOK /\ TablesInv /\ RequestInv /\ LogoutInv

-----------------------------------------------------------------------------
(* The state of a handler.                                                 *)
Handler ==
    [pc : Busy \cup {"accepted", "refused", "done"}, kind : {"use", "logout"}, token : Tokens,
     at : Nat, expires : Times, excused : BOOLEAN]

LEMMA HandlerFacts ==
    ASSUME TypeOK, NEW r \in Requests
    PROVE  (req[r].pc = "idle" /\ ~Active(r)) \/ (req[r].pc # "idle" /\ req[r] \in Handler)
<1>1. req[r] \in {Idle} \cup Handler
  BY DEF TypeOK, Handler
<1>2. CASE req[r] = Idle
  BY <1>2 DEF Idle, Active, Busy
<1>3. CASE req[r] \in Handler
  BY <1>3 DEF Handler, Busy
<1> QED BY <1>1, <1>2, <1>3

(* A handler goes on with the session it has.                              *)
Moves(r) ==
    /\ req[r] \in Handler /\ req[r].pc # "idle"
    /\ req' \in [Requests -> {Idle} \cup Handler]
    /\ req'[r].token = req[r].token /\ req'[r].kind = req[r].kind /\ req'[r].at = req[r].at
    /\ req'[r].pc # "idle"
    /\ Active(r)
    /\ \A q \in Requests \ {r} : req'[q] = req[q]

LEMMA MovesFacts ==
    ASSUME TypeOK, NEW r \in Requests, Active(r), NEW pc \in Busy \cup {"accepted", "refused", "done"},
           NEW expires \in Times, NEW excused \in BOOLEAN,
           req' = [req EXCEPT ![r] = [req[r] EXCEPT !.pc = pc, !.expires = expires, !.excused = excused]]
    PROVE  Moves(r) /\ req'[r].pc = pc /\ req'[r].expires = expires /\ req'[r].excused = excused
<1>1. req[r] \in Handler /\ req[r].pc # "idle" /\ req \in [Requests -> {Idle} \cup Handler]
  BY HandlerFacts DEF TypeOK, Handler
<1>2. PICK new : new = [req[r] EXCEPT !.pc = pc, !.expires = expires, !.excused = excused]
  OBVIOUS
<1>3. /\ new \in Handler
      /\ new.pc = pc /\ new.expires = expires /\ new.excused = excused
      /\ new.token = req[r].token /\ new.kind = req[r].kind /\ new.at = req[r].at
  BY <1>1, <1>2 DEF Handler
<1>4. req' = [req EXCEPT ![r] = new]
  BY <1>2
<1>5. pc # "idle"
  BY DEF Busy
<1> QED BY <1>1, <1>3, <1>4, <1>5 DEF Moves

LEMMA GoesFacts ==
    ASSUME TypeOK, NEW r \in Requests, Active(r), NEW pc \in Busy \cup {"accepted", "refused", "done"},
           Goes(r, pc)
    PROVE  /\ Moves(r) /\ req'[r].pc = pc
           /\ req'[r].expires = req[r].expires /\ req'[r].excused = req[r].excused
<1>1. req[r] \in Handler
  BY HandlerFacts
<1>2. [req[r] EXCEPT !.pc = pc, !.expires = req[r].expires, !.excused = req[r].excused]
          = [req[r] EXCEPT !.pc = pc]
  BY <1>1 DEF Handler
<1>3. req[r].expires \in Times /\ req[r].excused \in BOOLEAN
  BY <1>1 DEF Handler
<1>4. req' = [req EXCEPT ![r] = [req[r] EXCEPT !.pc = pc]]
  BY DEF Goes
<1>5. req' = [req EXCEPT ![r] = [req[r] EXCEPT !.pc = pc, !.expires = req[r].expires,
                                              !.excused = req[r].excused]]
  BY <1>2, <1>4
<1> QED BY <1>3, <1>5, MovesFacts

(* A handler that moves leaves the others alone.                           *)
LEMMA MovesKeep ==
    ASSUME SessionsInv, NEW r \in Requests, Moves(r),
           UNCHANGED <<now, issued, leaving, available>>,
           RequestHas(r)' /\ RequestFound(r)'
    PROVE  RequestInv'
<1> SUFFICES ASSUME NEW q \in Requests, (req[q].pc # "idle")' PROVE RequestHas(q)' /\ RequestFound(q)'
  BY DEF RequestInv
<1>1. CASE q = r
  BY <1>1
<1>2. CASE q # r
  <2>1. req'[q] = req[q]
    BY <1>2 DEF Moves
  <2>2. RequestHas(q) /\ RequestFound(q)
    BY <2>1 DEF SessionsInv, RequestInv
  <2> QED BY <2>1, <2>2 DEF RequestHas, RequestFound, Spent
<1> QED BY <1>1, <1>2

(* The type of the rest of the state.                                      *)
LEMMA MovesTyped ==
    ASSUME TypeOK, NEW r \in Requests, Moves(r),
           UNCHANGED <<now, imported, available, restarts, issued, leaving>>,
           rows' \in [Tokens -> Times], cache' \in [Tokens -> Times], faults' \in Nat,
           ended' \subseteq Tokens, disturbed' \subseteq Tokens
    PROVE  TypeOK'
BY DEF TypeOK, Moves, Handler

(* A handler with a row or in a logout has a session that somebody knows.  *)
LEMMA EndsFacts ==
    ASSUME SessionsInv, NEW r \in Requests, NEW t, Ends(r, t)
    PROVE  t \in Tokens /\ issued[t] # NoTime /\ imported
<1>1. req[r].pc # "idle" /\ req[r].token = t
  BY DEF Ends
<1>2. req[r] \in Handler /\ RequestHas(r)
  BY <1>1, HandlerFacts DEF SessionsInv, RequestInv
<1>3. available
  BY <1>2 DEF RequestHas, Ends, Busy
<1> QED BY <1>1, <1>2, <1>3 DEF Handler, RequestHas, SessionsInv, TablesInv

(* Logouts are kept by what makes no logout and reads no row, and by what  *)
(* only takes sessions away.                                               *)
LEMMA LogoutsKept ==
    ASSUME SessionsInv, disturbed \subseteq disturbed', ended' = ended, imported => imported',
           \A q \in Requests, t \in Tokens : (Holds(q, t)' => Holds(q, t)) /\ (Ends(q, t)' => Ends(q, t)),
           \A t \in Tokens : issued[t] # NoTime /\ imported =>
               issued'[t] = issued[t] /\ rows'[t] \in {NoTime, rows[t]} /\ cache'[t] \in {NoTime, cache[t]}
    PROVE  LogoutInv'
<1> SUFFICES ASSUME NEW t \in Tokens \ disturbed'
             PROVE  /\ t \in ended => rows'[t] = NoTime /\ issued'[t] # NoTime /\ imported'
                    /\ t \in ended \/ (\E r \in Requests : Ends(r, t)') =>
                          cache'[t] = NoTime /\ \A q \in Requests : ~Holds(q, t)'
  BY DEF LogoutInv
<1>1. /\ t \in ended => rows[t] = NoTime /\ issued[t] # NoTime /\ imported
      /\ t \in ended \/ (\E r \in Requests : Ends(r, t)) =>
            cache[t] = NoTime /\ \A q \in Requests : ~Holds(q, t)
  BY DEF SessionsInv, LogoutInv
<1>2. (\E r \in Requests : Ends(r, t)') => (\E r \in Requests : Ends(r, t))
  OBVIOUS
<1>3. (\E r \in Requests : Ends(r, t)) => issued[t] # NoTime /\ imported
  BY EndsFacts
<1> QED BY <1>1, <1>2, <1>3

(* A handler holds a row, or takes a session from the cache, only when     *)
(* nobody does the other thing, or it is noticed.                          *)
LEMMA MovesKeepLogouts ==
    ASSUME SessionsInv, NEW r \in Requests, Moves(r),
           disturbed \subseteq disturbed', UNCHANGED <<imported, issued>>,
           \A t \in Tokens : rows'[t] \in {NoTime, rows[t]},
           \A t \in Tokens : cache'[t] \in {NoTime, cache[t]} \/ Holds(r, t),
           \A t \in Tokens \ disturbed' : Ends(r, t)' => cache'[t] = NoTime /\ \A q \in Requests : ~Holds(q, t),
           \A t \in Tokens \ disturbed' : Holds(r, t)' => rows[t] # NoTime /\ \A q \in Requests : ~Ends(q, t),
           ended \subseteq ended',
           \A t \in Tokens \ disturbed' : t \in ended' /\ t \notin ended => Ends(r, t) /\ rows'[t] = NoTime
    PROVE  LogoutInv'
<1> SUFFICES ASSUME NEW t \in Tokens \ disturbed'
             PROVE  /\ t \in ended' => rows'[t] = NoTime /\ issued[t] # NoTime /\ imported
                    /\ t \in ended' \/ (\E p \in Requests : Ends(p, t)') =>
                          cache'[t] = NoTime /\ \A q \in Requests : ~Holds(q, t)'
  BY DEF LogoutInv
<1>1. /\ t \in ended => rows[t] = NoTime /\ issued[t] # NoTime /\ imported
      /\ t \in ended \/ (\E p \in Requests : Ends(p, t)) =>
            cache[t] = NoTime /\ \A q \in Requests : ~Holds(q, t)
  BY DEF SessionsInv, LogoutInv
<1>2. \A q \in Requests \ {r} : (Holds(q, t)' <=> Holds(q, t)) /\ (Ends(q, t)' <=> Ends(q, t))
  BY DEF Moves, Holds, Ends
<1>3. t \in ended' => rows'[t] = NoTime /\ issued[t] # NoTime /\ imported
  <2>1. CASE t \in ended
    BY <1>1, <2>1
  <2>2. CASE t \notin ended
    BY <2>2, EndsFacts
  <2> QED BY <2>1, <2>2
<1>4. CASE t \in ended \/ \E p \in Requests : Ends(p, t)
  <2>1. cache[t] = NoTime /\ \A q \in Requests : ~Holds(q, t)
    BY <1>1, <1>4
  <2>2. ~Holds(r, t)'
    BY <1>1, <1>4
  <2>3. \A q \in Requests : ~Holds(q, t)'
    BY <1>2, <2>1, <2>2
  <2> QED BY <1>3, <2>1, <2>3
<1>5. CASE t \notin ended /\ \A p \in Requests : ~Ends(p, t)
  <2>1. t \notin ended' /\ \A p \in Requests \ {r} : ~Ends(p, t)'
    BY <1>2, <1>5
  <2>2. CASE ~Ends(r, t)'
    BY <2>1, <2>2
  <2>3. CASE Ends(r, t)'
    <3>1. cache'[t] = NoTime /\ \A q \in Requests : ~Holds(q, t)
      BY <2>3
    <3>2. ~Holds(r, t)'
      BY <2>3 DEF Ends, Holds
    <3>3. \A q \in Requests : ~Holds(q, t)'
      BY <1>2, <3>1, <3>2
    <3> QED BY <2>1, <3>1, <3>3
  <2> QED BY <2>2, <2>3
<1> QED BY <1>4, <1>5

-----------------------------------------------------------------------------
(* Each step of a handler keeps the invariant.                             *)

LEMMA CachedKeeps ==
    ASSUME SessionsInv, NEW r \in Requests, validCached(r) PROVE SessionsInv'
<1>1. /\ req[r].pc = "arrived" /\ Active(r) /\ TypeOK /\ req[r] \in Handler /\ RequestHas(r)
      /\ UNCHANGED <<now, rows, imported, available, restarts, faults, issued, leaving, ended, disturbed>>
  BY HandlerFacts DEF validCached, SessionsInv, RequestInv, Active, Busy
<1> DEFINE t == req[r].token
<1>2. t \in Tokens /\ req[r].at \in Nat /\ cache \in [Tokens -> Times]
  BY <1>1 DEF Handler, TypeOK
<1>3. cache' \in [Tokens -> Times] /\ \A u \in Tokens : cache'[u] \in {NoTime, cache[u]}
  BY <1>1, <1>2 DEF validCached, Live, Times
<1>4. PICK pc \in {"refused", "accepted", "missed"} :
        /\ Goes(r, pc)
        /\ pc = "refused" => ~available
        /\ pc # "refused" => available
        /\ pc = "accepted" => cache'[t] = cache[t] /\ cache[t] # NoTime /\ cache[t] > req[r].at
        /\ pc = "missed" => cache'[t] = NoTime
  BY <1>1, <1>2 DEF validCached, Live
<1>5. /\ Moves(r) /\ req'[r].pc = pc
      /\ req'[r].expires = req[r].expires /\ req'[r].excused = req[r].excused
  BY <1>1, <1>4, GoesFacts DEF Busy
<1>6. TypeOK'
  BY <1>1, <1>3, <1>5, MovesTyped DEF TypeOK
<1>7. TablesInv'
  BY <1>1, <1>3 DEF SessionsInv, TablesInv, Spent
<1>8. RequestHas(r)'
  BY <1>1, <1>4, <1>5 DEF Moves, RequestHas, Busy
<1>9. RequestFound(r)'
  <2>1. cache[t] \in {NoTime, issued[t]}
    BY <1>2 DEF SessionsInv, TablesInv
  <2>2. pc = "accepted" => req[r].at < issued[t]
    BY <1>2, <1>4, <2>1 DEF Times
  <2>3. pc = "refused" => req[r].excused
    BY <1>1, <1>4 DEF RequestHas
  <2> QED BY <1>1, <1>4, <1>5, <2>2, <2>3 DEF Moves, RequestFound
<1>10. RequestInv'
  BY <1>1, <1>5, <1>8, <1>9, MovesKeep
<1>11. LogoutInv'
  <2>1. \A u : ~Ends(r, u)' /\ ~Holds(r, u)'
    BY <1>4, <1>5 DEF Ends, Holds
  <2> QED BY <1>1, <1>3, <1>5, <2>1, MovesKeepLogouts
<1> QED BY <1>6, <1>7, <1>10, <1>11 DEF SessionsInv

LEMMA ReadKeeps ==
    ASSUME SessionsInv, NEW r \in Requests, ReadRow(r) \/ ReadFails(r) PROVE SessionsInv'
<1>1. /\ req[r].pc = "missed" /\ Active(r) /\ TypeOK /\ req[r] \in Handler
      /\ RequestHas(r) /\ available
      /\ UNCHANGED <<now, rows, imported, cache, available, restarts, issued, leaving, ended>>
      /\ faults' \in Nat
  <2>1. req[r].pc = "missed"
    BY DEF ReadRow, ReadFails
  <2>2. faults' \in Nat
    BY DEF ReadRow, ReadFails, Fault, SessionsInv, TypeOK
  <2>3. /\ Active(r) /\ TypeOK /\ req[r] \in Handler /\ RequestHas(r) /\ available
    BY <2>1, HandlerFacts DEF SessionsInv, RequestInv, RequestHas, Active, Busy
  <2> QED BY <2>1, <2>2, <2>3 DEF ReadRow, ReadFails, store
<1> DEFINE t == req[r].token
<1>2. t \in Tokens /\ req[r].at \in Nat /\ rows[t] \in Times /\ issued[t] \in Times /\ now \in Nat
  BY <1>1 DEF Handler, TypeOK
<1>3. /\ rows[t] \in {NoTime, issued[t]} /\ issued[t] # NoTime /\ imported /\ req[r].at <= now
      /\ t \notin leaving /\ ~Spent(t) => rows[t] = issued[t]
  BY <1>1, <1>2 DEF SessionsInv, TablesInv, RequestHas
<1>4. PICK pc \in {"refused", "expired", "found"}, expires \in Times, excused \in BOOLEAN :
        /\ req' = [req EXCEPT ![r] = [req[r] EXCEPT !.pc = pc, !.expires = expires, !.excused = excused]]
        /\ pc = "refused" => excused \/ rows[t] = NoTime
        /\ pc = "expired" => rows[t] # NoTime /\ rows[t] <= req[r].at
        /\ pc = "found" => rows[t] # NoTime /\ expires = rows[t] /\ rows[t] > req[r].at
        /\ disturbed' = IF pc = "found" /\ (\E q \in Requests : Ends(q, t)) THEN disturbed \cup {t} ELSE disturbed
  <2>1. req[r].expires \in Times /\ req[r].excused \in BOOLEAN /\ req \in [Requests -> {Idle} \cup Handler]
    BY <1>1 DEF Handler, TypeOK
  <2>2. CASE rows[t] = NoTime /\ Goes(r, "refused") /\ disturbed' = disturbed
    <3>1. [req[r] EXCEPT !.pc = "refused", !.expires = req[r].expires, !.excused = req[r].excused]
            = [req[r] EXCEPT !.pc = "refused"]
      BY <1>1 DEF Handler
    <3>2. req' = [req EXCEPT ![r] = [req[r] EXCEPT !.pc = "refused", !.expires = req[r].expires,
                                                   !.excused = req[r].excused]]
      BY <2>2, <3>1 DEF Goes
    <3> QED BY <2>1, <2>2, <3>2
  <2>3. CASE rows[t] # NoTime /\ rows[t] <= req[r].at /\ Goes(r, "expired") /\ disturbed' = disturbed
    <3>1. [req[r] EXCEPT !.pc = "expired", !.expires = req[r].expires, !.excused = req[r].excused]
            = [req[r] EXCEPT !.pc = "expired"]
      BY <1>1 DEF Handler
    <3>2. req' = [req EXCEPT ![r] = [req[r] EXCEPT !.pc = "expired", !.expires = req[r].expires,
                                                   !.excused = req[r].excused]]
      BY <2>3, <3>1 DEF Goes
    <3> QED BY <2>1, <2>3, <3>2
  <2>4. CASE /\ rows[t] # NoTime /\ rows[t] > req[r].at
             /\ req' = [req EXCEPT ![r].pc = "found", ![r].expires = rows[t]]
             /\ disturbed' = disturbed \cup {u \in {t} : \E q \in Requests : Ends(q, u)}
    <3>1. req' = [req EXCEPT ![r] = [req[r] EXCEPT !.pc = "found", !.expires = rows[t],
                                                   !.excused = req[r].excused]]
      BY <1>1, <2>1, <2>4 DEF Handler
    <3>2. disturbed' = IF \E q \in Requests : Ends(q, t) THEN disturbed \cup {t} ELSE disturbed
      BY <2>4
    <3> QED BY <1>2, <2>1, <2>4, <3>1, <3>2
  <2>5. CASE req' = [req EXCEPT ![r].pc = "refused", ![r].excused = TRUE] /\ disturbed' = disturbed
    <3>1. req' = [req EXCEPT ![r] = [req[r] EXCEPT !.pc = "refused", !.expires = req[r].expires,
                                                   !.excused = TRUE]]
      BY <1>1, <2>1, <2>5 DEF Handler
    <3> QED BY <2>1, <2>5, <3>1
  <2> QED BY <2>2, <2>3, <2>4, <2>5 DEF ReadRow, ReadFails
<1>5. Moves(r) /\ req'[r].pc = pc /\ req'[r].expires = expires /\ req'[r].excused = excused
  BY <1>1, <1>4, MovesFacts DEF Busy
<1>d. disturbed \subseteq disturbed' /\ disturbed' \subseteq Tokens
  BY <1>1, <1>2, <1>4 DEF TypeOK
<1>6. TypeOK'
  BY <1>1, <1>5, <1>d, MovesTyped DEF TypeOK
<1>7. TablesInv'
  BY <1>1 DEF SessionsInv, TablesInv, Spent
<1>8. RequestHas(r)'
  BY <1>1, <1>4, <1>5 DEF Moves, RequestHas, Busy
<1>9. RequestFound(r)'
  <2>1. pc = "found" => expires = issued[t] /\ expires > req[r].at
    BY <1>3, <1>4
  <2>2. pc = "expired" => issued[t] <= req[r].at
    BY <1>3, <1>4
  <2>3. pc = "refused" => excused \/ t \in leaving \/ Spent(t)
    BY <1>3, <1>4
  <2> QED BY <1>1, <1>4, <1>5, <2>1, <2>2, <2>3 DEF Moves, RequestFound, Spent
<1>10. RequestInv'
  BY <1>1, <1>5, <1>8, <1>9, MovesKeep
<1>11. LogoutInv'
  <2>1. \A u : ~Ends(r, u)'
    BY <1>4, <1>5 DEF Ends
  <2>2. \A u \in Tokens \ disturbed' : Holds(r, u)' => rows[u] # NoTime /\ \A q \in Requests : ~Ends(q, u)
    <3> SUFFICES ASSUME NEW u \in Tokens \ disturbed', Holds(r, u)'
                 PROVE  rows[u] # NoTime /\ \A q \in Requests : ~Ends(q, u)
      OBVIOUS
    <3>1. u = t /\ pc = "found"
      BY <1>5 DEF Holds, Moves
    <3> QED BY <1>4, <3>1
  <2> QED BY <1>1, <1>5, <1>d, <2>1, <2>2, MovesKeepLogouts
<1> QED BY <1>6, <1>7, <1>10, <1>11 DEF SessionsInv

(* Remember writes what the row had, and nothing ended the session since,  *)
(* unless that was noticed.                                                *)
LEMMA RememberKeeps ==
    ASSUME SessionsInv, NEW r \in Requests, Remember(r) PROVE SessionsInv'
<1>1. /\ req[r].pc = "found" /\ Active(r) /\ TypeOK /\ req[r] \in Handler
      /\ RequestHas(r) /\ RequestFound(r)
      /\ UNCHANGED <<now, rows, imported, available, restarts, faults, issued, leaving, ended, disturbed>>
      /\ Goes(r, "accepted")
      /\ cache' = [cache EXCEPT ![req[r].token] = req[r].expires]
  BY HandlerFacts DEF Remember, SessionsInv, RequestInv, Active, Busy
<1> DEFINE t == req[r].token
<1>2. t \in Tokens /\ req[r].expires \in Times /\ cache \in [Tokens -> Times]
  BY <1>1 DEF Handler, TypeOK
<1>3. /\ cache' \in [Tokens -> Times] /\ cache'[t] = issued[t] /\ issued[t] > req[r].at
      /\ \A u \in Tokens \ {t} : cache'[u] = cache[u]
  BY <1>1, <1>2 DEF RequestFound
<1>4. /\ Moves(r) /\ req'[r].pc = "accepted"
      /\ req'[r].expires = req[r].expires /\ req'[r].excused = req[r].excused
  BY <1>1, GoesFacts
<1>5. TypeOK'
  BY <1>1, <1>3, <1>4, MovesTyped DEF TypeOK
<1>6. TablesInv'
  BY <1>1, <1>2, <1>3 DEF SessionsInv, TablesInv, Spent
<1>7. RequestHas(r)' /\ RequestFound(r)'
  <2>1. issued[t] \in Times /\ issued[t] # NoTime /\ req[r].at \in Nat
    BY <1>1, <1>2 DEF TypeOK, Handler, RequestHas
  <2>2. req[r].at < issued[t]
    BY <1>3, <2>1 DEF Times
  <2> QED BY <1>1, <1>4, <2>2 DEF Moves, RequestHas, RequestFound, Busy
<1>8. RequestInv'
  BY <1>1, <1>4, <1>7, MovesKeep
<1>9. LogoutInv'
  <2>1. Holds(r, t)
    BY <1>1 DEF Holds
  <2>2. \A u : ~Ends(r, u)' /\ ~Holds(r, u)'
    BY <1>4 DEF Ends, Holds
  <2>3. \A u \in Tokens : cache'[u] \in {NoTime, cache[u]} \/ Holds(r, u)
    BY <1>3, <2>1
  <2> QED BY <1>1, <1>4, <2>2, <2>3, MovesKeepLogouts
<1> QED BY <1>5, <1>6, <1>8, <1>9 DEF SessionsInv

LEMMA DropKeeps ==
    ASSUME SessionsInv, NEW r \in Requests, DropCached(r) PROVE SessionsInv'
<1>1. /\ req[r].pc = "expired" \/ (req[r].pc = "accepted" /\ req[r].kind = "logout")
      /\ UNCHANGED <<now, rows, imported, available, restarts, faults, issued, leaving, ended>>
      /\ disturbed' = disturbed \cup
           {u \in {req[r].token} : req[r].kind = "logout" /\ \E q \in Requests : Holds(q, u)}
      /\ Goes(r, "dropped")
      /\ cache' = [cache EXCEPT ![req[r].token] = NoTime]
  BY DEF DropCached
<1>2. Active(r) /\ TypeOK /\ req[r] \in Handler /\ RequestHas(r) /\ RequestFound(r) /\ available
  BY <1>1, HandlerFacts DEF SessionsInv, RequestInv, RequestHas, Active, Busy
<1> DEFINE t == req[r].token
<1>3. t \in Tokens /\ cache \in [Tokens -> Times] /\ req[r].kind \in {"use", "logout"}
  BY <1>2 DEF Handler, TypeOK
<1>4. /\ cache' \in [Tokens -> Times] /\ cache'[t] = NoTime
      /\ \A u \in Tokens : cache'[u] \in {NoTime, cache[u]}
  BY <1>1, <1>3 DEF Times
<1>5. /\ Moves(r) /\ req'[r].pc = "dropped"
      /\ req'[r].expires = req[r].expires /\ req'[r].excused = req[r].excused
  BY <1>1, <1>2, GoesFacts DEF Busy
<1>d. disturbed \subseteq disturbed' /\ disturbed' \subseteq Tokens
  BY <1>1, <1>2, <1>3 DEF TypeOK
<1>6. TypeOK'
  BY <1>1, <1>2, <1>4, <1>5, <1>d, MovesTyped DEF TypeOK
<1>7. TablesInv'
  BY <1>1, <1>4 DEF SessionsInv, TablesInv, Spent
<1>8. RequestHas(r)' /\ RequestFound(r)'
  BY <1>1, <1>2, <1>5 DEF Moves, RequestHas, RequestFound
<1>9. RequestInv'
  BY <1>1, <1>5, <1>8, MovesKeep
<1>10. LogoutInv'
  <2>1. \A u \in Tokens \ disturbed' : Ends(r, u)' => cache'[u] = NoTime /\ \A q \in Requests : ~Holds(q, u)
    <3> SUFFICES ASSUME NEW u \in Tokens \ disturbed', Ends(r, u)'
                 PROVE  cache'[u] = NoTime /\ \A q \in Requests : ~Holds(q, u)
      OBVIOUS
    <3>1. u = t /\ req[r].kind = "logout"
      BY <1>5 DEF Ends, Moves
    <3> QED BY <1>1, <1>4, <3>1
  <2>2. \A u : ~Holds(r, u)'
    BY <1>5 DEF Holds
  <2> QED BY <1>1, <1>4, <1>5, <1>d, <2>1, <2>2, MovesKeepLogouts
<1> QED BY <1>6, <1>7, <1>9, <1>10 DEF SessionsInv

(* The row goes, and with it the session: for good, unless that failed or  *)
(* somebody still holds the row.                                           *)
LEMMA DeleteKeeps ==
    ASSUME SessionsInv, NEW r \in Requests, DeleteRow(r) PROVE SessionsInv'
<1> DEFINE t == req[r].token
           pc == IF req[r].kind = "logout" THEN "done" ELSE "refused"
<1>1. /\ req[r].pc = "dropped" /\ Goes(r, pc)
      /\ UNCHANGED <<now, imported, cache, available, restarts, issued, leaving>>
      /\ ended' = IF req[r].kind = "logout" THEN ended \cup {t} ELSE ended
      /\ \/ rows' = [rows EXCEPT ![t] = NoTime] /\ UNCHANGED <<faults, disturbed>>
         \/ /\ Fault /\ UNCHANGED rows
            /\ disturbed' = IF req[r].kind = "logout" THEN disturbed \cup {t} ELSE disturbed
  BY DEF DeleteRow
<1>2. Active(r) /\ TypeOK /\ req[r] \in Handler /\ RequestHas(r) /\ RequestFound(r) /\ available
  BY <1>1, HandlerFacts DEF SessionsInv, RequestInv, RequestHas, Active, Busy
<1>3. /\ t \in Tokens /\ rows \in [Tokens -> Times] /\ faults \in Nat
      /\ req[r].kind \in {"use", "logout"} /\ ended \subseteq Tokens /\ disturbed \subseteq Tokens
  BY <1>2 DEF Handler, TypeOK
<1>4. /\ rows' \in [Tokens -> Times] /\ faults' \in Nat
      /\ ended' \subseteq Tokens /\ disturbed' \subseteq Tokens /\ disturbed \subseteq disturbed'
      /\ \A u \in Tokens : rows'[u] \in {NoTime, rows[u]}
      /\ \A u \in Tokens \ {t} : rows'[u] = rows[u]
      /\ req[r].kind = "logout" => t \in disturbed' \/ rows'[t] = NoTime
  BY <1>1, <1>3 DEF Times, Fault
<1>5. /\ Moves(r) /\ req'[r].pc = pc
      /\ req'[r].expires = req[r].expires /\ req'[r].excused = req[r].excused
  BY <1>1, <1>2, GoesFacts
<1>6. TypeOK'
  BY <1>1, <1>2, <1>4, <1>5, MovesTyped DEF TypeOK
<1>7. t \in leaving \/ Spent(t)
  <2>1. issued[t] \in Times /\ issued[t] # NoTime /\ req[r].at \in Nat /\ now \in Nat
    BY <1>2, <1>3 DEF TypeOK, Handler, RequestHas
  <2>2. req[r].at <= now
    BY <1>2 DEF RequestHas
  <2>3. CASE req[r].kind = "logout"
    BY <1>2, <2>3 DEF RequestHas
  <2>4. CASE req[r].kind = "use"
    <3>1. issued[t] <= req[r].at
      BY <1>1, <1>2, <2>4 DEF RequestFound
    <3> QED BY <2>1, <2>2, <3>1 DEF Times, Spent
  <2> QED BY <1>3, <2>3, <2>4
<1>8. TablesInv'
  <2>1. ASSUME NEW u \in Tokens, issued[u] # NoTime, u \notin leaving, ~Spent(u),
               imported \/ u \notin Legacy
        PROVE  rows'[u] = issued[u]
    <3>1. rows[u] = issued[u]
      BY <2>1 DEF SessionsInv, TablesInv
    <3>2. u # t
      BY <1>7, <2>1
    <3> QED BY <1>4, <3>1, <3>2
  <2>2. \A u \in Tokens : rows'[u] \in {NoTime, issued[u]} /\ cache[u] \in {NoTime, issued[u]}
    BY <1>4 DEF SessionsInv, TablesInv
  <2> QED BY <1>1, <2>1, <2>2 DEF SessionsInv, TablesInv, Spent
<1>9. RequestHas(r)' /\ RequestFound(r)'
  BY <1>1, <1>2, <1>5, <1>7 DEF Moves, RequestHas, RequestFound, Spent, Busy
<1>10. RequestInv'
  BY <1>1, <1>5, <1>9, MovesKeep
<1>11. LogoutInv'
  <2>1. \A u : ~Ends(r, u)' /\ ~Holds(r, u)'
    BY <1>5 DEF Ends, Holds
  <2>2. \A u \in Tokens \ disturbed' : u \in ended' /\ u \notin ended => Ends(r, u) /\ rows'[u] = NoTime
    <3> SUFFICES ASSUME NEW u \in Tokens \ disturbed', u \in ended', u \notin ended
                 PROVE  Ends(r, u) /\ rows'[u] = NoTime
      OBVIOUS
    <3>1. u = t /\ req[r].kind = "logout"
      BY <1>1
    <3> QED BY <1>1, <1>4, <3>1 DEF Ends
  <2>3. ended \subseteq ended'
    BY <1>1
  <2>4. \A u \in Tokens : cache'[u] \in {NoTime, cache[u]}
    BY <1>1
  <2> QED BY <1>1, <1>4, <1>5, <2>1, <2>2, <2>3, <2>4, MovesKeepLogouts
<1> QED BY <1>6, <1>8, <1>10, <1>11 DEF SessionsInv

(* A request that arrives holds nothing yet.                               *)
LEMMA ArriveKeeps ==
    ASSUME SessionsInv, NEW r \in Requests, NEW t \in Tokens, NEW kind \in {"use", "logout"},
           Arrive(r, t, kind)
    PROVE  SessionsInv'
<1> DEFINE new == [pc |-> "arrived", kind |-> kind, token |-> t, at |-> now, expires |-> NoTime,
                   excused |-> ~available]
<1>1. /\ ~Active(r) /\ issued[t] # NoTime
      /\ req' = [req EXCEPT ![r] = new]
      /\ leaving' = IF kind = "logout" THEN leaving \cup {t} ELSE leaving
      /\ UNCHANGED <<now, rows, imported, cache, available, restarts, faults, issued, ended, disturbed>>
  BY DEF Arrive, store
<1>2. TypeOK /\ now \in Nat /\ available \in BOOLEAN
  BY DEF SessionsInv, TypeOK
<1>3. new \in Handler
  BY <1>2 DEF Handler, Times, Busy
<1>4. /\ req' \in [Requests -> {Idle} \cup Handler]
      /\ req'[r] = new /\ \A q \in Requests \ {r} : req'[q] = req[q]
  BY <1>1, <1>2, <1>3 DEF TypeOK, Handler
<1>5. leaving' \subseteq Tokens /\ leaving \subseteq leaving'
  BY <1>1, <1>2 DEF TypeOK
<1>6. TypeOK'
  BY <1>1, <1>2, <1>4, <1>5 DEF TypeOK, Handler
<1>7. TablesInv'
  BY <1>1, <1>5 DEF SessionsInv, TablesInv, Spent
<1>8. RequestInv'
  <2> SUFFICES ASSUME NEW q \in Requests, (req[q].pc # "idle")' PROVE RequestHas(q)' /\ RequestFound(q)'
    BY DEF RequestInv
  <2>1. CASE q = r
    <3>1. now <= now
      BY <1>2
    <3> QED BY <1>1, <1>4, <2>1, <3>1 DEF RequestHas, RequestFound
  <2>2. CASE q # r
    <3>1. req'[q] = req[q]
      BY <1>4, <2>2
    <3>2. RequestHas(q) /\ RequestFound(q)
      BY <3>1 DEF SessionsInv, RequestInv
    <3> QED BY <1>1, <1>5, <3>1, <3>2 DEF RequestHas, RequestFound, Spent
  <2> QED BY <2>1, <2>2
<1>9. LogoutInv'
  <2>1. ASSUME NEW q \in Requests, NEW u \in Tokens
        PROVE  (Holds(q, u)' => Holds(q, u)) /\ (Ends(q, u)' => Ends(q, u))
    <3>1. CASE q = r
      BY <1>4, <3>1 DEF Holds, Ends
    <3>2. CASE q # r
      BY <1>4, <3>2 DEF Holds, Ends
    <3> QED BY <3>1, <3>2
  <2> QED BY <1>1, <2>1, LogoutsKept
<1> QED BY <1>6, <1>7, <1>8, <1>9 DEF SessionsInv

(* Nobody has met a session that is only created now.                      *)
LEMMA CreateKeeps ==
    ASSUME SessionsInv, NEW t \in Tokens, Create(t) PROVE SessionsInv'
<1>1. /\ TypeOK /\ issued[t] = NoTime /\ available
      /\ TTL \in Nat \ {0} /\ NoTime \notin Nat /\ now \in Nat /\ faults \in Nat
      /\ UNCHANGED <<now, imported, available, req, restarts, leaving, ended, disturbed>>
  BY SessionsAssumption DEF SessionsInv, TypeOK, Create
<1>2. PICK end \in Times :
        \/ /\ rows' = [rows EXCEPT ![t] = end] /\ cache' = [cache EXCEPT ![t] = end]
           /\ issued' = [issued EXCEPT ![t] = end] /\ faults' = faults
        \/ UNCHANGED <<rows, cache, issued>> /\ faults' = faults + 1
  BY <1>1 DEF Create, Fault, Times
<1>3. /\ \A u \in Tokens \ {t} : rows'[u] = rows[u] /\ cache'[u] = cache[u] /\ issued'[u] = issued[u]
      /\ rows'[t] \in {NoTime, issued'[t]} /\ cache'[t] \in {NoTime, issued'[t]}
      /\ issued'[t] # NoTime => rows'[t] = issued'[t]
      /\ TypeOK'
  <2>1. rows[t] = NoTime /\ cache[t] = NoTime
    BY <1>1 DEF SessionsInv, TablesInv
  <2>2. rows \in [Tokens -> Times] /\ cache \in [Tokens -> Times] /\ issued \in [Tokens -> Times]
    BY <1>1 DEF TypeOK
  <2>3. rows' \in [Tokens -> Times] /\ cache' \in [Tokens -> Times] /\ issued' \in [Tokens -> Times]
    BY <1>2, <2>2
  <2>4. TypeOK'
    BY <1>1, <1>2, <2>3 DEF TypeOK
  <2> QED BY <1>1, <1>2, <2>1, <2>2, <2>4
<1>4. TablesInv'
  <2>1. t \notin Legacy
    BY <1>1, SessionsAssumption DEF SessionsInv, TablesInv
  <2>2. Legacy \subseteq Tokens
    BY SessionsAssumption
  <2> QED BY <1>1, <1>3, <2>1, <2>2 DEF SessionsInv, TablesInv, Spent
<1>5. \A q \in Requests : req[q].pc # "idle" => req[q].token # t /\ req[q].token \in Tokens
  BY <1>1, HandlerFacts DEF SessionsInv, RequestInv, RequestHas, Handler
<1>6. RequestInv'
  <2> SUFFICES ASSUME NEW q \in Requests, req[q].pc # "idle" PROVE RequestHas(q)' /\ RequestFound(q)'
    BY <1>1 DEF RequestInv
  <2>1. issued'[req[q].token] = issued[req[q].token]
    BY <1>3, <1>5
  <2> QED BY <1>1, <2>1 DEF SessionsInv, RequestInv, RequestHas, RequestFound, Spent
<1>7. LogoutInv'
  <2>1. \A u \in Tokens : issued[u] # NoTime => u # t
    BY <1>1
  <2>2. \A q \in Requests, u \in Tokens : (Holds(q, u)' => Holds(q, u)) /\ (Ends(q, u)' => Ends(q, u))
    BY <1>1 DEF Holds, Ends
  <2> QED BY <1>1, <1>3, <2>1, <2>2, LogoutsKept
<1> QED BY <1>3, <1>4, <1>6, <1>7 DEF SessionsInv

(* A time of an earlier second has an earlier text.                        *)
LEMMA TextBegins ==
    ASSUME NEW t \in Nat
    PROVE  Stamp!RFC3339Nano(t) \in Seq(Int) /\ Stamp!RFC3339Nano(t)[1] = Stamp!SecondOf(t) /\ Stamp!SecondOf(t) \in Nat
           /\ 1 \in DOMAIN Stamp!RFC3339Nano(t)
<1>1. Base \in Nat /\ Base >= 2
  BY SessionsAssumption
<1>2. Stamp!Second \in Nat /\ Stamp!Second > 0
  BY <1>1 DEF Stamp!Second
<1>3. Stamp!SecondOf(t) \in Nat /\ t % Stamp!Second \in Int /\ t % Base \in Int
  BY <1>1, <1>2 DEF Stamp!SecondOf
<1> DEFINE tenths == (t % Stamp!Second) \div Base
           rest == t % Base
           fraction == CASE rest # 0 -> <<Stamp!Dot, Stamp!Digit(tenths), Stamp!Digit(rest), Stamp!Zed>>
                         [] rest = 0 /\ tenths # 0 -> <<Stamp!Dot, Stamp!Digit(tenths), Stamp!Zed>>
                         [] OTHER -> <<Stamp!Zed>>
<1>4. tenths \in Int /\ rest \in Int /\ Stamp!Dot \in Int /\ Stamp!Zed \in Int
  BY <1>1, <1>3 DEF Stamp!Dot, Stamp!Zed
<1>5. Stamp!Digit(tenths) \in Int /\ Stamp!Digit(rest) \in Int
  BY <1>4 DEF Stamp!Digit
<1>6. fraction \in Seq(Int)
  <2> HIDE DEF tenths, rest
  <2>1. CASE rest # 0
    BY <1>4, <1>5, <2>1
  <2>2. CASE rest = 0 /\ tenths # 0
    BY <1>4, <1>5, <2>2
  <2>3. CASE rest = 0 /\ ~(tenths # 0)
    BY <1>4, <1>5, <2>3
  <2> QED BY <2>1, <2>2, <2>3
<1>7. Stamp!RFC3339Nano(t) = <<Stamp!SecondOf(t)>> \o fraction
  BY DEF Stamp!RFC3339Nano
<1> HIDE DEF fraction
<1> QED BY <1>3, <1>6, <1>7

LEMMA EarlierSecondEarlierText ==
    ASSUME NEW t \in Nat, NEW u \in Nat, Stamp!SecondOf(t) < Stamp!SecondOf(u)
    PROVE  Stamp!Before(t, u)
<1> DEFINE a == Stamp!RFC3339Nano(t)
           b == Stamp!RFC3339Nano(u)
<1>1. 1 \in DOMAIN a \cap DOMAIN b /\ a[1] < b[1]
  BY TextBegins
<1> HIDE DEF a, b
<1>2. \E k \in DOMAIN a \cap DOMAIN b : a[k] < b[k] /\ \A j \in 1..(k - 1) : a[j] = b[j]
  <2>1. \A j \in 1..(1 - 1) : a[j] = b[j]
    OBVIOUS
  <2> QED BY <1>1, <2>1
<1> QED BY <1>2 DEF Stamp!Before, Stamp!TextBefore, a, b

(* Time goes on to the same second or a later one.                         *)
LEMMA SecondsGoOn == ASSUME NEW t \in Nat PROVE Stamp!SecondOf(t) <= Stamp!SecondOf(t + 1)
<1> DEFINE d == Stamp!Second
           x == Stamp!SecondOf(t)
           y == Stamp!SecondOf(t + 1)
           rx == t % d
           ry == (t + 1) % d
<1>1. d \in Nat \ {0}
  <2>1. Base \in Nat /\ Base >= 2
    BY SessionsAssumption
  <2> QED BY <2>1 DEF Stamp!Second
<1>2. /\ x \in Nat /\ rx \in Nat /\ t = d * x + rx
      /\ y \in Nat /\ ry \in Nat /\ ry < d /\ t + 1 = d * y + ry
  <2>1. \A n \in Nat, m \in Nat \ {0} : n \div m \in Nat /\ n % m \in Nat /\ n % m < m /\ n = m * (n \div m) + (n % m)
    OBVIOUS
  <2> QED BY <1>1, <2>1 DEF Stamp!SecondOf
<1> HIDE DEF d, x, y, rx, ry
<1> SUFFICES ASSUME y < x PROVE FALSE
  BY <1>2 DEF x, y
<1>3. PICK z \in Nat : x = y + 1 + z
  <2>1. x - y - 1 \in Nat /\ x = y + 1 + (x - y - 1)
    BY <1>2
  <2> QED BY <2>1
<1>4. d * x = d * y + d + d * z /\ d * z \in Nat /\ d * y \in Nat /\ d * x \in Nat
  BY <1>1, <1>2, <1>3
<1> QED BY <1>1, <1>2, <1>4

(* A start forgets the handlers and the cache; sessions are imported once, *)
(* before any of them can be ended.                                        *)
LEMMA RestartKeeps == ASSUME SessionsInv, Restart PROVE SessionsInv'
<1>1. /\ TypeOK /\ InstalledAt + TTL \in Nat /\ NoTime \notin Nat /\ now \in Nat /\ Legacy \subseteq Tokens
      /\ restarts' = restarts + 1
      /\ cache' = [u \in Tokens |-> NoTime]
      /\ req' = [r \in Requests |-> Idle]
      /\ UNCHANGED <<now, issued, leaving, ended, disturbed>>
  BY SessionsAssumption DEF SessionsInv, TypeOK, Restart
<1>2. \/ /\ imported' = TRUE /\ available' = TRUE /\ faults' = faults
         /\ \/ imported /\ rows' = rows
            \/ ~imported /\ rows' = WithLegacy
      \/ available' = FALSE /\ rows' = rows /\ imported' = imported /\ faults' = faults + 1
  BY <1>1 DEF Restart, CopyLegacySessions, Fault, TypeOK
<1>3. \A u \in Tokens :
        /\ rows'[u] = rows[u] \/ (~imported /\ u \in Legacy /\ rows'[u] = InstalledAt + TTL)
        /\ imported' /\ ~imported /\ u \in Legacy /\ Stamp!Before(now, InstalledAt + TTL) =>
              rows'[u] = InstalledAt + TTL \/ rows[u] # NoTime
  BY <1>1, <1>2 DEF WithLegacy, LegacyRows
<1>4. rows' \in [Tokens -> Times]
  <2>1. rows \in [Tokens -> Times]
    BY <1>1 DEF TypeOK
  <2>2. InstalledAt + TTL \in Times
    BY <1>1 DEF Times
  <2> QED BY <1>2, <1>3, <2>1, <2>2 DEF WithLegacy
<1>5. TypeOK'
  <2>2. disturbed' \subseteq Tokens
    BY <1>1 DEF TypeOK
  <2>3. imported' \in BOOLEAN /\ available' \in BOOLEAN
    BY <1>1, <1>2, Zenon DEF TypeOK
  <2>6. faults' \in Nat /\ restarts' \in Nat
    <3>1. faults \in Nat /\ restarts \in Nat /\ faults' \in {faults, faults + 1}
      BY <1>1, <1>2 DEF TypeOK
    <3> QED BY <1>1, <3>1
  <2>4. cache' \in [Tokens -> Times]
    BY <1>1 DEF Times
  <2>5. req' \in [Requests -> {Idle} \cup Handler]
    BY <1>1
  <2> QED BY <1>1, <1>4, <2>2, <2>3, <2>4, <2>5, <2>6 DEF TypeOK, Handler
<1>6. TablesInv'
  <2>1. available' => imported'
    BY <1>2, Zenon
  <2>2. \A u \in Tokens : rows'[u] \in {NoTime, issued[u]}
    BY <1>3 DEF SessionsInv, TablesInv
  <2>3. ASSUME NEW u \in Tokens, issued[u] # NoTime, u \notin leaving, ~Spent(u),
               imported' \/ u \notin Legacy
        PROVE  rows'[u] = issued[u]
    <3>1. CASE imported \/ u \notin Legacy
      BY <1>3, <2>3, <3>1 DEF SessionsInv, TablesInv
    <3>2. CASE ~imported /\ u \in Legacy
      <4>1. issued[u] = InstalledAt + TTL /\ imported'
        BY <2>3, <3>2 DEF SessionsInv, TablesInv
      <4>2. Stamp!SecondOf(now) < Stamp!SecondOf(InstalledAt + TTL)
        <5>1. Stamp!SecondOf(now) \in Nat /\ Stamp!SecondOf(InstalledAt + TTL) \in Nat
          BY <1>1, TextBegins
        <5>2. ~(Stamp!SecondOf(now) >= Stamp!SecondOf(InstalledAt + TTL))
          BY <2>3, <3>2, <4>1 DEF Spent
        <5> QED BY <5>1, <5>2
      <4>3. Stamp!Before(now, InstalledAt + TTL)
        BY <1>1, <4>2, EarlierSecondEarlierText
      <4> QED BY <1>3, <3>2, <4>1, <4>3 DEF SessionsInv, TablesInv
    <3> QED BY <3>1, <3>2
  <2> QED BY <1>1, <2>1, <2>2, <2>3 DEF SessionsInv, TablesInv, Spent
<1>7. \A q \in Requests : req'[q].pc = "idle"
  BY <1>1 DEF Idle
<1>8. RequestInv'
  BY <1>7 DEF RequestInv
<1>9. LogoutInv'
  <2>1. \A q \in Requests, u \in Tokens : ~Holds(q, u)' /\ ~Ends(q, u)'
    BY <1>7 DEF Holds, Ends
  <2>2. \A u \in Tokens : imported => rows'[u] = rows[u]
    BY <1>3
  <2>3. imported => imported'
    BY <1>2, Zenon
  <2> QED BY <1>1, <2>1, <2>2, <2>3, LogoutsKept
<1> QED BY <1>5, <1>6, <1>8, <1>9 DEF SessionsInv

LEMMA TickKeeps == ASSUME SessionsInv, Tick PROVE SessionsInv'
<1>1. /\ TypeOK /\ now \in Nat /\ now' = now + 1
      /\ UNCHANGED <<rows, imported, cache, available, req, restarts, faults, issued, leaving, ended, disturbed>>
  BY DEF SessionsInv, TypeOK, Tick, store
<1>2. TypeOK'
  BY <1>1 DEF TypeOK
<1>s. \A u : Spent(u) /\ issued[u] \in Nat => Spent(u)'
  <2> SUFFICES ASSUME NEW u, Spent(u), issued[u] \in Nat PROVE Spent(u)'
    OBVIOUS
  <2>1. CASE now >= issued[u]
    <3>1. now' >= issued'[u]
      BY <1>1, <2>1
    <3> QED BY <3>1 DEF Spent
  <2>2. CASE u \in Legacy /\ Stamp!SecondOf(now) >= Stamp!SecondOf(issued[u])
    <3>1. Stamp!SecondOf(now) <= Stamp!SecondOf(now + 1)
      BY <1>1, SecondsGoOn
    <3>2. Stamp!SecondOf(now) \in Nat /\ Stamp!SecondOf(now + 1) \in Nat /\ Stamp!SecondOf(issued[u]) \in Nat
      <4>1. \A t \in Nat : Stamp!SecondOf(t) \in Nat
        BY TextBegins
      <4> QED BY <1>1, <4>1
    <3>3. Stamp!SecondOf(now + 1) >= Stamp!SecondOf(issued[u])
      BY <2>2, <3>1, <3>2
    <3> QED BY <1>1, <2>2, <3>3 DEF Spent
  <2> QED BY <2>1, <2>2 DEF Spent
<1>3. TablesInv'
  <2>1. \A u \in Tokens : issued[u] \in Times
    BY <1>1 DEF TypeOK
  <2>2. \A u \in Tokens : issued[u] # NoTime /\ ~Spent(u)' => ~Spent(u)
    BY <1>s, <2>1 DEF Times
  <2> QED BY <1>1, <2>2 DEF SessionsInv, TablesInv
<1>4. RequestInv'
  <2> SUFFICES ASSUME NEW q \in Requests, req[q].pc # "idle" PROVE RequestHas(q)' /\ RequestFound(q)'
    BY <1>1 DEF RequestInv
  <2>1. RequestHas(q) /\ RequestFound(q) /\ req[q] \in Handler
    BY <1>1, HandlerFacts DEF SessionsInv, RequestInv
  <2>2. issued[req[q].token] \in Nat /\ req[q].at \in Nat
    BY <1>1, <2>1 DEF TypeOK, Handler, Times, RequestHas
  <2>3. /\ req[q].at <= now => req[q].at <= now'
        /\ Spent(req[q].token) => Spent(req[q].token)'
    <3>1. req'[q].token = req[q].token
      BY <1>1
    <3> QED BY <1>1, <1>s, <2>2, <3>1
  <2> QED BY <1>1, <2>1, <2>3 DEF RequestHas, RequestFound
<1>5. LogoutInv'
  <2>1. \A q \in Requests, u \in Tokens : (Holds(q, u)' => Holds(q, u)) /\ (Ends(q, u)' => Ends(q, u))
    BY <1>1 DEF Holds, Ends
  <2> QED BY <1>1, <2>1, LogoutsKept
<1> QED BY <1>2, <1>3, <1>4, <1>5 DEF SessionsInv

LEMMA StutterKeeps == ASSUME SessionsInv, UNCHANGED vars PROVE SessionsInv'
BY DEF vars, SessionsInv, TypeOK, TablesInv, RequestInv, RequestHas, RequestFound, Spent, LogoutInv, Ends, Holds

LEMMA SessionsInit == ASSUME Init PROVE SessionsInv
<1>1. /\ InstalledAt \in Nat /\ InstalledAt + TTL \in Nat /\ NoTime \notin Nat /\ Legacy \subseteq Tokens
      /\ now = InstalledAt /\ ~imported /\ ~available /\ issued = LegacyRows
      /\ rows = [t \in Tokens |-> NoTime] /\ cache = [t \in Tokens |-> NoTime]
      /\ req = [r \in Requests |-> Idle] /\ ended = {}
  BY SessionsAssumption DEF Init
<1>2. issued \in [Tokens -> Times] /\ rows \in [Tokens -> Times] /\ cache \in [Tokens -> Times]
  BY <1>1 DEF LegacyRows, Times
<1>3. TypeOK
  <2>1. imported \in BOOLEAN /\ available \in BOOLEAN
    BY DEF Init
  <2> QED BY <1>1, <1>2, <2>1 DEF Init, TypeOK
<1>4. TablesInv
  BY <1>1 DEF TablesInv, LegacyRows
<1>5. \A r \in Requests : req[r].pc = "idle"
  BY <1>1 DEF Idle
<1>6. RequestInv /\ LogoutInv
  BY <1>1, <1>5 DEF RequestInv, LogoutInv, Ends, Holds
<1> QED BY <1>3, <1>4, <1>6 DEF SessionsInv

LEMMA SessionsStep == ASSUME SessionsInv, [Next]_vars PROVE SessionsInv'
<1>1. ASSUME NEW r \in Requests, Step(r) PROVE SessionsInv'
  BY <1>1, ArriveKeeps, CachedKeeps, ReadKeeps, RememberKeeps, DropKeeps, DeleteKeeps DEF Step
<1> QED BY <1>1, RestartKeeps, TickKeeps, CreateKeeps, StutterKeeps DEF Next

LEMMA SessionsGood == ASSUME SessionsInv PROVE SessionsHold
<1>1. \A r \in Requests : req[r].pc \in {"accepted", "refused"} => RequestFound(r)
  BY DEF SessionsInv, RequestInv
<1>2. AcceptedInTime /\ SessionsOutliveRestarts
  BY <1>1 DEF AcceptedInTime, SessionsOutliveRestarts, RequestFound
<1>3. SettledLogoutsHold
  <2>1. ended \subseteq Tokens
    BY DEF SessionsInv, TypeOK
  <2> QED BY <2>1 DEF SessionsInv, LogoutInv, SettledLogoutsHold
<1> QED BY <1>2, <1>3 DEF SessionsHold

-----------------------------------------------------------------------------
(* The migrations of the audit database.                                   *)

(* What is known of a process: the migrations before its own are recorded, *)
(* its own is not when the file was not written since it read, and what    *)
(* the one that has the lock will commit is made from the file as it is.   *)
ProcessInv(p) ==
    /\ place[p] \in {"check", "write", "commit"} => Upgrading!Oldest(at[p] - 1) \subseteq db.applied
    /\ place[p] = "running" => db.applied = Upgrading!Versions
    /\ place[p] = "write" /\ ~stale[p] => Upgrading!At(p) \notin db.applied
    /\ place[p] = "commit" => Upgrading!At(p) \notin db.applied /\ work[p] = Upgrading!Apply(Upgrading!At(p), db)
    /\ place[p] = "commit" <=> writer = p

FileInv ==
    /\ Upgrading!RecordedIsDone /\ Upgrading!TotalsSurvive /\ Upgrading!ChosenRetentionStands
    /\ 9 \notin db.applied => db.rows = events
    /\ chosen # None => db.applied = Upgrading!Versions

UpgradeInv == Upgrading!TypeOK /\ FileInv /\ \A p \in Processes : ProcessInv(p)

(* The list of the migrations.                                             *)
LEMMA ListFacts ==
    /\ DOMAIN Upgrading!auditMigrations = 1..7 /\ Len(Upgrading!auditMigrations) = 7
    /\ Upgrading!auditMigrations[1] = 1 /\ Upgrading!auditMigrations[2] = 6 /\ Upgrading!auditMigrations[3] = 8 /\ Upgrading!auditMigrations[4] = 9
    /\ Upgrading!auditMigrations[5] = 10 /\ Upgrading!auditMigrations[6] = 12 /\ Upgrading!auditMigrations[7] = 13
    /\ Upgrading!Versions = {1, 6, 8, 9, 10, 12, 13}
<1>1. /\ DOMAIN Upgrading!auditMigrations = 1..7 /\ Len(Upgrading!auditMigrations) = 7
      /\ Upgrading!auditMigrations[1] = 1 /\ Upgrading!auditMigrations[2] = 6 /\ Upgrading!auditMigrations[3] = 8 /\ Upgrading!auditMigrations[4] = 9
      /\ Upgrading!auditMigrations[5] = 10 /\ Upgrading!auditMigrations[6] = 12 /\ Upgrading!auditMigrations[7] = 13
  BY DEF Upgrading!auditMigrations
<1>2. 1..7 = {1, 2, 3, 4, 5, 6, 7}
  OBVIOUS
<1>3. Upgrading!Versions = {1, 6, 8, 9, 10, 12, 13}
  BY <1>1, <1>2 DEF Upgrading!Versions
<1> QED BY <1>1, <1>3

LEMMA InOrder ==
    \A i, j \in 1..7 : i < j => Upgrading!auditMigrations[i] < Upgrading!auditMigrations[j]
BY ListFacts

LEMMA OldestFacts ==
    ASSUME NEW i \in 1..7
    PROVE  /\ Upgrading!Oldest(i) = Upgrading!Oldest(i - 1) \cup {Upgrading!auditMigrations[i]}
           /\ Upgrading!Oldest(7) = Upgrading!Versions /\ Upgrading!Oldest(0) = {}
           /\ Upgrading!auditMigrations[i] \in Upgrading!Versions
<1>1. 1..i = 1..(i - 1) \cup {i} /\ 1..0 = {}
  OBVIOUS
<1> QED BY <1>1, ListFacts DEF Upgrading!Oldest, Upgrading!Versions

(* A process that has all before its own recorded, and its own not, knows  *)
(* what is recorded.                                                       *)
LEMMA OwnIsNext ==
    ASSUME NEW i \in 1..7, NEW n \in 0..7, Upgrading!Oldest(i - 1) \subseteq Upgrading!Oldest(n),
           Upgrading!auditMigrations[i] \notin Upgrading!Oldest(n)
    PROVE  n = i - 1
<1>1. ~(i <= n)
  BY DEF Upgrading!Oldest
<1>2. CASE n < i - 1
  <2>1. i - 1 \in 1..7 /\ Upgrading!auditMigrations[i - 1] \in Upgrading!Oldest(i - 1)
    BY <1>2 DEF Upgrading!Oldest
  <2>2. PICK j \in 1..n : Upgrading!auditMigrations[j] = Upgrading!auditMigrations[i - 1]
    BY <2>1 DEF Upgrading!Oldest
  <2>3. j \in 1..7 /\ j < i - 1
    BY <1>2
  <2>4. Upgrading!auditMigrations[j] < Upgrading!auditMigrations[i - 1] /\ Upgrading!auditMigrations[j] \in Int
    BY <2>1, <2>3, InOrder, ListFacts
  <2> QED BY <2>2, <2>4
<1> QED BY <1>1, <1>2

(* What a migration does to the file.                                      *)
LEMMA ApplyFacts ==
    ASSUME Upgrading!MigrationsAssumption, NEW d \in Upgrading!Stored, NEW v \in Upgrading!Versions,
           v = 6 => d.retention = None,
           v = 13 => d.retention # None
    PROVE  /\ Upgrading!Apply(v, d) \in Upgrading!Stored
           /\ Upgrading!Apply(v, d).applied = d.applied /\ Upgrading!Apply(v, d).objects = d.objects \cup Upgrading!Done(v)
           /\ Upgrading!Apply(v, d).rows = d.rows /\ Upgrading!Apply(v, d).totals = IF v = 9 THEN d.rows ELSE d.totals
           /\ v \in {6, 13} => Upgrading!Apply(v, d).retention # None
           /\ v \notin {6, 13} => Upgrading!Apply(v, d).retention = d.retention
<1>1. v \in {1, 6, 8, 9, 10, 12, 13} /\ Upgrading!Done(v) \subseteq Upgrading!Objects
  BY ListFacts DEF Upgrading!Objects
<1>2. DefaultRetention \in Nat /\ DefaultRetention # 0 /\ None \notin Nat
  BY DEF Upgrading!MigrationsAssumption
<1>3. /\ d = [applied |-> d.applied, objects |-> d.objects, rows |-> d.rows, totals |-> d.totals,
              retention |-> d.retention]
      /\ d.applied \in SUBSET Upgrading!Versions /\ d.objects \in SUBSET Upgrading!Objects /\ d.rows \in Nat /\ d.totals \in Nat
      /\ d.retention \in {None, 0, DefaultRetention}
  BY DEF Upgrading!Stored
<1>5. CASE v \in {1, 8, 10, 12}
  <2>1. Upgrading!Apply(v, d) = [d EXCEPT !.objects = d.objects \cup Upgrading!Done(v)]
    <3>1. CASE v = 1
      BY <3>1 DEF Upgrading!Done, Upgrading!Apply, Upgrading!With
    <3>2. CASE v = 8
      BY <3>2 DEF Upgrading!Done, Upgrading!Apply, Upgrading!With
    <3>3. CASE v = 10
      BY <3>3 DEF Upgrading!Done, Upgrading!Apply, Upgrading!With
    <3>4. CASE v = 12
      BY <3>4 DEF Upgrading!Done, Upgrading!Apply, Upgrading!With
    <3> QED BY <1>5, <3>1, <3>2, <3>3, <3>4
  <2> QED BY <1>1, <1>3, <1>5, <2>1 DEF Upgrading!Stored
<1>6. CASE v = 6
  <2>1. /\ Upgrading!Done(v) = {"audit_settings"}
        /\ Upgrading!Apply(v, d) = [Upgrading!With(d, "audit_settings") EXCEPT !.retention = DefaultRetention]
    BY <1>6 DEF Upgrading!Done, Upgrading!Apply, Upgrading!CreateSettings
  <2>2. Upgrading!Apply(v, d) = [applied |-> d.applied, objects |-> d.objects \cup {"audit_settings"},
                       rows |-> d.rows, totals |-> d.totals, retention |-> DefaultRetention]
    BY <1>3, <2>1 DEF Upgrading!With
  <2> QED BY <1>1, <1>2, <1>3, <1>6, <2>1, <2>2 DEF Upgrading!Stored
<1>7. CASE v = 9
  <2>1. /\ Upgrading!Done(v) = {"audit_action_totals"}
        /\ Upgrading!Apply(v, d) = [Upgrading!With(d, "audit_action_totals") EXCEPT !.totals = d.rows]
    BY <1>7 DEF Upgrading!Done, Upgrading!Apply, Upgrading!CreateActionTotals
  <2>2. Upgrading!Apply(v, d) = [applied |-> d.applied, objects |-> d.objects \cup {"audit_action_totals"},
                       rows |-> d.rows, totals |-> d.rows, retention |-> d.retention]
    BY <1>3, <2>1 DEF Upgrading!With
  <2> QED BY <1>1, <1>2, <1>3, <1>7, <2>1, <2>2 DEF Upgrading!Stored
<1>8. CASE v = 13
  <2>1. /\ Upgrading!Done(v) = {}
        /\ Upgrading!Apply(v, d) = IF d.retention = 0 THEN [d EXCEPT !.retention = DefaultRetention] ELSE d
    BY <1>8 DEF Upgrading!Done, Upgrading!Apply, Upgrading!BoundRetention
  <2> QED BY <1>1, <1>2, <1>3, <1>8, <2>1 DEF Upgrading!Stored
<1> QED BY <1>1, <1>5, <1>6, <1>7, <1>8

(* What is recorded of a file, and what follows from it for the migration  *)
(* of a process that has found its own not recorded.                       *)
LEMMA NextIsPossible ==
    ASSUME UpgradeInv, NEW p \in Processes,
           place[p] \in {"write", "commit"}, Upgrading!At(p) \notin db.applied
    PROVE  /\ Upgrading!At(p) \in Upgrading!Versions /\ ~Upgrading!Fails(Upgrading!At(p), db)
           /\ db.applied = Upgrading!Oldest(at[p] - 1)
           /\ Upgrading!At(p) = 6 => db.retention = None
           /\ Upgrading!At(p) = 13 => db.retention # None
           /\ Upgrading!At(p) \in {1, 6, 8, 9} => 9 \notin db.applied
           /\ Upgrading!At(p) \notin {1, 6, 8, 9} => 9 \in db.applied
<1>1. /\ at[p] \in 1..7 /\ Upgrading!At(p) = Upgrading!auditMigrations[at[p]] /\ Upgrading!Oldest(at[p] - 1) \subseteq db.applied
      /\ db.objects = UNION {Upgrading!Done(v) : v \in db.applied} /\ (6 \in db.applied <=> db.retention # None)
  BY ListFacts DEF UpgradeInv, Upgrading!TypeOK, FileInv, ProcessInv, Upgrading!RecordedIsDone, Upgrading!At
<1>2. PICK n \in 0..7 : db.applied = Upgrading!Oldest(n)
  BY ListFacts DEF UpgradeInv, FileInv, Upgrading!RecordedIsDone
<1>3. n = at[p] - 1
  BY <1>1, <1>2, OwnIsNext
<1>4. db.applied = Upgrading!Oldest(at[p] - 1)
  BY <1>2, <1>3
<1>5. /\ Upgrading!Oldest(0) = {} /\ Upgrading!Oldest(1) = {1} /\ Upgrading!Oldest(2) = {1, 6} /\ Upgrading!Oldest(3) = {1, 6, 8}
      /\ Upgrading!Oldest(4) = {1, 6, 8, 9} /\ Upgrading!Oldest(5) = {1, 6, 8, 9, 10} /\ Upgrading!Oldest(6) = {1, 6, 8, 9, 10, 12}
  BY OldestFacts, ListFacts
<1>6. Upgrading!At(p) \in Upgrading!Versions
  BY <1>1, OldestFacts
<1>7. Upgrading!Done(1) = {"audit_events"} /\ Upgrading!Done(6) = {"audit_settings"} /\ Upgrading!Done(10) = {"upstream_columns"}
  BY DEF Upgrading!Done
<1>8. ASSUME Upgrading!At(p) \in {8, 9, 10} PROVE 1 \in db.applied /\ (Upgrading!At(p) = 10 => db.applied = {1, 6, 8, 9})
  BY <1>1, <1>4, <1>5, <1>8, ListFacts
<1>9. ASSUME Upgrading!At(p) = 12 PROVE 1 \in db.applied /\ 10 \in db.applied
  <2>1. at[p] = 6
    <3>1. \/ at[p] = 1 \/ at[p] = 2 \/ at[p] = 3 \/ at[p] = 4 \/ at[p] = 5 \/ at[p] = 6 \/ at[p] = 7
      BY <1>1
    <3>2. Upgrading!auditMigrations[at[p]] = 12
      BY <1>1, <1>9
    <3> QED BY <3>1, <3>2, ListFacts
  <2> QED BY <1>4, <1>5, <2>1
<1>10. ASSUME Upgrading!At(p) = 13 PROVE 6 \in db.applied
  <2>1. at[p] = 7
    <3>1. \/ at[p] = 1 \/ at[p] = 2 \/ at[p] = 3 \/ at[p] = 4 \/ at[p] = 5 \/ at[p] = 6 \/ at[p] = 7
      BY <1>1
    <3>2. Upgrading!auditMigrations[at[p]] = 13
      BY <1>1, <1>10
    <3> QED BY <3>1, <3>2, ListFacts
  <2> QED BY <1>4, <1>5, <2>1
<1>11. ~Upgrading!Fails(Upgrading!At(p), db)
  <2>1. Upgrading!Needs(Upgrading!At(p)) \subseteq db.objects
    <3>1. CASE Upgrading!At(p) \in {8, 9, 10}
      BY <1>1, <1>7, <1>8, <3>1 DEF Upgrading!Needs
    <3>2. CASE Upgrading!At(p) = 12
      <4>1. Upgrading!Done(1) \subseteq db.objects /\ Upgrading!Done(10) \subseteq db.objects
        BY <1>1, <1>9, <3>2
      <4>2. Upgrading!Needs(Upgrading!At(p)) = {"audit_events", "upstream_columns"}
        BY <3>2 DEF Upgrading!Needs
      <4> QED BY <1>7, <4>1, <4>2
    <3>3. CASE Upgrading!At(p) = 13
      BY <1>1, <1>7, <1>10, <3>3 DEF Upgrading!Needs
    <3>4. CASE Upgrading!At(p) \in {1, 6}
      BY <3>4 DEF Upgrading!Needs
    <3> QED BY <1>6, ListFacts, <3>1, <3>2, <3>3, <3>4
  <2>2. Upgrading!At(p) = 10 => "upstream_columns" \notin db.objects
    <3>1. ASSUME Upgrading!At(p) = 10 PROVE \A v \in db.applied : "upstream_columns" \notin Upgrading!Done(v)
      BY <1>8, <3>1 DEF Upgrading!Done
    <3> QED BY <1>1, <3>1
  <2> QED BY <2>1, <2>2 DEF Upgrading!Fails
<1>12. /\ Upgrading!At(p) \in {1, 6, 8, 9} => 9 \notin db.applied
       /\ Upgrading!At(p) \notin {1, 6, 8, 9} => 9 \in db.applied
       /\ Upgrading!At(p) = 6 => 6 \notin db.applied
  BY <1>1, <1>4, <1>5, ListFacts
<1> QED BY <1>1, <1>4, <1>6, <1>10, <1>11, <1>12

LEMMA UpgradeInit == ASSUME Upgrading!MigrationsAssumption, Upgrading!Init PROVE UpgradeInv
<1>1. PICK n \in 0..7 : \E r \in 0..MaxOld : \E e \in 0..MaxOld : \E x \in {0, DefaultRetention} :
        db = [applied |-> Upgrading!Oldest(n), objects |-> UNION {Upgrading!Done(v) : v \in Upgrading!Oldest(n)},
              rows |-> r, totals |-> IF 9 \in Upgrading!Oldest(n) THEN e ELSE 0,
              retention |-> IF 6 \in Upgrading!Oldest(n) THEN x ELSE None]
  BY ListFacts DEF Upgrading!Init, Upgrading!Files
<1>2. PICK r \in 0..MaxOld : \E e \in 0..MaxOld : \E x \in {0, DefaultRetention} :
        db = [applied |-> Upgrading!Oldest(n), objects |-> UNION {Upgrading!Done(v) : v \in Upgrading!Oldest(n)},
              rows |-> r, totals |-> IF 9 \in Upgrading!Oldest(n) THEN e ELSE 0,
              retention |-> IF 6 \in Upgrading!Oldest(n) THEN x ELSE None]
  BY <1>1
<1>3. /\ db.applied = Upgrading!Oldest(n) /\ db.objects = UNION {Upgrading!Done(v) : v \in Upgrading!Oldest(n)}
      /\ db.rows \in Nat /\ db.totals \in Nat /\ db.retention \in {None, 0, DefaultRetention}
      /\ 6 \in db.applied <=> db.retention # None
  BY <1>2 DEF Upgrading!MigrationsAssumption
<1>4. Upgrading!Oldest(n) \subseteq Upgrading!Versions
  BY ListFacts DEF Upgrading!Oldest, Upgrading!Versions
<1>5. db \in Upgrading!Stored
  <2>1. db.objects \subseteq Upgrading!Objects
    BY <1>3, <1>4 DEF Upgrading!Objects
  <2> QED BY <1>2, <1>3, <1>4, <2>1 DEF Upgrading!Stored
<1>6. Upgrading!TypeOK
  BY <1>3, <1>5, ListFacts DEF Upgrading!Init, Upgrading!TypeOK
<1>7. FileInv
  BY <1>3, ListFacts DEF Upgrading!Init, FileInv, Upgrading!RecordedIsDone, Upgrading!TotalsSurvive, Upgrading!ChosenRetentionStands
<1>8. ASSUME NEW p \in Processes PROVE ProcessInv(p)
  BY <1>8 DEF Upgrading!Init, ProcessInv, Upgrading!MigrationsAssumption
<1> QED BY <1>6, <1>7, <1>8 DEF UpgradeInv

(* Who does nothing: the file may have been written by another, which it   *)
(* will find out, and never while it holds the lock.                       *)
LEMMA OthersKeepUpgrade ==
    ASSUME UpgradeInv, NEW q \in Processes,
           place'[q] = place[q], at'[q] = at[q], work'[q] = work[q],
           db.applied \subseteq db'.applied, db'.applied \subseteq Upgrading!Versions,
           writer' = q <=> writer = q,
           \/ db' = db /\ stale'[q] = stale[q]
           \/ stale'[q] /\ writer # q
    PROVE  ProcessInv(q)'
<1>1. ProcessInv(q) /\ (place[q] = "commit" <=> writer = q)
  BY DEF UpgradeInv, ProcessInv
<1>2. CASE db' = db /\ stale'[q] = stale[q]
  BY <1>1, <1>2 DEF ProcessInv, Upgrading!At
<1>3. CASE stale'[q] /\ writer # q
  BY <1>1, <1>3 DEF ProcessInv, Upgrading!At
<1> QED BY <1>2, <1>3

(* A step of one process that leaves the file alone.                       *)
LEMMA ProcessKeeps ==
    ASSUME UpgradeInv, NEW p \in Processes, Upgrading!TypeOK', UNCHANGED <<db, events, chosen>>,
           ProcessInv(p)',
           \A q \in Processes \ {p} :
              /\ place'[q] = place[q] /\ at'[q] = at[q] /\ work'[q] = work[q] /\ stale'[q] = stale[q]
              /\ writer' = q <=> writer = q
    PROVE  UpgradeInv'
<1>1. FileInv'
  BY DEF UpgradeInv, FileInv, Upgrading!RecordedIsDone, Upgrading!TotalsSurvive, Upgrading!ChosenRetentionStands
<1>2. db.applied \subseteq Upgrading!Versions
  BY DEF UpgradeInv, Upgrading!TypeOK, Upgrading!Stored
<1>3. ASSUME NEW q \in Processes \ {p} PROVE ProcessInv(q)'
  BY <1>2, OthersKeepUpgrade
<1> QED BY <1>1, <1>3 DEF UpgradeInv

(* A write of a process that runs, with everything recorded.               *)
LEMMA RunningKeeps ==
    ASSUME Upgrading!MigrationsAssumption, UpgradeInv, NEW p \in Processes, Upgrading!Insert(p) \/ Upgrading!Cleanup(p) \/ Upgrading!Choose(p)
    PROVE  UpgradeInv'
<1>1. /\ place[p] = "running" /\ writer = None /\ UNCHANGED <<writer, place, at, work, crashes>>
      /\ stale' = [q \in Processes |-> TRUE] /\ None \notin Processes
  BY DEF Upgrading!Insert, Upgrading!Cleanup, Upgrading!Choose, Upgrading!Write, Upgrading!Unlocked, Upgrading!MigrationsAssumption
<1>2. db.applied = Upgrading!Versions /\ db \in Upgrading!Stored /\ events \in Nat
  BY <1>1 DEF UpgradeInv, ProcessInv, Upgrading!TypeOK
<1>3. CASE Upgrading!Insert(p)
  <2>1. /\ db' = [db EXCEPT !.rows = db.rows + 1, !.totals = db.totals + 1]
        /\ events' = events + 1 /\ UNCHANGED chosen
    BY <1>3 DEF Upgrading!Insert, Upgrading!Write
  <2>2. /\ db = [applied |-> db.applied, objects |-> db.objects, rows |-> db.rows,
                 totals |-> db.totals, retention |-> db.retention]
        /\ db.applied \in SUBSET Upgrading!Versions /\ db.objects \in SUBSET Upgrading!Objects /\ db.rows + 1 \in Nat
        /\ db.totals + 1 \in Nat /\ db.retention \in {None, 0, DefaultRetention}
    BY <1>2 DEF Upgrading!Stored
  <2>3. db' = [applied |-> db.applied, objects |-> db.objects, rows |-> db.rows + 1,
               totals |-> db.totals + 1, retention |-> db.retention]
    BY <2>1, <2>2
  <2>4. db' \in Upgrading!Stored
    BY <2>2, <2>3 DEF Upgrading!Stored
  <2>5. /\ db'.applied = db.applied /\ db'.objects = db.objects /\ db'.retention = db.retention
        /\ db'.totals = db.totals + 1
    BY <2>3
  <2>6. Upgrading!TypeOK'
    BY <1>1, <1>2, <2>1, <2>4 DEF UpgradeInv, Upgrading!TypeOK
  <2>7. FileInv'
    BY <1>2, <2>1, <2>5, ListFacts
       DEF UpgradeInv, FileInv, Upgrading!RecordedIsDone, Upgrading!TotalsSurvive, Upgrading!ChosenRetentionStands
  <2> QED BY <1>1, <1>2, <2>5, <2>6, <2>7, OthersKeepUpgrade DEF UpgradeInv
<1>4. CASE Upgrading!Cleanup(p)
  <2>1. db' = [db EXCEPT !.rows = db.rows - 1] /\ db.rows > 0 /\ UNCHANGED <<events, chosen>>
    BY <1>4 DEF Upgrading!Cleanup, Upgrading!Write
  <2>2. db' \in Upgrading!Stored /\ db' = [applied |-> db.applied, objects |-> db.objects, rows |-> db.rows - 1,
                                totals |-> db.totals, retention |-> db.retention]
    BY <1>2, <2>1 DEF Upgrading!Stored
  <2>3. /\ db'.applied = db.applied /\ db'.objects = db.objects /\ db'.retention = db.retention
        /\ db'.totals = db.totals
    BY <2>2
  <2>4. FileInv' /\ Upgrading!TypeOK'
    BY <1>1, <1>2, <2>1, <2>2, <2>3, ListFacts
       DEF UpgradeInv, Upgrading!TypeOK, FileInv, Upgrading!RecordedIsDone, Upgrading!TotalsSurvive, Upgrading!ChosenRetentionStands
  <2> QED BY <1>1, <1>2, <2>3, <2>4, OthersKeepUpgrade DEF UpgradeInv
<1>5. CASE Upgrading!Choose(p)
  <2>1. PICK x \in {0, DefaultRetention} : db' = [db EXCEPT !.retention = x] /\ chosen' = x /\ UNCHANGED events
    BY <1>5 DEF Upgrading!Choose, Upgrading!Write
  <2>2. db' \in Upgrading!Stored /\ db' = [applied |-> db.applied, objects |-> db.objects, rows |-> db.rows,
                                totals |-> db.totals, retention |-> x]
    BY <1>2, <2>1 DEF Upgrading!Stored
  <2>3. /\ db'.applied = db.applied /\ db'.objects = db.objects /\ db'.retention = x
        /\ db'.totals = db.totals
    BY <2>2
  <2>4. x # None
    BY DEF Upgrading!MigrationsAssumption
  <2>5. FileInv' /\ Upgrading!TypeOK'
    BY <1>1, <1>2, <2>1, <2>2, <2>3, <2>4, ListFacts
       DEF UpgradeInv, Upgrading!TypeOK, FileInv, Upgrading!RecordedIsDone, Upgrading!TotalsSurvive, Upgrading!ChosenRetentionStands
  <2> QED BY <1>1, <1>2, <2>3, <2>5, OthersKeepUpgrade DEF UpgradeInv
<1> QED BY <1>3, <1>4, <1>5

LEMMA OnwardsKnows ==
    ASSUME UpgradeInv, NEW p \in Processes, Upgrading!Onwards(p), Upgrading!Oldest(at[p] - 1) \subseteq db'.applied,
           Upgrading!At(p) \in db'.applied, db'.applied \subseteq Upgrading!Versions, writer' # p
    PROVE  /\ ProcessInv(p)' /\ at' \in [Processes -> DOMAIN Upgrading!auditMigrations]
           /\ place' \in [Processes -> {"off", "check", "write", "commit", "running", "failed"}]
           /\ \A q \in Processes \ {p} : place'[q] = place[q] /\ at'[q] = at[q]
<1>1. at[p] \in 1..7 /\ at \in [Processes -> 1..7] /\ DOMAIN Upgrading!auditMigrations = 1..7 /\ Len(Upgrading!auditMigrations) = 7
  BY ListFacts DEF UpgradeInv, Upgrading!TypeOK
<1>2. Upgrading!Oldest(at[p]) = Upgrading!Oldest(at[p] - 1) \cup {Upgrading!At(p)} /\ Upgrading!Oldest(7) = Upgrading!Versions
  BY <1>1, OldestFacts DEF Upgrading!At
<1>3. CASE at[p] = 7
  <2>1. place' = [place EXCEPT ![p] = "running"] /\ at' = [at EXCEPT ![p] = 7] /\ db'.applied = Upgrading!Versions
    BY <1>1, <1>2, <1>3 DEF Upgrading!Onwards
  <2> QED BY <1>1, <2>1 DEF ProcessInv, UpgradeInv, Upgrading!TypeOK
<1>4. CASE at[p] # 7
  <2>1. place' = [place EXCEPT ![p] = "check"] /\ at' = [at EXCEPT ![p] = at[p] + 1] /\ at[p] + 1 \in 1..7
    BY <1>1, <1>4 DEF Upgrading!Onwards
  <2>2. at'[p] = at[p] + 1 /\ place'[p] = "check" /\ (at'[p] - 1) = at[p]
    BY <1>1, <2>1 DEF UpgradeInv, Upgrading!TypeOK
  <2>3. Upgrading!Oldest(at[p]) \subseteq db'.applied
    BY <1>2
  <2>4. Upgrading!Oldest(at'[p] - 1) \subseteq db'.applied
    BY <2>2, <2>3
  <2>5. ProcessInv(p)'
    BY <2>2, <2>4 DEF ProcessInv
  <2> QED BY <1>1, <2>1, <2>5 DEF UpgradeInv, Upgrading!TypeOK
<1> QED BY <1>3, <1>4

LEMMA CheckKeeps ==
    ASSUME Upgrading!MigrationsAssumption, UpgradeInv, NEW p \in Processes, Upgrading!checkMigration(p) PROVE UpgradeInv'
<1>1. /\ place[p] = "check" /\ stale' = [stale EXCEPT ![p] = FALSE]
      /\ UNCHANGED <<db, writer, work, crashes, events, chosen>>
      /\ Upgrading!Oldest(at[p] - 1) \subseteq db.applied /\ writer # p /\ db.applied \subseteq Upgrading!Versions
      /\ DOMAIN place = Processes /\ DOMAIN stale = Processes
  BY DEF Upgrading!checkMigration, UpgradeInv, ProcessInv, Upgrading!TypeOK, Upgrading!Stored
<1>2. stale' \in [Processes -> BOOLEAN]
  BY <1>1 DEF UpgradeInv, Upgrading!TypeOK
<1>3. CASE Upgrading!At(p) \in db.applied
  <2>1. Upgrading!Onwards(p)
    BY <1>3 DEF Upgrading!checkMigration
  <2>2. /\ ProcessInv(p)' /\ at' \in [Processes -> DOMAIN Upgrading!auditMigrations]
        /\ place' \in [Processes -> {"off", "check", "write", "commit", "running", "failed"}]
        /\ \A q \in Processes \ {p} : place'[q] = place[q] /\ at'[q] = at[q]
    BY <1>1, <1>3, <2>1, OnwardsKnows
  <2>3. Upgrading!TypeOK'
    BY <1>1, <1>2, <2>2 DEF UpgradeInv, Upgrading!TypeOK
  <2> QED BY <1>1, <2>2, <2>3, ProcessKeeps
<1>4. CASE Upgrading!At(p) \notin db.applied
  <2>1. place' = [place EXCEPT ![p] = "write"] /\ UNCHANGED at
    BY <1>4 DEF Upgrading!checkMigration
  <2>2. Upgrading!TypeOK'
    BY <1>1, <1>2, <2>1 DEF UpgradeInv, Upgrading!TypeOK
  <2>3. ProcessInv(p)'
    BY <1>1, <1>4, <2>1 DEF ProcessInv, Upgrading!At
  <2> QED BY <1>1, <2>1, <2>2, <2>3, ProcessKeeps
<1> QED BY <1>3, <1>4

LEMMA WriteKeeps ==
    ASSUME Upgrading!MigrationsAssumption, UpgradeInv, NEW p \in Processes, Upgrading!writeMigration(p) PROVE UpgradeInv'
<1>1. /\ place[p] = "write" /\ UNCHANGED <<db, at, stale, crashes, events, chosen>> /\ writer # p
      /\ db \in Upgrading!Stored /\ None \notin Processes /\ Upgrading!Oldest(at[p] - 1) \subseteq db.applied
      /\ DOMAIN place = Processes /\ DOMAIN work = Processes
  BY DEF Upgrading!writeMigration, Upgrading!Fail, UpgradeInv, ProcessInv, Upgrading!TypeOK, Upgrading!MigrationsAssumption
<1>2. CASE /\ writer = None /\ ~stale[p]
           /\ writer' = p /\ work' = [work EXCEPT ![p] = Upgrading!Apply(Upgrading!At(p), db)] /\ place' = [place EXCEPT ![p] = "commit"]
  <2>1. Upgrading!At(p) \notin db.applied
    BY <1>1, <1>2 DEF UpgradeInv, ProcessInv
  <2>2. Upgrading!Apply(Upgrading!At(p), db) \in Upgrading!Stored
    BY <1>1, <2>1, NextIsPossible, ApplyFacts
  <2>3. Upgrading!TypeOK'
    BY <1>1, <1>2, <2>2 DEF UpgradeInv, Upgrading!TypeOK
  <2>4. ProcessInv(p)'
    BY <1>1, <1>2, <2>1 DEF ProcessInv, Upgrading!At
  <2> QED BY <1>1, <1>2, <2>3, <2>4, ProcessKeeps
<1>3. CASE Upgrading!Fail(p) /\ UNCHANGED writer
  <2>1. Upgrading!TypeOK'
    BY <1>1, <1>3 DEF Upgrading!Fail, UpgradeInv, Upgrading!TypeOK
  <2>2. ProcessInv(p)'
    BY <1>1, <1>3 DEF Upgrading!Fail, ProcessInv
  <2> QED BY <1>1, <1>3, <2>1, <2>2, ProcessKeeps DEF Upgrading!Fail
<1> QED BY <1>2, <1>3 DEF Upgrading!writeMigration

LEMMA CommitKeeps ==
    ASSUME Upgrading!MigrationsAssumption, UpgradeInv, NEW p \in Processes, Upgrading!commitMigration(p) PROVE UpgradeInv'
<1> DEFINE v == Upgrading!At(p)
<1>1. /\ place[p] = "commit" /\ writer = p /\ writer' = None /\ Upgrading!Onwards(p) /\ None \notin Processes
      /\ db' = [work[p] EXCEPT !.applied = work[p].applied \cup {v}]
      /\ stale' = [q \in Processes |-> TRUE] /\ work' = [work EXCEPT ![p] = None]
      /\ UNCHANGED <<crashes, events, chosen>>
  BY DEF Upgrading!commitMigration, Upgrading!Write, UpgradeInv, ProcessInv, Upgrading!MigrationsAssumption
<1>2. v \notin db.applied /\ work[p] = Upgrading!Apply(v, db) /\ Upgrading!Oldest(at[p] - 1) \subseteq db.applied /\ db \in Upgrading!Stored
  BY <1>1 DEF UpgradeInv, ProcessInv, Upgrading!TypeOK
<1>3. /\ v \in Upgrading!Versions /\ db.applied = Upgrading!Oldest(at[p] - 1)
      /\ v = 6 => db.retention = None
      /\ v = 13 => db.retention # None
      /\ v \in {1, 6, 8, 9} => 9 \notin db.applied
      /\ v \notin {1, 6, 8, 9} => 9 \in db.applied
  BY <1>1, <1>2, NextIsPossible
<1> HIDE DEF v
<1>4. /\ work[p] \in Upgrading!Stored /\ work[p].applied = db.applied /\ work[p].objects = db.objects \cup Upgrading!Done(v)
      /\ work[p].rows = db.rows /\ work[p].totals = IF v = 9 THEN db.rows ELSE db.totals
      /\ v \in {6, 13} => work[p].retention # None
      /\ v \notin {6, 13} => work[p].retention = db.retention
  BY <1>2, <1>3, ApplyFacts
<1>5. /\ db' \in Upgrading!Stored /\ db'.applied = db.applied \cup {v} /\ db'.objects = db.objects \cup Upgrading!Done(v)
      /\ db'.rows = db.rows /\ db'.totals = IF v = 9 THEN db.rows ELSE db.totals
      /\ db'.retention = work[p].retention
  BY <1>1, <1>3, <1>4 DEF Upgrading!Stored
<1>6. db.applied \cup {v} \subseteq Upgrading!Versions
  BY <1>2, <1>3 DEF Upgrading!Stored
<1>7. /\ ProcessInv(p)' /\ at' \in [Processes -> DOMAIN Upgrading!auditMigrations]
      /\ place' \in [Processes -> {"off", "check", "write", "commit", "running", "failed"}]
      /\ \A q \in Processes \ {p} : place'[q] = place[q] /\ at'[q] = at[q]
  BY <1>1, <1>2, <1>5, <1>6, OnwardsKnows DEF v
<1>8. Upgrading!TypeOK'
  BY <1>1, <1>5, <1>7 DEF UpgradeInv, Upgrading!TypeOK
<1>9. /\ 6 \in db'.applied <=> db'.retention # None
      /\ 9 \in db'.applied => db'.totals = events
      /\ 9 \notin db'.applied => db'.rows = events
      /\ chosen = None
  <2>1. /\ 6 \in db.applied <=> db.retention # None
        /\ 9 \in db.applied => db.totals = events
        /\ 9 \notin db.applied => db.rows = events
        /\ chosen # None => db.applied = Upgrading!Versions
    BY DEF UpgradeInv, FileInv, Upgrading!RecordedIsDone, Upgrading!TotalsSurvive
  <2>2. chosen = None
    BY <1>2, <1>3, <2>1
  <2>3. v = 13 => 6 \in db.applied
    BY <1>3, <2>1
  <2>4. 6 \in db'.applied <=> db'.retention # None
    BY <1>3, <1>4, <1>5, <2>1, <2>3
  <2>5. /\ 9 \in db'.applied => db'.totals = events
        /\ 9 \notin db'.applied => db'.rows = events
    BY <1>3, <1>5, <2>1
  <2> QED BY <2>2, <2>4, <2>5
<1>10. db'.objects = UNION {Upgrading!Done(u) : u \in db'.applied}
  BY <1>5 DEF UpgradeInv, FileInv, Upgrading!RecordedIsDone
<1>11. \E n \in 0..Len(Upgrading!auditMigrations) : db'.applied = Upgrading!Oldest(n)
  <2>1. at[p] \in 1..7 /\ v = Upgrading!auditMigrations[at[p]]
    BY ListFacts DEF UpgradeInv, Upgrading!TypeOK, Upgrading!At, v
  <2>2. db'.applied = Upgrading!Oldest(at[p])
    BY <1>3, <1>5, <2>1, OldestFacts
  <2> QED BY <2>1, <2>2, ListFacts
<1>12. FileInv'
  BY <1>1, <1>9, <1>10, <1>11 DEF FileInv, Upgrading!RecordedIsDone, Upgrading!TotalsSurvive, Upgrading!ChosenRetentionStands
<1>13. ASSUME NEW q \in Processes \ {p} PROVE ProcessInv(q)'
  <2>1. place'[q] = place[q] /\ at'[q] = at[q] /\ work'[q] = work[q] /\ stale'[q] /\ writer # q /\ writer' # q
    BY <1>1, <1>7 DEF UpgradeInv, Upgrading!TypeOK
  <2> QED BY <1>5, <1>6, <2>1, OthersKeepUpgrade
<1> QED BY <1>7, <1>8, <1>12, <1>13 DEF UpgradeInv

LEMMA StartOrCrashKeeps ==
    ASSUME Upgrading!MigrationsAssumption, UpgradeInv, NEW p \in Processes, Upgrading!Start(p) \/ Upgrading!Crash(p) PROVE UpgradeInv'
<1>1. Upgrading!Oldest(1 - 1) = {} /\ 1 \in DOMAIN Upgrading!auditMigrations /\ None \notin Processes
  BY ListFacts, OldestFacts DEF Upgrading!MigrationsAssumption
<1>2. CASE Upgrading!Start(p)
  <2>1. Upgrading!TypeOK'
    BY <1>1, <1>2 DEF Upgrading!Start, UpgradeInv, Upgrading!TypeOK
  <2>2. place[p] = "off" /\ place'[p] = "check" /\ at'[p] = 1 /\ db' = db /\ writer' # p
    BY <1>2 DEF Upgrading!Start, UpgradeInv, ProcessInv, Upgrading!TypeOK
  <2>3. ProcessInv(p)'
    BY <1>1, <2>2 DEF ProcessInv
  <2> QED BY <1>2, <2>1, <2>3, ProcessKeeps DEF Upgrading!Start, UpgradeInv, Upgrading!TypeOK
<1>3. CASE Upgrading!Crash(p)
  <2>1. Upgrading!TypeOK'
    BY <1>3 DEF Upgrading!Crash, UpgradeInv, Upgrading!TypeOK
  <2>2. ProcessInv(p)'
    BY <1>1, <1>3 DEF Upgrading!Crash, UpgradeInv, Upgrading!TypeOK, ProcessInv
  <2> QED BY <1>1, <1>3, <2>1, <2>2, ProcessKeeps DEF Upgrading!Crash, UpgradeInv, Upgrading!TypeOK
<1> QED BY <1>2, <1>3

LEMMA UpgradeStep ==
    ASSUME Upgrading!MigrationsAssumption, UpgradeInv, [Upgrading!Next]_(Upgrading!vars) PROVE UpgradeInv'
<1>1. CASE UNCHANGED Upgrading!vars
  <2>1. Upgrading!TypeOK' /\ FileInv'
    BY <1>1 DEF Upgrading!vars, UpgradeInv, Upgrading!TypeOK, FileInv, Upgrading!RecordedIsDone, Upgrading!TotalsSurvive,
                Upgrading!ChosenRetentionStands
  <2>2. ASSUME NEW p \in Processes PROVE ProcessInv(p)'
    BY <1>1 DEF Upgrading!vars, UpgradeInv, ProcessInv, Upgrading!At
  <2> QED BY <2>1, <2>2 DEF UpgradeInv
<1> QED
  BY <1>1, CheckKeeps, WriteKeeps, CommitKeeps, StartOrCrashKeeps, RunningKeeps DEF Upgrading!Next, Upgrading!Migrate

(* What a reader of the file sees of it.                                   *)
LEMMA UpgradeGood == ASSUME UpgradeInv PROVE Upgrading!TypeOK /\ Upgrading!UpgradesKeepData
<1>1. ASSUME NEW p \in Processes, place[p] = "write", Upgrading!Fails(Upgrading!At(p), db), ~stale[p]
      PROVE  FALSE
  <2>1. Upgrading!At(p) \notin db.applied
    BY <1>1 DEF UpgradeInv, ProcessInv
  <2> QED BY <1>1, <2>1, NextIsPossible
<1>2. Upgrading!AloneNeverFails
  BY <1>1 DEF Upgrading!AloneNeverFails
<1> QED BY <1>2 DEF UpgradeInv, FileInv, Upgrading!UpgradesKeepData

-----------------------------------------------------------------------------
(* The configuration.                                                      *)

(* A list of entries, by its indices.                                      *)
Indexed(entries) == Configuring!IsFiniteSet(DOMAIN entries) /\ DOMAIN entries \subseteq Nat

(* A list of resolvers has all of their fields.                            *)
Fields == {"address", "protocol", "enabled"}
GoodList(entries) ==
    /\ Configuring!IsFunction(entries)
    /\ \A k \in DOMAIN entries : Configuring!IsFunction(entries[k]) /\ Fields \subseteq DOMAIN entries[k]
    /\ Indexed(entries)

(* A configuration has every key, and its nested parts all of theirs.      *)
Whole(cfg) ==
    /\ Configuring!IsFunction(cfg) /\ DOMAIN cfg = DOMAIN Configuring!Default
    /\ \A key \in Configuring!Nested : Configuring!IsFunction(cfg[key]) /\ DOMAIN cfg[key] = DOMAIN Configuring!Default[key]
    /\ GoodList(cfg.resolvers)
    /\ cfg.capacity \in Int

RowGood == Whole(Configuring!Saved) /\ Configuring!Validate(Configuring!Saved) /\ granted = {Configuring!Saved}

(* What has been tried was taken.                                          *)
TriedGood ==
    /\ "dns" \notin untried => Configuring!CoreDNSTakes(Configuring!Corefile(Configuring!Saved))
    /\ "admin" \notin untried => Configuring!Saved.admin \notin Unusable

Parts == {"dns", "cacheFlag", "response", "bundled", "lists", "admin", "connections", "level", "format"}

IsProcess(process) ==
    /\ Configuring!IsFunction(process) /\ DOMAIN process = Parts
    /\ process.cacheFlag = (process.dns.cache # <<>>)

Agrees(process, cfg) == \A what \in Parts \ {"bundled"} : process[what] = Configuring!Uses(cfg)[what]

ConfigurationInv ==
    /\ file \in ConfigFiles /\ reloadFaults \in Nat
    /\ granted = {} =>
          /\ row \in {{}} \cup {{old} : old \in OldRows}
          /\ untried = {"dns", "admin"} /\ running = Down
    /\ granted # {} => row # {} /\ RowGood /\ TriedGood
    /\ running # Down => IsProcess(running)
    /\ running # Down /\ reloadFaults = 0 /\ ~told => Agrees(running, Configuring!Saved)

-----------------------------------------------------------------------------
LEMMA DefaultKeys ==
    /\ Configuring!DNSKeys \cup {"admin", "connections", "lists", "level", "format", "response", "bundled"} = DOMAIN Configuring!Default
    /\ Configuring!Nested \subseteq Configuring!DNSKeys /\ {"resolvers", "cacheTTL", "success", "denial", "capacity"} \subseteq DOMAIN Configuring!Default
    /\ Configuring!Default.cacheTTL = 0
    /\ DOMAIN Configuring!Default.dnssec = {"enabled", "mode"}
    /\ DOMAIN Configuring!NoForwarding = DOMAIN Configuring!Default.conditional
BY DEF Configuring!Default, Configuring!Nested, Configuring!DNSKeys, Configuring!NoForwarding

(* The instance has operators of its own on finite sets.                   *)
LEMMA SameSets ==
    \A S : Configuring!IsFiniteSet(S) = IsFiniteSet(S) /\ Configuring!Cardinality(S) = Cardinality(S)
BY DEF Configuring!IsFiniteSet, IsFiniteSet, Configuring!Cardinality, Cardinality

LEMMA DefaultWhole == ASSUME Configuring!SettingsAssumption PROVE Whole(Configuring!Default)
<1>1. Configuring!IsFunction(Configuring!Default)
  BY DEF Configuring!IsFunction, Configuring!Default
<1>2. Configuring!IsFunction(Configuring!Default.dnssec) /\ Configuring!IsFunction(Configuring!Default.conditional)
  BY DEF Configuring!IsFunction, Configuring!Default, Configuring!NoForwarding
<1>3. Configuring!Default.resolvers = << [address |-> "1.1.1.1", protocol |-> "udp", enabled |-> TRUE] >>
  BY DEF Configuring!Default
<1>4. /\ Configuring!IsFunction(Configuring!Default.resolvers)
      /\ \A k \in DOMAIN Configuring!Default.resolvers :
            Configuring!IsFunction(Configuring!Default.resolvers[k]) /\ Fields \subseteq DOMAIN Configuring!Default.resolvers[k]
  <2>1. DOMAIN Configuring!Default.resolvers = {1} /\ Configuring!Default.resolvers[1] = [address |-> "1.1.1.1", protocol |-> "udp", enabled |-> TRUE]
    BY <1>3
  <2>2. Configuring!IsFunction(Configuring!Default.resolvers)
    BY <1>3 DEF Configuring!IsFunction
  <2>3. Configuring!IsFunction(Configuring!Default.resolvers[1]) /\ Fields \subseteq DOMAIN Configuring!Default.resolvers[1]
    BY <2>1 DEF Configuring!IsFunction, Fields
  <2> QED BY <2>1, <2>2, <2>3
<1>i. Indexed(Configuring!Default.resolvers)
  <2>1. DOMAIN Configuring!Default.resolvers = {1}
    BY <1>3
  <2>2. IsFiniteSet({1})
    BY FS_Singleton
  <2> QED BY <2>1, <2>2, SameSets DEF Indexed
<1>5. Configuring!Default.capacity \in Int
  <2>1. Configuring!Default.capacity = DefaultCapacity
    BY DEF Configuring!Default
  <2>2. DefaultCapacity \in Nat
    BY Zenon DEF Configuring!SettingsAssumption
  <2> QED BY <2>1, <2>2
<1> QED BY <1>1, <1>2, <1>4, <1>i, <1>5 DEF Whole, GoodList, Configuring!Nested

LEMMA OverFunction == \A f, g : Configuring!IsFunction(Configuring!Over(f, g))
BY DEF Configuring!Over, Configuring!IsFunction

LEMMA OverDomain == \A f, g : DOMAIN Configuring!Over(f, g) = DOMAIN f \cup DOMAIN g
BY DEF Configuring!Over

LEMMA OverWithin == \A f, g : DOMAIN f \subseteq DOMAIN g => DOMAIN Configuring!Over(f, g) = DOMAIN g
BY DEF Configuring!Over

LEMMA OverFirst == \A f, g : \A x \in DOMAIN f : Configuring!Over(f, g)[x] = f[x]
BY DEF Configuring!Over

LEMMA OverSecond == \A f, g : \A x \in DOMAIN g : x \notin DOMAIN f => Configuring!Over(f, g)[x] = g[x]
BY DEF Configuring!Over

LEMMA OverAll ==
    ASSUME NEW f, NEW g, Configuring!IsFunction(f), DOMAIN g \subseteq DOMAIN f
    PROVE  Configuring!Over(f, g) = f
<1>1. Configuring!Over(f, g) = [x \in DOMAIN f |-> f[x]]
  BY DEF Configuring!Over
<1> QED BY <1>1 DEF Configuring!IsFunction

LEMMA OverFields ==
    ASSUME NEW entry, NEW base, Fields \subseteq DOMAIN base
    PROVE  /\ Configuring!IsFunction(Configuring!Over(entry, base)) /\ Fields \subseteq DOMAIN Configuring!Over(entry, base)
           /\ Configuring!IsFunction(entry) /\ DOMAIN base = Fields /\ Fields \subseteq DOMAIN entry
                => Configuring!Over(entry, base) = entry
<1>1. DOMAIN Configuring!Over(entry, base) = DOMAIN entry \cup DOMAIN base
  BY OverDomain
<1> QED BY <1>1, OverFunction, OverAll

LEMMA BlankFields == \A enabled : DOMAIN Configuring!Blank(enabled) = Fields
BY DEF Configuring!Blank, Fields

LEMMA ListedFacts ==
    ASSUME NEW rs, NEW enabled
    PROVE  /\ Configuring!IsFunction(Configuring!Listed(rs, enabled)) /\ DOMAIN Configuring!Listed(rs, enabled) = DOMAIN rs
           /\ \A k \in DOMAIN rs :
                 Configuring!IsFunction(Configuring!Listed(rs, enabled)[k]) /\ Fields \subseteq DOMAIN Configuring!Listed(rs, enabled)[k]
<1>1. Configuring!Listed(rs, enabled) = [k \in DOMAIN rs |-> Configuring!Over(rs[k], Configuring!Blank(enabled))]
  BY DEF Configuring!Listed
<1>2. ASSUME NEW k \in DOMAIN rs
      PROVE  Configuring!IsFunction(Configuring!Listed(rs, enabled)[k]) /\ Fields \subseteq DOMAIN Configuring!Listed(rs, enabled)[k]
  <2>1. Configuring!Listed(rs, enabled)[k] = Configuring!Over(rs[k], Configuring!Blank(enabled))
    BY <1>1
  <2> QED BY <2>1, OverFields, BlankFields
<1> QED BY <1>1, <1>2 DEF Configuring!IsFunction

(* What an element of a row is decoded into.                               *)
Under(k) ==
    IF k \in DOMAIN Configuring!Default.resolvers THEN Configuring!Default.resolvers[k] ELSE Configuring!Blank(FALSE)

LEMMA UnderFields == \A k : DOMAIN Under(k) = Fields
<1>1. Configuring!Default.resolvers = << [address |-> "1.1.1.1", protocol |-> "udp", enabled |-> TRUE] >>
  BY DEF Configuring!Default
<1>2. \A k \in DOMAIN Configuring!Default.resolvers : DOMAIN Configuring!Default.resolvers[k] = Fields
  BY <1>1 DEF Fields
<1> QED BY <1>2, BlankFields DEF Under

LEMMA ListedInRowFacts ==
    ASSUME NEW rs
    PROVE  /\ Configuring!IsFunction(Configuring!ListedInRow(rs)) /\ DOMAIN Configuring!ListedInRow(rs) = DOMAIN rs
           /\ \A k \in DOMAIN rs :
                 Configuring!IsFunction(Configuring!ListedInRow(rs)[k]) /\ Fields \subseteq DOMAIN Configuring!ListedInRow(rs)[k]
<1>1. Configuring!ListedInRow(rs) = [k \in DOMAIN rs |-> Configuring!Over(rs[k], Under(k))]
  BY DEF Configuring!ListedInRow, Under
<1>2. ASSUME NEW k \in DOMAIN rs
      PROVE  Configuring!IsFunction(Configuring!ListedInRow(rs)[k]) /\ Fields \subseteq DOMAIN Configuring!ListedInRow(rs)[k]
  <2>1. Configuring!ListedInRow(rs)[k] = Configuring!Over(rs[k], Under(k))
    BY <1>1
  <2> QED BY <2>1, OverFields, UnderFields
<1> QED BY <1>1, <1>2 DEF Configuring!IsFunction

LEMMA ListedAll == ASSUME NEW rs, GoodList(rs) PROVE Configuring!ListedInRow(rs) = rs
<1>1. ASSUME NEW k \in DOMAIN rs PROVE Configuring!Over(rs[k], Under(k)) = rs[k]
  BY OverFields, UnderFields DEF GoodList
<1>2. Configuring!ListedInRow(rs) = [k \in DOMAIN rs |-> rs[k]]
  BY <1>1 DEF Configuring!ListedInRow, Under
<1> QED BY <1>2 DEF Configuring!IsFunction, GoodList

LEMMA ListsGood ==
    ASSUME NEW rs, Indexed(rs)
    PROVE  GoodList(Configuring!ListedInRow(rs)) /\ \A enabled : GoodList(Configuring!Listed(rs, enabled))
<1>1. GoodList(Configuring!ListedInRow(rs))
  BY ListedInRowFacts DEF GoodList, Indexed
<1>2. ASSUME NEW enabled PROVE GoodList(Configuring!Listed(rs, enabled))
  BY ListedFacts DEF GoodList, Indexed
<1> QED BY <1>1, <1>2

(* What is decoded is whole.                                               *)
LEMMA DecodeWhole ==
    ASSUME Configuring!SettingsAssumption, NEW p, Configuring!IsPayload(p),
           NEW rs, "resolvers" \in DOMAIN p => GoodList(rs)
    PROVE  Whole(Configuring!normalizeLegacyCacheConfig(Configuring!Decode(p, rs), p))
<1> DEFINE d == Configuring!Decode(p, rs)
           n == Configuring!normalizeLegacyCacheConfig(d, p)
<1>1. /\ Configuring!IsFunction(d) /\ DOMAIN d = DOMAIN Configuring!Default
      /\ \A key \in DOMAIN Configuring!Default :
            d[key] = IF key \notin DOMAIN p THEN Configuring!Default[key]
                     ELSE IF key \in Configuring!Nested THEN Configuring!Over(p[key], Configuring!Default[key])
                     ELSE IF key = "resolvers" THEN rs
                     ELSE p[key]
  BY DEF Configuring!Decode, Configuring!IsFunction
<1>n. n \in {d, [d EXCEPT !.success = d.cacheTTL, !.denial = d.cacheTTL]}
  BY DEF Configuring!normalizeLegacyCacheConfig
<1> HIDE DEF d, n
<1>2. ASSUME NEW key \in Configuring!Nested PROVE Configuring!IsFunction(d[key]) /\ DOMAIN d[key] = DOMAIN Configuring!Default[key]
  <2>1. key \in DOMAIN Configuring!Default
    BY DefaultKeys
  <2>2. CASE key \notin DOMAIN p
    BY <1>1, <2>1, <2>2, DefaultWhole DEF Whole
  <2>3. CASE key \in DOMAIN p
    <3>1. d[key] = Configuring!Over(p[key], Configuring!Default[key]) /\ DOMAIN p[key] \subseteq DOMAIN Configuring!Default[key]
      BY <1>1, <2>1, <2>3 DEF Configuring!IsPayload
    <3>2. Configuring!IsFunction(d[key])
      BY <3>1, OverFunction
    <3>3. DOMAIN d[key] = DOMAIN Configuring!Default[key]
      BY <3>1, OverWithin
    <3> QED BY <3>2, <3>3
  <2> QED BY <2>2, <2>3
<1>3. GoodList(d.resolvers)
  <2>1. "resolvers" \in DOMAIN Configuring!Default /\ "resolvers" \notin Configuring!Nested
    BY DefaultKeys DEF Configuring!Nested
  <2>2. CASE "resolvers" \notin DOMAIN p
    BY <1>1, <2>1, <2>2, DefaultWhole DEF Whole
  <2>3. CASE "resolvers" \in DOMAIN p
    BY <1>1, <2>1, <2>3
  <2> QED BY <2>2, <2>3
<1>c. d.capacity \in Int
  <2>1. "capacity" \in DOMAIN Configuring!Default /\ "capacity" \notin Configuring!Nested
    BY DefaultKeys DEF Configuring!Nested
  <2>2. d.capacity = IF "capacity" \notin DOMAIN p THEN Configuring!Default.capacity ELSE p.capacity
    BY <1>1, <2>1
  <2> QED BY <2>2, DefaultWhole DEF Whole, Configuring!IsPayload
<1>4. ASSUME n = d PROVE Whole(n)
  BY <1>1, <1>2, <1>3, <1>c, <1>4 DEF Whole
<1>5. ASSUME n = [d EXCEPT !.success = d.cacheTTL, !.denial = d.cacheTTL] PROVE Whole(n)
  <2>1. /\ Configuring!IsFunction(n) /\ DOMAIN n = DOMAIN Configuring!Default
        /\ \A key \in DOMAIN Configuring!Default \ {"success", "denial"} : n[key] = d[key]
    BY <1>1, <1>5 DEF Configuring!IsFunction
  <2>2. \A key \in Configuring!Nested \cup {"resolvers", "capacity"} : key \in DOMAIN Configuring!Default \ {"success", "denial"}
    BY DefaultKeys DEF Configuring!Nested
  <2> QED BY <1>2, <1>3, <1>c, <2>1, <2>2 DEF Whole
<1>6. Whole(n)
  BY <1>n, <1>4, <1>5
<1> QED BY <1>6 DEF n, d

LEMMA DecodedWhole ==
    ASSUME Configuring!SettingsAssumption, NEW p, Configuring!IsPayload(p)
    PROVE  Whole(Configuring!FromFile(p)) /\ Whole(Configuring!FromRow(p))
<1>1. "resolvers" \in DOMAIN p => Indexed(p.resolvers)
  BY DEF Configuring!IsPayload, Indexed
<1>2. /\ "resolvers" \in DOMAIN p => GoodList(Configuring!Listed(p.resolvers, FALSE))
      /\ "resolvers" \in DOMAIN p => GoodList(Configuring!ListedInRow(p.resolvers))
  BY <1>1, ListsGood
<1> QED BY <1>2, DecodeWhole DEF Configuring!FromFile, Configuring!FromRow

(* The row keeps every value, with the one zero that it omits.             *)
LEMMA RoundTrip == ASSUME NEW cfg, Whole(cfg) PROVE Configuring!FromRow(Configuring!Encode(cfg)) = cfg
<1> DEFINE p == Configuring!Encode(cfg)
           rs == Configuring!ListedInRow(p.resolvers)
<1>1. /\ DOMAIN p = {k \in DOMAIN cfg : k = "cacheTTL" => cfg[k] # 0}
      /\ \A k \in DOMAIN p : p[k] = cfg[k]
  BY DEF Configuring!Encode
<1> HIDE DEF p
<1>2. DOMAIN cfg = DOMAIN Configuring!Default /\ Configuring!IsFunction(cfg)
  BY DEF Whole
<1>3. ASSUME NEW key \in DOMAIN Configuring!Default
      PROVE  (IF key \notin DOMAIN p THEN Configuring!Default[key]
              ELSE IF key \in Configuring!Nested THEN Configuring!Over(p[key], Configuring!Default[key])
              ELSE IF key = "resolvers" THEN rs
              ELSE p[key]) = cfg[key]
  <2>1. CASE key \notin DOMAIN p
    BY <1>1, <1>2, <2>1, DefaultKeys
  <2>2. CASE key \in DOMAIN p /\ key \in Configuring!Nested
    <3>1. p[key] = cfg[key] /\ Configuring!IsFunction(cfg[key]) /\ DOMAIN Configuring!Default[key] \subseteq DOMAIN cfg[key]
      BY <1>1, <2>2 DEF Whole
    <3> QED BY <2>2, <3>1, OverAll
  <2>3. CASE key \in DOMAIN p /\ key \notin Configuring!Nested /\ key = "resolvers"
    <3>1. p.resolvers = cfg.resolvers
      BY <1>1, <2>3
    <3>2. Configuring!ListedInRow(cfg.resolvers) = cfg.resolvers
      BY ListedAll DEF Whole
    <3> QED BY <2>3, <3>1, <3>2
  <2>4. CASE key \in DOMAIN p /\ key \notin Configuring!Nested /\ key # "resolvers"
    BY <1>1, <2>4
  <2> QED BY <2>1, <2>2, <2>3, <2>4
<1>4. Configuring!Decode(p, rs) = [key \in DOMAIN cfg |-> cfg[key]]
  BY <1>2, <1>3 DEF Configuring!Decode
<1>5. Configuring!Decode(p, rs) = cfg
  BY <1>2, <1>4 DEF Configuring!IsFunction
<1>6. {"success", "denial"} \subseteq DOMAIN p
  BY <1>1, <1>2, DefaultKeys
<1>7. Configuring!normalizeLegacyCacheConfig(Configuring!Decode(p, rs), p) = Configuring!Decode(p, rs)
  BY <1>6 DEF Configuring!normalizeLegacyCacheConfig
<1> QED BY <1>5, <1>7 DEF Configuring!FromRow, p

(* A partial update of a whole configuration makes a whole one.            *)
LEMMA UpdateWhole ==
    ASSUME NEW cfg, Whole(cfg), NEW body, Configuring!IsPayload(body) PROVE Whole(Configuring!applyConfigUpdate(cfg, body))
<1> DEFINE asked == [key \in DOMAIN body |->
                    CASE key = "dnssec" -> Configuring!dnssecUpdateToConfig(cfg.dnssec, body.dnssec)
                      [] key = "conditional" ->
                            Configuring!conditionalForwardingUpdateToConfig(cfg.conditional, body.conditional)
                      [] key = "resolvers" -> Configuring!resolverUpdatesToConfig(body.resolvers)
                      [] OTHER -> body[key]]
           ttls == IF "cacheTTL" \in DOMAIN body THEN {"success", "denial"} ELSE {}
           both == [key \in ttls |-> body.cacheTTL]
           next == Configuring!applyConfigUpdate(cfg, body)
<1>1. next = Configuring!Over(asked, Configuring!Over(both, cfg))
  BY DEF Configuring!applyConfigUpdate
<1>2. /\ DOMAIN asked = DOMAIN body /\ DOMAIN both \subseteq {"success", "denial"}
      /\ "conditional" \in DOMAIN body =>
            asked.conditional = Configuring!conditionalForwardingUpdateToConfig(cfg.conditional, body.conditional)
      /\ "resolvers" \in DOMAIN body => asked.resolvers = Configuring!resolverUpdatesToConfig(body.resolvers)
      /\ "dnssec" \in DOMAIN body => asked.dnssec = Configuring!dnssecUpdateToConfig(cfg.dnssec, body.dnssec)
      /\ "capacity" \in DOMAIN body => asked.capacity = body.capacity
  OBVIOUS
<1> HIDE DEF asked, both, next
<1>3. /\ DOMAIN body \subseteq DOMAIN Configuring!Default /\ DOMAIN cfg = DOMAIN Configuring!Default
      /\ \A key \in Configuring!Nested \cap DOMAIN body : DOMAIN body[key] \subseteq DOMAIN Configuring!Default[key]
      /\ \A key \in Configuring!Nested : Configuring!IsFunction(cfg[key]) /\ DOMAIN cfg[key] = DOMAIN Configuring!Default[key]
  BY DEF Configuring!IsPayload, Whole
<1>4. {"success", "denial", "dnssec", "conditional", "resolvers", "capacity"} \subseteq DOMAIN Configuring!Default
  BY DefaultKeys DEF Configuring!Nested, Configuring!DNSKeys
<1>5. Configuring!IsFunction(next) /\ DOMAIN next = DOMAIN Configuring!Default
  <2>1. Configuring!IsFunction(next)
    BY <1>1, OverFunction
  <2>2. DOMAIN Configuring!Over(both, cfg) = DOMAIN Configuring!Default
    BY <1>2, <1>3, <1>4, OverWithin
  <2>3. DOMAIN next = DOMAIN Configuring!Default
    BY <1>1, <1>2, <1>3, <2>2, OverWithin
  <2> QED BY <2>1, <2>3
<1>6. \A key \in {"dnssec", "conditional", "resolvers", "capacity"} :
          next[key] = IF key \in DOMAIN body THEN asked[key] ELSE cfg[key]
  <2> SUFFICES ASSUME NEW key \in {"dnssec", "conditional", "resolvers", "capacity"}
               PROVE  next[key] = IF key \in DOMAIN body THEN asked[key] ELSE cfg[key]
    OBVIOUS
  <2>1. CASE key \in DOMAIN body
    <3>1. next[key] = asked[key]
      BY <1>1, <1>2, <2>1, OverFirst
    <3> QED BY <2>1, <3>1
  <2>2. CASE key \notin DOMAIN body
    <3>1. key \notin DOMAIN both /\ key \in DOMAIN cfg
      BY <1>2, <1>3, <1>4
    <3>2. Configuring!Over(both, cfg)[key] = cfg[key] /\ key \in DOMAIN Configuring!Over(both, cfg)
      <4>1. Configuring!Over(both, cfg)[key] = cfg[key]
        BY <3>1, OverSecond
      <4>2. DOMAIN Configuring!Over(both, cfg) = DOMAIN both \cup DOMAIN cfg
        BY OverDomain
      <4> QED BY <3>1, <4>1, <4>2
    <3>3. next[key] = Configuring!Over(both, cfg)[key]
      BY <1>1, <1>2, <2>2, <3>2, OverSecond
    <3> QED BY <2>2, <3>2, <3>3
  <2> QED BY <2>1, <2>2
<1>7. Configuring!IsFunction(next.dnssec) /\ DOMAIN next.dnssec = DOMAIN Configuring!Default.dnssec
  <2>1. CASE "dnssec" \notin DOMAIN body
    BY <1>3, <1>6, <2>1 DEF Configuring!Nested
  <2>2. CASE "dnssec" \in DOMAIN body
    <3>1. next.dnssec = Configuring!dnssecUpdateToConfig(cfg.dnssec, body.dnssec)
      BY <1>2, <1>6, <2>2
    <3>2. /\ DOMAIN Configuring!dnssecUpdateToConfig(cfg.dnssec, body.dnssec) = {"enabled", "mode"}
          /\ Configuring!IsFunction(Configuring!dnssecUpdateToConfig(cfg.dnssec, body.dnssec))
      BY DEF Configuring!dnssecUpdateToConfig, Configuring!IsFunction
    <3> QED BY <3>1, <3>2, DefaultKeys
  <2> QED BY <2>1, <2>2
<1>8. Configuring!IsFunction(next.conditional) /\ DOMAIN next.conditional = DOMAIN Configuring!Default.conditional
  <2>1. CASE "conditional" \notin DOMAIN body
    BY <1>3, <1>6, <2>1 DEF Configuring!Nested
  <2>2. CASE "conditional" \in DOMAIN body
    <3>1. next.conditional = Configuring!conditionalForwardingUpdateToConfig(cfg.conditional, body.conditional)
      BY <1>2, <1>6, <2>2
    <3>2. /\ Configuring!IsFunction(Configuring!Over(body.conditional, cfg.conditional))
          /\ DOMAIN Configuring!Over(body.conditional, cfg.conditional) = DOMAIN Configuring!Default.conditional
      <4>1. DOMAIN body.conditional \subseteq DOMAIN cfg.conditional /\ DOMAIN cfg.conditional = DOMAIN Configuring!Default.conditional
        BY <1>3, <2>2 DEF Configuring!Nested
      <4>2. DOMAIN Configuring!Over(body.conditional, cfg.conditional) = DOMAIN cfg.conditional
        BY <4>1, OverWithin
      <4> QED BY <4>1, <4>2, OverFunction
    <3>3. Configuring!IsFunction(Configuring!NoForwarding)
      BY DEF Configuring!IsFunction, Configuring!NoForwarding
    <3>4. next.conditional \in {Configuring!Over(body.conditional, cfg.conditional), Configuring!NoForwarding}
      BY <3>1 DEF Configuring!conditionalForwardingUpdateToConfig
    <3> QED BY <3>2, <3>3, <3>4, DefaultKeys
  <2> QED BY <2>1, <2>2
<1>9. GoodList(next.resolvers)
  <2>1. CASE "resolvers" \notin DOMAIN body
    BY <1>6, <2>1 DEF Whole
  <2>2. CASE "resolvers" \in DOMAIN body
    <3>1. next.resolvers = Configuring!Listed(body.resolvers, TRUE)
      BY <1>2, <1>6, <2>2 DEF Configuring!resolverUpdatesToConfig
    <3>2. Indexed(body.resolvers)
      BY <2>2 DEF Indexed, Configuring!IsPayload
    <3> QED BY <3>1, <3>2, ListsGood
  <2> QED BY <2>1, <2>2
<1>c. next.capacity \in Int
  BY <1>2, <1>6 DEF Whole, Configuring!IsPayload
<1>10. Whole(next)
  BY <1>5, <1>7, <1>8, <1>9, <1>c DEF Whole, Configuring!Nested
<1> QED BY <1>10 DEF next

-----------------------------------------------------------------------------
(* A cache flag made beside a server block is true of it.                  *)
LEMMA FlagTrue == \A cfg : Configuring!CacheEnabled(cfg) = (Configuring!Corefile(cfg).cache # <<>>)
<1> SUFFICES ASSUME NEW cfg PROVE Configuring!CacheEnabled(cfg) = (Configuring!Corefile(cfg).cache # <<>>)
  OBVIOUS
<1>1. CASE Configuring!CacheEnabled(cfg)
  <2>1. Configuring!Corefile(cfg).cache =
            << Configuring!EffectiveCacheSuccessTTL(cfg), Configuring!EffectiveCacheDenialTTL(cfg), cfg.capacity >>
    BY <1>1 DEF Configuring!Corefile
  <2>2. Configuring!Corefile(cfg).cache # <<>>
    BY <2>1
  <2> QED BY <1>1, <2>2 DEF Configuring!CacheEnabled
<1>2. CASE ~Configuring!CacheEnabled(cfg)
  <2>1. Configuring!Corefile(cfg).cache = <<>>
    BY <1>2 DEF Configuring!Corefile
  <2> QED BY <1>2, <2>1 DEF Configuring!CacheEnabled
<1> QED BY <1>1, <1>2

LEMMA UsesFacts ==
    ASSUME NEW cfg PROVE IsProcess(Configuring!Uses(cfg)) /\ Agrees(Configuring!Uses(cfg), cfg)
<1>1. Configuring!IsFunction(Configuring!Uses(cfg)) /\ DOMAIN Configuring!Uses(cfg) = Parts
  BY DEF Configuring!Uses, Configuring!IsFunction, Parts
<1>2. Configuring!Uses(cfg).cacheFlag = Configuring!CacheEnabled(cfg) /\ Configuring!Uses(cfg).dns = Configuring!Corefile(cfg)
  BY DEF Configuring!Uses
<1> QED BY <1>1, <1>2, FlagTrue DEF IsProcess, Agrees

LEMMA ReloadedFacts ==
    ASSUME NEW next, IsProcess(running)
    PROVE  LET process == Configuring!Reloaded(next) IN
           /\ IsProcess(process)
           /\ \A what \in Parts \ {"dns", "cacheFlag"} : process[what] = running[what]
           /\ IF Configuring!shouldReloadDNSImmediately(Configuring!Saved, next)
              THEN process.dns = Configuring!Corefile(next) /\ process.cacheFlag = Configuring!CacheEnabled(next)
              ELSE process = running
<1> DEFINE process == Configuring!Reloaded(next)
<1>1. CASE Configuring!shouldReloadDNSImmediately(Configuring!Saved, next)
  <2>1. process = [running EXCEPT !.dns = Configuring!Corefile(next), !.cacheFlag = Configuring!CacheEnabled(next)]
    BY <1>1 DEF Configuring!Reloaded, Configuring!ReloadDNS
  <2> HIDE DEF process
  <2>2. DOMAIN running = Parts /\ "dns" \in Parts /\ "cacheFlag" \in Parts
    BY DEF IsProcess, Parts
  <2>3. Configuring!IsFunction(process) /\ DOMAIN process = Parts
    BY <2>1, <2>2 DEF Configuring!IsFunction
  <2>4. process.dns = Configuring!Corefile(next) /\ process.cacheFlag = Configuring!CacheEnabled(next)
    BY <2>1, <2>2
  <2>5. \A what \in Parts \ {"dns", "cacheFlag"} : process[what] = running[what]
    BY <2>1, <2>2
  <2>6. process.cacheFlag = (process.dns.cache # <<>>)
    BY <2>4, FlagTrue
  <2>7. IsProcess(process)
    BY <2>3, <2>6 DEF IsProcess
  <2> QED BY <1>1, <2>4, <2>5, <2>7 DEF process
<1>2. CASE ~Configuring!shouldReloadDNSImmediately(Configuring!Saved, next)
  BY <1>2 DEF Configuring!Reloaded
<1> QED BY <1>1, <1>2

LEMMA AppliedFacts ==
    ASSUME NEW next, NEW process, IsProcess(process)
    PROVE  /\ IsProcess(Configuring!Applied(next, process))
           /\ \A what \in Parts \ {"response", "level", "format"} : Configuring!Applied(next, process)[what] = process[what]
           /\ Configuring!Applied(next, process).response = next.response
           /\ Configuring!Applied(next, process).level = Configuring!EffectiveLevel(next)
           /\ Configuring!Applied(next, process).format = Configuring!EffectiveFormat(next)
<1> DEFINE applied == Configuring!Applied(next, process)
<1>1. applied = [process EXCEPT !.response = next.response,
                    !.level = Configuring!EffectiveLevel(next), !.format = Configuring!EffectiveFormat(next)]
  BY DEF Configuring!Applied
<1> HIDE DEF applied
<1>2. DOMAIN process = Parts /\ {"dns", "cacheFlag", "response", "level", "format"} \subseteq Parts
  BY DEF IsProcess, Parts
<1>3. Configuring!IsFunction(applied) /\ DOMAIN applied = Parts
  BY <1>1, <1>2 DEF Configuring!IsFunction
<1>4. \A what \in Parts \ {"response", "level", "format"} : applied[what] = process[what]
  BY <1>1, <1>2
<1>5. applied.response = next.response /\ applied.level = Configuring!EffectiveLevel(next) /\ applied.format = Configuring!EffectiveFormat(next)
  BY <1>1, <1>2
<1>6. applied.dns = process.dns /\ applied.cacheFlag = process.cacheFlag
  BY <1>2, <1>4
<1>7. IsProcess(applied)
  BY <1>3, <1>6 DEF IsProcess
<1> QED BY <1>4, <1>5, <1>7 DEF applied

(* What DNSChanged does not see makes no other server block.               *)
LEMMA SameServer ==
    ASSUME NEW current, NEW next, Whole(current), Whole(next), ~Configuring!DNSChanged(current, next)
    PROVE  Configuring!Corefile(next) = Configuring!Corefile(current) /\ Configuring!CacheEnabled(next) = Configuring!CacheEnabled(current)
<1>1. ASSUME NEW key \in Configuring!DNSKeys PROVE next[key] = current[key]
  <2>1. key \in DOMAIN current
    BY DefaultKeys DEF Whole
  <2>2. key \notin Configuring!Changed(current, next)
    BY DEF Configuring!DNSChanged
  <2> QED BY <2>1, <2>2 DEF Configuring!Changed
<1>2. /\ next.listen = current.listen /\ next.resolvers = current.resolvers
      /\ next.cacheTTL = current.cacheTTL /\ next.success = current.success /\ next.denial = current.denial
      /\ next.capacity = current.capacity /\ next.dnssec = current.dnssec
      /\ next.conditional = current.conditional /\ next.rewrites = current.rewrites
  BY <1>1 DEF Configuring!DNSKeys
<1>3. /\ Configuring!EffectiveCacheSuccessTTL(next) = Configuring!EffectiveCacheSuccessTTL(current)
      /\ Configuring!EffectiveCacheDenialTTL(next) = Configuring!EffectiveCacheDenialTTL(current)
  BY <1>2 DEF Configuring!EffectiveCacheSuccessTTL, Configuring!EffectiveCacheDenialTTL
<1>4. Configuring!CacheEnabled(next) = Configuring!CacheEnabled(current)
  BY <1>3 DEF Configuring!CacheEnabled
<1>5. Configuring!writeQueryLogging(next) = Configuring!writeQueryLogging(current)
  BY DEF Configuring!DNSChanged, Configuring!coreDNSLoggingChanged, Configuring!writeQueryLogging
<1> QED BY <1>2, <1>3, <1>4, <1>5 DEF Configuring!Corefile

-----------------------------------------------------------------------------
LEMMA ConfigurationInit == ASSUME Configuring!Init PROVE ConfigurationInv
BY DEF Configuring!Init, ConfigurationInv

(* A start that gets as far as the row leaves one that is good.            *)
LEMMA InitializeGood ==
    ASSUME Configuring!SettingsAssumption, Configuring!ConfigurationAssumption, ConfigurationInv, Configuring!Initialize
    PROVE  /\ RowGood' /\ granted' # {} /\ row' # {} /\ Configuring!Saved' = Configuring!Active
           /\ granted # {} => Configuring!Saved' = Configuring!Saved
<1>1. Configuring!IsPayload(file) /\ Configuring!Validate(Configuring!FromFile(file)) /\ Configuring!Validate(Configuring!Active)
  BY DEF ConfigurationInv, Configuring!ConfigurationAssumption, Configuring!Initialize
<1>2. CASE row = {}
  <2> PICK cfg : cfg = Configuring!FromFile(file)
    OBVIOUS
  <2>1. Configuring!Active = cfg /\ granted = {} /\ Whole(cfg)
    BY <1>1, <1>2, DecodedWhole DEF Configuring!Active, ConfigurationInv
  <2>2. row' = {Configuring!Encode(cfg)} /\ granted' = {cfg}
    BY <1>2, <2>1 DEF Configuring!Initialize
  <2>3. Configuring!Saved' = cfg
    BY <2>1, <2>2, RoundTrip DEF Configuring!Saved
  <2> QED BY <1>1, <2>1, <2>2, <2>3 DEF RowGood
<1>3. CASE row # {} /\ granted = {}
  <2> PICK old \in OldRows : row = {old}
    BY <1>3 DEF ConfigurationInv
  <2> PICK cfg : cfg = Configuring!FromRow(old)
    OBVIOUS
  <2>1. Configuring!Saved = cfg /\ Configuring!Active = cfg /\ Whole(cfg)
    BY <1>3, DecodedWhole DEF Configuring!Saved, Configuring!Active, Configuring!ConfigurationAssumption
  <2>2. row' = row /\ granted' = {cfg}
    BY <1>3, <2>1 DEF Configuring!Initialize
  <2>3. Configuring!Saved' = cfg
    BY <2>1, <2>2 DEF Configuring!Saved
  <2> QED BY <1>1, <1>3, <2>1, <2>2, <2>3 DEF RowGood
<1>4. CASE granted # {}
  <2>1. row' = row /\ granted' = granted /\ row # {} /\ RowGood /\ Configuring!Active = Configuring!Saved
    BY <1>4 DEF Configuring!Initialize, ConfigurationInv, Configuring!Active
  <2>2. Configuring!Saved' = Configuring!Saved
    BY <2>1 DEF Configuring!Saved
  <2> QED BY <1>4, <2>1, <2>2 DEF RowGood
<1> QED BY <1>2, <1>3, <1>4

LEMMA StartsKeep ==
    ASSUME Configuring!SettingsAssumption, Configuring!ConfigurationAssumption, ConfigurationInv,
           Configuring!Start \/ Configuring!StartFails \/ Configuring!Stop \/ Configuring!EditFile
    PROVE  ConfigurationInv'
<1>1. CASE Configuring!Start
  <2>1. /\ Configuring!Initialize /\ Configuring!Starts(Configuring!Active) /\ untried' = {}
        /\ running' = Configuring!Uses(Configuring!Active) /\ UNCHANGED <<file, reloadFaults>>
    BY <1>1 DEF Configuring!Start
  <2>2. RowGood' /\ granted' # {} /\ row' # {} /\ Configuring!Saved' = Configuring!Active
    BY <2>1, InitializeGood
  <2>3. IsProcess(running') /\ Agrees(running', Configuring!Active)
    BY <2>1, UsesFacts
  <2>4. TriedGood'
    <3>1. /\ Configuring!CoreDNSTakes(Configuring!Corefile(Configuring!Active))
          /\ Configuring!Active.admin \notin Unusable
      BY <2>1 DEF Configuring!Starts
    <3>2. (Configuring!CoreDNSTakes(Configuring!Corefile(Configuring!Saved)))'
      BY <2>2, <3>1 DEF Configuring!CoreDNSTakes, Configuring!Corefile
    <3> QED BY <2>2, <3>1, <3>2 DEF TriedGood
  <2> QED BY <2>1, <2>2, <2>3, <2>4 DEF ConfigurationInv, IsProcess, Agrees
<1>2. CASE Configuring!StartFails
  <2>1. /\ Configuring!Initialize /\ running = Down /\ UNCHANGED <<file, running, untried>>
        /\ reloadFaults' \in {reloadFaults, reloadFaults + 1}
    BY <1>2 DEF Configuring!StartFails, Configuring!Initialize
  <2>2. /\ RowGood' /\ granted' # {} /\ row' # {}
        /\ granted # {} => Configuring!Saved' = Configuring!Saved
    BY <2>1, InitializeGood
  <2>3. TriedGood'
    <3>1. CASE granted = {}
      BY <2>1, <3>1 DEF TriedGood, ConfigurationInv
    <3>2. CASE granted # {}
      <4>1. PICK cfg : cfg = Configuring!Saved
        OBVIOUS
      <4>2. Configuring!Saved' = cfg /\ untried' = untried
        BY <2>1, <2>2, <3>2, <4>1
      <4>3. TriedGood
        BY <3>2 DEF ConfigurationInv
      <4> QED BY <4>1, <4>2, <4>3 DEF TriedGood
    <3> QED BY <3>1, <3>2
  <2> QED BY <2>1, <2>2, <2>3 DEF ConfigurationInv
<1>3. CASE Configuring!Stop
  BY <1>3 DEF Configuring!Stop, ConfigurationInv, RowGood, TriedGood, Configuring!Saved
<1>4. CASE Configuring!EditFile
  BY <1>4 DEF Configuring!EditFile, ConfigurationInv, RowGood, TriedGood, Configuring!Saved
<1> QED BY <1>1, <1>2, <1>3, <1>4

(* What an update leaves is tried, or says so.                             *)
LEMMA UpdateTried ==
    ASSUME NEW next, Whole(next), Whole(Configuring!Saved), Configuring!Accepted(next), TriedGood
    PROVE  /\ "dns" \notin Configuring!LeftUntried(next) => Configuring!CoreDNSTakes(Configuring!Corefile(next))
           /\ "admin" \notin Configuring!LeftUntried(next) => next.admin \notin Unusable
<1>1. ASSUME "dns" \notin Configuring!LeftUntried(next) PROVE Configuring!CoreDNSTakes(Configuring!Corefile(next))
  <2>1. CASE Configuring!Tried(next)
    BY <2>1 DEF Configuring!Accepted
  <2>2. CASE ~Configuring!Tried(next)
    <3>1. next.listen = Configuring!Saved.listen /\ "dns" \notin untried
      BY <1>1, <2>2 DEF Configuring!LeftUntried
    <3>2. ~Configuring!DNSChanged(Configuring!Saved, next)
      BY <2>2, <3>1 DEF Configuring!Tried, Configuring!shouldReloadDNSImmediately
    <3>3. Configuring!Corefile(next) = Configuring!Corefile(Configuring!Saved)
      BY <3>2, SameServer
    <3> QED BY <3>1, <3>3 DEF TriedGood
  <2> QED BY <2>1, <2>2
<1>2. ASSUME "admin" \notin Configuring!LeftUntried(next) PROVE next.admin \notin Unusable
  <2>1. next.admin = Configuring!Saved.admin /\ "admin" \notin untried
    BY <1>2 DEF Configuring!LeftUntried
  <2> QED BY <2>1 DEF TriedGood
<1> QED BY <1>1, <1>2

LEMMA UpdateKeeps == ASSUME Configuring!ConfigurationAssumption, ConfigurationInv, Configuring!Update PROVE ConfigurationInv'
<1>1. PICK body \in Updates :
        LET next == Configuring!applyConfigUpdate(Configuring!Saved, body) IN
        /\ Configuring!Accepted(next)
        /\ row' = {Configuring!Encode(next)}
        /\ granted' = {next} /\ untried' = Configuring!LeftUntried(next)
        /\ running' = Configuring!Applied(next, Configuring!Reloaded(next))
        /\ told' = (told \/ Configuring!restartRequired(Configuring!Saved, next, Configuring!Tried(next)))
  BY DEF Configuring!Update
<1> DEFINE next == Configuring!applyConfigUpdate(Configuring!Saved, body)
<1>2. /\ running # Down /\ UNCHANGED <<file, reloadFaults>> /\ RowGood /\ TriedGood /\ IsProcess(running)
      /\ file \in ConfigFiles /\ reloadFaults \in Nat
  BY DEF Configuring!Update, ConfigurationInv
<1>3. Whole(next) /\ Whole(Configuring!Saved)
  BY <1>2, UpdateWhole DEF RowGood, Configuring!ConfigurationAssumption
<1>4. Configuring!Saved' = next
  <2> HIDE DEF next
  <2>1. row' = {Configuring!Encode(next)}
    BY <1>1 DEF next
  <2> QED BY <1>3, <2>1, RoundTrip DEF Configuring!Saved
<1>5. RowGood' /\ granted' # {} /\ row' # {}
  <2> HIDE DEF next
  <2>1. granted' = {next} /\ row' # {} /\ Configuring!Validate(next)
    BY <1>1 DEF next, Configuring!Accepted
  <2> QED BY <1>3, <1>4, <2>1 DEF RowGood
<1>t. TriedGood'
  <2> HIDE DEF next
  <2>1. Configuring!Accepted(next) /\ untried' = Configuring!LeftUntried(next)
    BY <1>1 DEF next
  <2>2. /\ "dns" \notin untried' => Configuring!CoreDNSTakes(Configuring!Corefile(next))
        /\ "admin" \notin untried' => next.admin \notin Unusable
    BY <1>2, <1>3, <2>1, UpdateTried
  <2>3. Configuring!CoreDNSTakes(Configuring!Corefile(next)) = (Configuring!CoreDNSTakes(Configuring!Corefile(Configuring!Saved)))'
    BY <1>4 DEF Configuring!CoreDNSTakes, Configuring!Corefile
  <2> QED BY <1>4, <2>2, <2>3 DEF TriedGood
<1>6. IsProcess(Configuring!Reloaded(next))
  BY <1>2, ReloadedFacts
<1>7. IsProcess(running')
  BY <1>1, <1>6, AppliedFacts
<1>8. ASSUME reloadFaults = 0, ~told' PROVE Agrees(running', next)
  <2>1. /\ ~told /\ ~Configuring!restartRequired(Configuring!Saved, next, Configuring!Tried(next))
    BY <1>1, <1>8
  <2>2. Agrees(running, Configuring!Saved)
    BY <1>2, <1>8, <2>1 DEF ConfigurationInv
  <2>3. /\ Configuring!DNSChanged(Configuring!Saved, next) => Configuring!shouldReloadDNSImmediately(Configuring!Saved, next)
        /\ Configuring!Changed(Configuring!Saved, next) \cap {"connections", "admin", "lists"} = {}
    BY <2>1 DEF Configuring!restartRequired, Configuring!Tried
  <2>4. next.connections = Configuring!Saved.connections /\ next.admin = Configuring!Saved.admin /\ next.lists = Configuring!Saved.lists
    <3>1. {"connections", "admin", "lists"} \subseteq DOMAIN Configuring!Saved
      BY <1>3, DefaultKeys DEF Whole
    <3> HIDE DEF next
    <3> QED BY <2>3, <3>1 DEF Configuring!Changed
  <2>5. Configuring!Reloaded(next).dns = Configuring!Corefile(next) /\ Configuring!Reloaded(next).cacheFlag = Configuring!CacheEnabled(next)
    <3>1. CASE Configuring!shouldReloadDNSImmediately(Configuring!Saved, next)
      BY <1>2, <3>1, ReloadedFacts
    <3>2. CASE ~Configuring!shouldReloadDNSImmediately(Configuring!Saved, next)
      <4>1. ~Configuring!DNSChanged(Configuring!Saved, next) /\ Configuring!Reloaded(next) = running
        BY <1>2, <2>3, <3>2, ReloadedFacts
      <4>2. Configuring!Corefile(next) = Configuring!Corefile(Configuring!Saved) /\ Configuring!CacheEnabled(next) = Configuring!CacheEnabled(Configuring!Saved)
        BY <1>3, <4>1, SameServer
      <4>3. running.dns = Configuring!Uses(Configuring!Saved).dns /\ running.cacheFlag = Configuring!Uses(Configuring!Saved).cacheFlag
        BY <2>2 DEF Agrees, Parts
      <4> HIDE DEF next
      <4> QED BY <4>1, <4>2, <4>3 DEF Configuring!Uses
    <3> QED BY <3>1, <3>2
  <2>6. /\ Configuring!Reloaded(next).lists = next.lists /\ Configuring!Reloaded(next).admin = next.admin
        /\ Configuring!Reloaded(next).connections = next.connections
    <3>1. \A what \in {"lists", "admin", "connections"} : Configuring!Reloaded(next)[what] = running[what]
      BY <1>2, ReloadedFacts DEF Parts
    <3>2. running.lists = Configuring!Uses(Configuring!Saved).lists /\ running.admin = Configuring!Uses(Configuring!Saved).admin
          /\ running.connections = Configuring!Uses(Configuring!Saved).connections
      BY <2>2 DEF Agrees, Parts
    <3>3. Configuring!Uses(Configuring!Saved).lists = Configuring!Saved.lists /\ Configuring!Uses(Configuring!Saved).admin = Configuring!Saved.admin
          /\ Configuring!Uses(Configuring!Saved).connections = Configuring!Saved.connections
      BY DEF Configuring!Uses
    <3> HIDE DEF next
    <3> QED BY <2>4, <3>1, <3>2, <3>3
  <2> HIDE DEF next
  <2>7. /\ \A what \in {"dns", "cacheFlag", "lists", "admin", "connections"} :
              running'[what] = Configuring!Reloaded(next)[what]
        /\ running'.response = next.response
        /\ running'.level = Configuring!EffectiveLevel(next) /\ running'.format = Configuring!EffectiveFormat(next)
    BY <1>1, <1>6, AppliedFacts DEF Parts, next
  <2>8. /\ Configuring!Uses(next).dns = Configuring!Corefile(next) /\ Configuring!Uses(next).cacheFlag = Configuring!CacheEnabled(next)
        /\ Configuring!Uses(next).lists = next.lists /\ Configuring!Uses(next).admin = next.admin
        /\ Configuring!Uses(next).connections = next.connections /\ Configuring!Uses(next).response = next.response
        /\ Configuring!Uses(next).level = Configuring!EffectiveLevel(next) /\ Configuring!Uses(next).format = Configuring!EffectiveFormat(next)
    BY DEF Configuring!Uses
  <2>9. ASSUME NEW what \in Parts \ {"bundled"} PROVE running'[what] = Configuring!Uses(next)[what]
    <3>1. what \in {"dns", "cacheFlag", "lists", "admin", "connections", "response", "level", "format"}
      BY DEF Parts
    <3> QED BY <2>5, <2>6, <2>7, <2>8, <3>1
  <2> QED BY <2>9 DEF Agrees
<1>9. running' # Down /\ reloadFaults' = 0 /\ ~told' => Agrees(running, Configuring!Saved)'
  BY <1>2, <1>4, <1>8 DEF Agrees
<1> QED BY <1>2, <1>5, <1>t, <1>7, <1>9 DEF ConfigurationInv, IsProcess

LEMMA UpdateNotSavedKeeps == ASSUME ConfigurationInv, Configuring!UpdateNotSaved PROVE ConfigurationInv'
<1>1. /\ running # Down /\ reloadFaults' = reloadFaults + 1 /\ UNCHANGED <<file, row, granted, untried>>
      /\ granted # {} /\ row # {} /\ RowGood /\ TriedGood /\ IsProcess(running) /\ file \in ConfigFiles /\ reloadFaults \in Nat
      /\ \E next : running' = Configuring!Reloaded(next)
  BY DEF Configuring!UpdateNotSaved, ConfigurationInv
<1>2. IsProcess(running')
  BY <1>1, ReloadedFacts
<1>3. RowGood' /\ TriedGood'
  BY <1>1 DEF RowGood, TriedGood, Configuring!Saved
<1>4. reloadFaults' # 0 /\ reloadFaults' \in Nat
  BY <1>1
<1> QED BY <1>1, <1>2, <1>3, <1>4 DEF ConfigurationInv, IsProcess

LEMMA ConfigurationStep ==
    ASSUME Configuring!SettingsAssumption, Configuring!ConfigurationAssumption, ConfigurationInv,
           [Configuring!Next]_(Configuring!vars) PROVE ConfigurationInv'
<1>1. CASE UNCHANGED Configuring!vars
  BY <1>1 DEF Configuring!vars, ConfigurationInv, RowGood, TriedGood, Configuring!Saved, Agrees, IsProcess
<1>2. CASE Configuring!Next
  BY <1>2, StartsKeep, UpdateKeeps, UpdateNotSavedKeeps DEF Configuring!Next
<1> QED BY <1>1, <1>2

-----------------------------------------------------------------------------
(* The forwards of a configuration that Validate accepts.                  *)

(* Places in a list of the entries that are enabled.                       *)
EnabledOf(entries) == {k \in DOMAIN entries : entries[k].enabled}
PlaceOf(entries, k) == Configuring!Cardinality({j \in EnabledOf(entries) : j <= k})

LEMMA PlaceFacts ==
    ASSUME NEW entries, Indexed(entries)
    PROVE  /\ IsFiniteSet(EnabledOf(entries)) /\ Cardinality(EnabledOf(entries)) \in Nat
           /\ \A k \in EnabledOf(entries) : PlaceOf(entries, k) \in 1 .. Cardinality(EnabledOf(entries))
           /\ \A j, k \in EnabledOf(entries) : PlaceOf(entries, j) = PlaceOf(entries, k) => j = k
<1> DEFINE on == EnabledOf(entries)
           upto(k) == {j \in on : j <= k}
<1>1. IsFiniteSet(DOMAIN entries) /\ on \subseteq DOMAIN entries /\ on \subseteq Nat
  BY SameSets DEF Indexed, EnabledOf
<1>2. IsFiniteSet(on) /\ Cardinality(on) \in Nat
  BY <1>1, FS_Subset, FS_CardinalityType
<1> HIDE DEF on
<1>3. ASSUME NEW k \in on
      PROVE  /\ IsFiniteSet(upto(k)) /\ Cardinality(upto(k)) \in Nat
             /\ Cardinality(upto(k)) >= 1 /\ Cardinality(upto(k)) <= Cardinality(on)
  <2>1. upto(k) \subseteq on
    OBVIOUS
  <2>2. IsFiniteSet(upto(k)) /\ Cardinality(upto(k)) <= Cardinality(on)
    BY <1>2, <2>1, FS_Subset
  <2>3. k \in upto(k)
    BY <1>1
  <2>4. Cardinality(upto(k)) # 0
    BY <2>2, <2>3, FS_EmptySet
  <2>5. Cardinality(upto(k)) \in Nat
    BY <2>2, FS_CardinalityType
  <2> QED BY <2>2, <2>4, <2>5
<1>4. ASSUME NEW j \in on, NEW k \in on, j < k PROVE Cardinality(upto(j)) # Cardinality(upto(k))
  <2>1. upto(j) \subseteq upto(k) /\ k \in upto(k) /\ k \notin upto(j)
    BY <1>1, <1>4
  <2>2. IsFiniteSet(upto(k))
    BY <1>3
  <2> QED BY <2>1, <2>2, FS_Subset
<1>5. \A j, k \in on : Cardinality(upto(j)) = Cardinality(upto(k)) => j = k
  BY <1>1, <1>4
<1>6. \A k \in on : PlaceOf(entries, k) = Cardinality(upto(k))
  BY SameSets DEF PlaceOf, on
<1>7. \A k \in on : PlaceOf(entries, k) \in 1 .. Cardinality(on)
  <2> SUFFICES ASSUME NEW k \in on PROVE PlaceOf(entries, k) \in 1 .. Cardinality(on)
    OBVIOUS
  <2> DEFINE n == Cardinality(upto(k))
  <2>1. PlaceOf(entries, k) = n /\ n \in Nat /\ n >= 1 /\ n <= Cardinality(on)
    BY <1>3, <1>6
  <2> HIDE DEF n
  <2> QED BY <1>2, <2>1
<1>8. \A j, k \in on : PlaceOf(entries, j) = PlaceOf(entries, k) => j = k
  BY <1>5, <1>6
<1> HIDE DEF upto
<1> QED BY <1>2, <1>7, <1>8, Zenon DEF on

(* Used lists them all, and nothing else.                                  *)
LEMMA UsedFacts ==
    ASSUME NEW entries, Indexed(entries)
    PROVE  /\ DOMAIN Configuring!Used(entries) = 1 .. Cardinality(EnabledOf(entries))
           /\ Cardinality(EnabledOf(entries)) \in Nat
           /\ \A k \in EnabledOf(entries) :
                 \E n \in DOMAIN Configuring!Used(entries) : Configuring!Used(entries)[n] = entries[k]
           /\ Configuring!Used(entries) # <<>> => EnabledOf(entries) # {}
<1> DEFINE on == EnabledOf(entries)
           u == Configuring!Used(entries)
<1>0. u = [n \in 1 .. Configuring!Cardinality(on) |-> entries[CHOOSE k \in on : PlaceOf(entries, k) = n]]
  BY DEF Configuring!Used, PlaceOf, EnabledOf
<1> HIDE DEF u
<1>1. u = [n \in 1 .. Cardinality(on) |-> entries[CHOOSE k \in on : PlaceOf(entries, k) = n]]
  BY <1>0, SameSets
<1>2. Cardinality(on) \in Nat
  BY PlaceFacts
<1>3. DOMAIN u = 1 .. Cardinality(on)
  BY <1>1
<1> HIDE DEF on, u
<1>4. ASSUME NEW k \in on PROVE \E n \in DOMAIN u : u[n] = entries[k]
  <2> DEFINE n == PlaceOf(entries, k)
             c == CHOOSE j \in on : PlaceOf(entries, j) = n
  <2>1. n \in 1 .. Cardinality(on)
    BY PlaceFacts DEF on
  <2>2. c \in on /\ PlaceOf(entries, c) = PlaceOf(entries, k)
    OBVIOUS
  <2>3. c = k
    BY <2>2, PlaceFacts DEF on
  <2>4. u[n] = entries[c]
    BY <1>1, <2>1
  <2> QED BY <1>3, <2>1, <2>3, <2>4
<1>5. u # <<>> => on # {}
  <2> SUFFICES ASSUME on = {} PROVE u = <<>>
    OBVIOUS
  <2>1. Cardinality(on) = 0
    BY FS_EmptySet
  <2>2. 1 .. Cardinality(on) = {}
    BY <2>1
  <2> QED BY <1>1, <2>2
<1> QED BY <1>2, <1>3, <1>4, <1>5 DEF on, u

(* So a forward has a target when an entry is enabled, and TCP is forced   *)
(* when one of them asks for it.                                           *)
LEMMA ForwardFacts ==
    ASSUME NEW from, NEW entries, Indexed(entries), EnabledOf(entries) # {}
    PROVE  /\ Configuring!writeForward(from, entries).targets # <<>>
           /\ \A k \in EnabledOf(entries) :
                 entries[k].protocol = "tcp" => Configuring!writeForward(from, entries).forceTCP
           /\ Configuring!writeForward(from, entries).forceTCP =>
                 \E n \in DOMAIN Configuring!Used(entries) : Configuring!Used(entries)[n].protocol = "tcp"
<1> DEFINE u == Configuring!Used(entries)
           w == Configuring!writeForward(from, entries)
<1>1. /\ w.targets = [n \in DOMAIN u |-> Configuring!resolverTarget(u[n])]
      /\ w.forceTCP = (\E n \in DOMAIN u : u[n].protocol = "tcp")
  BY DEF Configuring!writeForward
<1>2. PICK k \in EnabledOf(entries) : TRUE
  OBVIOUS
<1>3. \A j \in EnabledOf(entries) : \E n \in DOMAIN u : u[n] = entries[j]
  BY UsedFacts
<1> HIDE DEF u, w
<1>4. DOMAIN w.targets # {}
  BY <1>1, <1>2, <1>3
<1>5. w.targets # <<>>
  BY <1>4
<1>6. \A j \in EnabledOf(entries) : entries[j].protocol = "tcp" => w.forceTCP
  BY <1>1, <1>3
<1> QED BY <1>1, <1>5, <1>6 DEF u, w

(* What SavedForwards says of the configuration that is saved.             *)
ForwardsFit(cfg) ==
    LET forwards == Configuring!Corefile(cfg).forwards IN
    /\ \A k \in DOMAIN forwards : forwards[k].targets # <<>>
    /\ \A k \in DOMAIN cfg.resolvers :
        cfg.resolvers[k].enabled =>
            (cfg.resolvers[k].protocol = "tcp" <=> forwards[Len(forwards)].forceTCP)

LEMMA ValidForwardsFit ==
    ASSUME NEW cfg, Whole(cfg), Configuring!Validate(cfg) PROVE ForwardsFit(cfg)
<1> DEFINE c == cfg.conditional
           alone == << [address |-> c.resolver, protocol |-> c.protocol, enabled |-> TRUE] >>
           last == Configuring!writeForward(".", cfg.resolvers)
           first == Configuring!writeForward(c.domain, alone)
           forwards == Configuring!Corefile(cfg).forwards
           used == Configuring!Used(cfg.resolvers)
<1>1. forwards = (IF c.enabled THEN << first >> ELSE <<>>) \o << last >>
  BY DEF Configuring!Corefile
<1>2. /\ used # <<>>
      /\ \A j, k \in DOMAIN used : used[j].protocol = "tcp" => used[k].protocol = "tcp"
  BY DEF Configuring!Validate, Configuring!ValidResolvers
<1>3. Indexed(cfg.resolvers)
  BY DEF Whole, GoodList
<1>4. EnabledOf(cfg.resolvers) # {}
  BY <1>2, <1>3, UsedFacts
<1>5. Indexed(alone) /\ EnabledOf(alone) # {}
  <2>1. DOMAIN alone = {1} /\ alone[1].enabled
    OBVIOUS
  <2>2. IsFiniteSet({1})
    BY FS_Singleton
  <2> HIDE DEF alone
  <2>3. 1 \in EnabledOf(alone)
    BY <2>1 DEF EnabledOf
  <2> QED BY <2>1, <2>2, <2>3, SameSets DEF Indexed
<1> HIDE DEF alone
<1>6. first.targets # <<>>
  BY <1>5, ForwardFacts
<1>7. last.targets # <<>>
  BY <1>3, <1>4, ForwardFacts
<1>8. ASSUME NEW k \in EnabledOf(cfg.resolvers) PROVE cfg.resolvers[k].protocol = "tcp" <=> last.forceTCP
  <2>1. cfg.resolvers[k].protocol = "tcp" => last.forceTCP
    BY <1>3, <1>4, ForwardFacts
  <2>2. ASSUME last.forceTCP PROVE cfg.resolvers[k].protocol = "tcp"
    <3>1. PICK n \in DOMAIN used : used[n].protocol = "tcp"
      BY <1>3, <1>4, <2>2, ForwardFacts
    <3>2. PICK m \in DOMAIN used : used[m] = cfg.resolvers[k]
      BY <1>3, UsedFacts
    <3>3. used[m].protocol = "tcp"
      BY <1>2, <3>1
    <3> QED BY <3>2, <3>3
  <2> QED BY <2>1, <2>2
<1> HIDE DEF first, last, used
<1>9. \A k \in DOMAIN forwards : forwards[k] \in {first, last}
  BY <1>1
<1>10. forwards[Len(forwards)] = last
  BY <1>1
<1> HIDE DEF forwards
<1>11. \A k \in DOMAIN cfg.resolvers :
          cfg.resolvers[k].enabled => (cfg.resolvers[k].protocol = "tcp" <=> forwards[Len(forwards)].forceTCP)
  BY <1>8, <1>10 DEF EnabledOf
<1>12. \A k \in DOMAIN forwards : forwards[k].targets # <<>>
  BY <1>6, <1>7, <1>9
<1> QED BY <1>11, <1>12 DEF ForwardsFit, forwards

LEMMA ConfigurationGood ==
    ASSUME Configuring!SettingsAssumption, ConfigurationInv
    PROVE  /\ Configuring!SavedConfigStarts /\ Configuring!AcceptedIsLoaded
           /\ Configuring!NothingSilentlyPending /\ Configuring!CacheFlagIsTrue /\ Configuring!DNSSECKeysAreIndependent
<1>1. Configuring!AcceptedIsLoaded
  BY DEF Configuring!AcceptedIsLoaded, ConfigurationInv, RowGood
<1>2. Configuring!NothingSilentlyPending
  BY DEF Configuring!NothingSilentlyPending, ConfigurationInv, Agrees, IsProcess
<1>3. Configuring!CacheFlagIsTrue
  BY DEF Configuring!CacheFlagIsTrue, ConfigurationInv, IsProcess
<1>4. Configuring!SavedIsValid
  <2> SUFFICES ASSUME granted # {}, NEW k \in DOMAIN Configuring!Corefile(Configuring!Saved).cache
               PROVE  Configuring!Validate(Configuring!Saved) /\ Configuring!Corefile(Configuring!Saved).cache[k] > 0
    BY DEF Configuring!SavedIsValid, ConfigurationInv, RowGood
  <2>1. Configuring!Validate(Configuring!Saved)
    BY DEF ConfigurationInv, RowGood
  <2>2. Configuring!CacheEnabled(Configuring!Saved)
    <3>1. ~Configuring!CacheEnabled(Configuring!Saved) => Configuring!Corefile(Configuring!Saved).cache = <<>>
      BY DEF Configuring!Corefile
    <3> QED BY <3>1
  <2>3. /\ Configuring!EffectiveCacheSuccessTTL(Configuring!Saved) > 0 /\ Configuring!EffectiveCacheDenialTTL(Configuring!Saved) > 0
        /\ Configuring!Saved.capacity >= MinCacheCapacity
    BY <2>1, <2>2 DEF Configuring!Validate, Configuring!ValidCache
  <2>4. Configuring!Corefile(Configuring!Saved).cache =
            << Configuring!EffectiveCacheSuccessTTL(Configuring!Saved), Configuring!EffectiveCacheDenialTTL(Configuring!Saved), Configuring!Saved.capacity >>
    BY <2>2 DEF Configuring!Corefile
  <2>5. Configuring!Saved.capacity \in Int /\ Configuring!Saved.capacity > 0
    <3>1. Whole(Configuring!Saved)
      BY DEF ConfigurationInv, RowGood
    <3>2. Configuring!Saved.capacity \in Int
      BY <3>1 DEF Whole
    <3>3. MinCacheCapacity \in Nat \ {0}
      BY Zenon DEF Configuring!SettingsAssumption
    <3> QED BY <2>3, <3>2, <3>3
  <2> QED BY <2>1, <2>3, <2>4, <2>5
<1>5. Configuring!DNSSECKeysAreIndependent
  BY DEF Configuring!DNSSECKeysAreIndependent, Configuring!ValidDNSSEC, Configuring!dnssecUpdateToConfig
<1>6. Configuring!SavedForwards
  <2> SUFFICES ASSUME granted # {} PROVE ForwardsFit(Configuring!Saved)
    BY DEF Configuring!SavedForwards, ForwardsFit
  <2>1. Whole(Configuring!Saved) /\ Configuring!Validate(Configuring!Saved)
    BY DEF ConfigurationInv, RowGood
  <2> QED BY <2>1, ValidForwardsFit
<1>7. Configuring!SavedWasTried
  BY DEF Configuring!SavedWasTried, ConfigurationInv, TriedGood
<1> QED BY <1>1, <1>2, <1>3, <1>4, <1>5, <1>6, <1>7 DEF Configuring!SavedConfigStarts

-----------------------------------------------------------------------------
(* All of it.                                                              *)

AdministrationInv ==
    /\ SessionsInv
    /\ part = "configuring" => ConfigurationInv
    /\ part = "owning" => OwningInv
    /\ part = "upgrading" => UpgradeInv

LEMMA AdministrationStart == ASSUME AdministrationInit PROVE AdministrationInv
BY AdministrationAssumption, SessionsInit, ConfigurationInit, OwningInit, UpgradeInit
   DEF AdministrationInit, AdministrationInv

LEMMA AdministrationStep ==
    ASSUME AdministrationInv, [AdministrationNext]_administrationVars PROVE AdministrationInv'
<1>1. part' = part
  BY DEF AdministrationNext, administrationVars
<1>2. SessionsInv'
  <2>1. [Next]_vars
    BY DEF AdministrationNext, administrationVars
  <2> QED BY <2>1, SessionsStep DEF AdministrationInv
<1>3. ASSUME part = "configuring" PROVE ConfigurationInv'
  <2>1. [Configuring!Next]_(Configuring!vars)
    BY <1>3 DEF AdministrationNext, administrationVars, configVars, Configuring!vars
  <2> QED BY <1>3, <2>1, AdministrationAssumption, ConfigurationStep DEF AdministrationInv
<1>4. ASSUME part = "owning" PROVE OwningInv'
  <2>1. [Owning!Next]_(Owning!vars)
    BY <1>4 DEF AdministrationNext, administrationVars, accountVars, Owning!vars
  <2> QED BY <1>4, <2>1, AdministrationAssumption, OwningStep DEF AdministrationInv
<1>5. ASSUME part = "upgrading" PROVE UpgradeInv'
  <2>1. [Upgrading!Next]_(Upgrading!vars)
    BY <1>5 DEF AdministrationNext, administrationVars, upgradeVars, Upgrading!vars
  <2> QED BY <1>5, <2>1, AdministrationAssumption, UpgradeStep DEF AdministrationInv
<1> QED BY <1>1, <1>2, <1>3, <1>4, <1>5 DEF AdministrationInv

(* What each part keeps holds in every reachable state: for sessions, that *)
(* the table, the cache, what the handlers know and what the clients were  *)
(* told fit together.                                                      *)
THEOREM InductiveInvariant == AdministrationSpec => []AdministrationInv
BY AdministrationStart, AdministrationStep, PTL DEF AdministrationSpec

(* A session is good from its login to its expiry or its logout, over      *)
(* restarts and the move to a database of its own, except, when it is      *)
(* moved, for its last second; and a logout ends it for good, unless its   *)
(* DELETE failed or some request still held the row it had read, however   *)
(* the requests interleave (validCached, Valid, Delete and                 *)
(* CopyLegacySessions in internal/admin/session.go).                       *)
THEOREM SessionsStayTrue == AdministrationSpec => []SessionsHold
<1>1. AdministrationInv => SessionsHold
  BY SessionsGood DEF AdministrationInv
<1> QED BY <1>1, InductiveInvariant, PTL

(* One setup wins and keeps its password, a revoked key stays revoked, and *)
(* one request is told it did that, whatever handlers run at the same time *)
(* (CreateAdmin, RevokeAPIKey and MarkAPIKeyUsed in internal/admin).       *)
THEOREM AccountsStayTrue == AdministrationSpec => []AccountsHold
<1>1. AdministrationInv => AccountsHold
  BY DEF AdministrationInv, OwningInv, AccountsHold
<1> QED BY <1>1, InductiveInvariant, PTL

(* Processes that start together on a file of any older release, and crash *)
(* anywhere, leave each migration done once or not at all; the counters    *)
(* keep every event and the retention a user chose stands; and no crash    *)
(* leaves a file that cannot be migrated on (applyMigration and            *)
(* auditMigrations in internal/storage/storage.go).                        *)
THEOREM UpgradesLoseNothing == AdministrationSpec => []UpgradesKeepData
<1>1. AdministrationInv => UpgradesKeepData
  BY UpgradeGood DEF AdministrationInv, UpgradesKeepData
<1> QED BY <1>1, InductiveInvariant, PTL

(* What was accepted last is what the next start reads and validates, with *)
(* a usable cache, and forwards that have targets and force TCP on exactly *)
(* the resolvers that asked for it; and CoreDNS or the console's listener  *)
(* refuses of it only what nothing has tried since it was set              *)
(* (InitializeStoreWithSource in internal/config/store.go, Config.Validate *)
(* in internal/config/config.go, Corefile in internal/coredns/corefile.go, *)
(* the configuration handlers in internal/admin/api.go).                   *)
THEOREM AcceptedRestarts == AdministrationSpec => []AcceptedStarts
<1>1. AdministrationInv => AcceptedStarts
  BY AdministrationAssumption, ConfigurationGood DEF AdministrationInv, AcceptedStarts
<1> QED BY <1>1, InductiveInvariant, PTL

(* The process works with what was accepted, or has asked for a restart;   *)
(* its flag of the cache is true of the server block; and the two keys of  *)
(* DNSSEC are never refused alone (the configuration handlers in           *)
(* internal/admin/api.go, dnsRuntimeReloader in internal/app/app.go).      *)
THEOREM ConfigurationHolds == AdministrationSpec => []ProcessFollowsConfig
<1>1. AdministrationInv => ProcessFollowsConfig
  BY AdministrationAssumption, ConfigurationGood DEF AdministrationInv, ProcessFollowsConfig
<1> QED BY <1>1, InductiveInvariant, PTL
=============================================================================
