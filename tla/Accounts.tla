------------------------------ MODULE Accounts ------------------------------
(***************************************************************************)
(* The admin user and the API keys (internal/admin/store.go,               *)
(* api_key_store.go, api_key.go and handleSetup): two tables of the main   *)
(* database, each statement on them atomic, the handlers not.              *)
(***************************************************************************)
EXTENDS Naturals, FiniteSets

CONSTANTS
    Passwords,
    Keys,
    Handlers,  \* handlers that run at the same time
    MaxStarts, \* bounds the requests
    MaxFaults, \* bounds the failures of the database
    None

AccountsAssumption == MaxStarts \in Nat /\ MaxFaults \in Nat /\ None \notin Passwords

VARIABLES
    admin,  \* the password of the row of admin_users
    keys,   \* the rows of api_keys
    run,    \* the handlers
    starts, faults,
    owner,  \* history: the passwords whose setup was answered 201
    revoked \* history: how often a DELETE of the key was answered 204

vars == <<admin, keys, run, starts, faults, owner, revoked>>

Absent == [exists |-> FALSE, disabled |-> FALSE, used |-> FALSE]
Idle == [pc |-> "idle"]

Init ==
    /\ admin = None
    /\ keys = [k \in Keys |-> Absent]
    /\ run = [h \in Handlers |-> Idle]
    /\ starts = 0 /\ faults = 0
    /\ owner = {}
    /\ revoked = [k \in Keys |-> 0]

Done(h, status) == run' = [run EXCEPT ![h] = [pc |-> "idle", status |-> status]]

Begin(h, request) ==
    /\ run[h].pc = "idle"
    /\ starts < MaxStarts
    /\ starts' = starts + 1
    /\ run' = [run EXCEPT ![h] = request]
    /\ UNCHANGED <<faults, admin, keys, owner, revoked>>

(* The database fails: the handler answers 500, or 401 to a key.           *)
Fails(h) ==
    /\ run[h].pc \in {"check", "create", "make", "find", "revoke"}
    /\ faults < MaxFaults
    /\ faults' = faults + 1
    /\ Done(h, 500)
    /\ UNCHANGED <<admin, keys, starts, owner, revoked>>

-----------------------------------------------------------------------------
(* POST /api/setup: is there a user; hash the password; insert the row.    *)
IsSetup(h) ==
    /\ run[h].pc = "check"
    /\ IF admin # None THEN Done(h, 409) ELSE run' = [run EXCEPT ![h].pc = "create"]
    /\ UNCHANGED <<admin, keys, starts, faults, owner, revoked>>

(* INSERT OR IGNORE: no row affected is ErrAlreadySetup.  The user stays   *)
(* when no session can be created after it.                                *)
CreateAdmin(h) ==
    /\ run[h].pc = "create"
    /\ IF admin # None
       THEN Done(h, 409) /\ UNCHANGED <<admin, owner, faults>>
       ELSE /\ admin' = run[h].password
            /\ \/ /\ owner' = owner \cup {run[h].password}
                  /\ Done(h, 201)
                  /\ UNCHANGED faults
               \/ /\ faults < MaxFaults
                  /\ faults' = faults + 1
                  /\ Done(h, 500)
                  /\ UNCHANGED owner
    /\ UNCHANGED <<keys, starts, revoked>>

-----------------------------------------------------------------------------
CreateAPIKey(h) ==
    LET k == run[h].key
    IN  /\ run[h].pc = "make"
        /\ ~keys[k].exists
        /\ keys' = [keys EXCEPT ![k].exists = TRUE]
        /\ Done(h, 201)
        /\ UNCHANGED <<admin, starts, faults, owner, revoked>>

(* A request with a key: the row by its hash, then its time of last use,   *)
(* in a statement of its own whose error is ignored.                       *)
FindValidAPIKeyByHash(h) ==
    LET row == keys[run[h].key]
    IN  /\ run[h].pc = "find"
        /\ IF row.exists /\ ~row.disabled
           THEN run' = [run EXCEPT ![h].pc = "mark", ![h].row = row]
           ELSE Done(h, 401)
        /\ UNCHANGED <<admin, keys, starts, faults, owner, revoked>>

(* Mutant: the row that was read is written back, used.                    *)
MarkAPIKeyUsedWhole(h) ==
    /\ run[h].pc = "mark"
    /\ keys' = [keys EXCEPT ![run[h].key] = [run[h].row EXCEPT !.used = TRUE]]
    /\ Done(h, 200)
    /\ UNCHANGED <<admin, starts, faults, owner, revoked>>

MarkAPIKeyUsed(h) ==
    /\ run[h].pc = "mark"
    /\ \/ keys' = [keys EXCEPT ![run[h].key].used = TRUE] /\ UNCHANGED faults
       \/ faults < MaxFaults /\ faults' = faults + 1 /\ UNCHANGED keys
    /\ Done(h, 200)
    /\ UNCHANGED <<admin, starts, owner, revoked>>

(* UPDATE ... WHERE disabled = 0: no row affected is ErrAPIKeyNotFound.    *)
RevokeAPIKey(h) ==
    LET k == run[h].key
    IN  /\ run[h].pc = "revoke"
        /\ IF keys[k].exists /\ ~keys[k].disabled
           THEN /\ keys' = [keys EXCEPT ![k].disabled = TRUE]
                /\ revoked' = [revoked EXCEPT ![k] = @ + 1]
                /\ Done(h, 204)
           ELSE Done(h, 404) /\ UNCHANGED <<keys, revoked>>
        /\ UNCHANGED <<admin, starts, faults, owner>>

Calls ==
    [pc : {"check"}, password : Passwords]
    \cup [pc : {"make", "revoke"}, key : Keys]
    \cup [pc : {"find"}, key : Keys, row : {Absent}]

Next ==
    \E h \in Handlers :
        \/ \E request \in Calls : Begin(h, request)
        \/ Fails(h) \/ IsSetup(h) \/ CreateAdmin(h) \/ CreateAPIKey(h)
        \/ FindValidAPIKeyByHash(h) \/ MarkAPIKeyUsed(h) \/ RevokeAPIKey(h)

Spec == Init /\ [][Next]_vars

-----------------------------------------------------------------------------
Rows == [exists : BOOLEAN, disabled : BOOLEAN, used : BOOLEAN]

Running ==
    {Idle} \cup [pc : {"idle"}, status : Nat]
    \cup [pc : {"check", "create"}, password : Passwords]
    \cup [pc : {"make", "revoke"}, key : Keys]
    \cup [pc : {"find", "mark"}, key : Keys, row : Rows]

TypeOK ==
    /\ admin \in Passwords \cup {None}
    /\ keys \in [Keys -> Rows]
    /\ run \in [Handlers -> Running]
    /\ starts \in 0 .. MaxStarts /\ faults \in 0 .. MaxFaults
    /\ owner \subseteq Passwords
    /\ revoked \in [Keys -> Nat]

(* Of two setups at the same time one is told it made the admin user, and  *)
(* it is that one's password that is kept.                                 *)
OwnerKeepsPassword == \A p \in owner : admin = p

(* A key that was revoked stays so, whatever requests that found it valid  *)
(* have still to write.                                                    *)
RevokedForGood == \A k \in Keys : revoked[k] > 0 => keys[k].disabled

(* One DELETE of a key is told that it revoked it; the rest are told 404.  *)
RevokedOnce == \A k \in Keys : revoked[k] <= 1

(* Who owns the resolver, and which keys are good, is settled.             *)
AccountsHold == OwnerKeepsPassword /\ RevokedForGood /\ RevokedOnce
=============================================================================
