--------------------------- MODULE Administration ---------------------------
(***************************************************************************)
(* What the administration keeps, in parts that share no state: browser    *)
(* sessions, the configuration, the admin user and API keys, and an audit  *)
(* database that is migrated.  A behaviour is one of one part, and the     *)
(* variables of the others stay as they are; Sessions, which the others    *)
(* stand beside, has its own names.                                        *)
(***************************************************************************)
EXTENDS Sessions, Integers, Sequences

CONSTANTS MaxCacheSuccessTTL, MaxCacheDenialTTL, DefaultCacheDenialTTL,
          DefaultCapacity, MinCacheCapacity, DefaultReadConnections,
          Texts,        \* what may stand for a text of the configuration
          Regexes, Schemed, RRTypes, RCodes, TTLRanges,
          ConfigFiles, OldRows, Updates, Unusable, MaxUpdates, MaxReloadFaults, Down
VARIABLES file, row, running, granted, untried, told, updates, reloadFaults

Configuring == INSTANCE Configuration WITH
    Tokens <- Texts, Files <- ConfigFiles, MaxFaults <- MaxReloadFaults, faults <- reloadFaults

CONSTANTS Passwords, Keys, Handlers, MaxStarts, MaxAccountFaults, None
VARIABLES admin, keys, run, starts, accountFaults, owner, revoked

Owning == INSTANCE Accounts WITH MaxFaults <- MaxAccountFaults, faults <- accountFaults

CONSTANTS Processes, DefaultRetention, MaxOld, MaxEvents, MaxCrashes
VARIABLES db, writer, place, at, work, stale, crashes, events, chosen

Upgrading == INSTANCE Migrations WITH Default <- DefaultRetention, pc <- place, k <- at

VARIABLE part

ASSUME AdministrationAssumption ==
    /\ Configuring!SettingsAssumption /\ Configuring!ConfigurationAssumption
    /\ Owning!AccountsAssumption
    /\ Upgrading!MigrationsAssumption

-----------------------------------------------------------------------------
configVars == <<file, row, running, granted, untried, told, updates, reloadFaults>>
accountVars == <<admin, keys, run, starts, accountFaults, owner, revoked>>
upgradeVars == <<db, writer, place, at, work, stale, crashes, events, chosen>>
administrationVars == <<part, configVars, vars, accountVars, upgradeVars>>

AdministrationInit ==
    /\ part \in {"configuring", "browsing", "owning", "upgrading"}
    /\ Configuring!Init
    /\ part # "configuring" => file = (CHOOSE f \in ConfigFiles : TRUE) /\ row = {}
    /\ Init
    /\ Owning!Init
    /\ Upgrading!Init
    /\ part # "upgrading" => db.applied = {} /\ db.rows = 0 /\ events = 0

AdministrationNext ==
    /\ UNCHANGED part
    /\ \/ part = "configuring" /\ Configuring!Next /\ UNCHANGED <<vars, accountVars, upgradeVars>>
       \/ part = "browsing" /\ Next /\ UNCHANGED <<configVars, accountVars, upgradeVars>>
       \/ part = "owning" /\ Owning!Next /\ UNCHANGED <<configVars, vars, upgradeVars>>
       \/ part = "upgrading" /\ Upgrading!Next /\ UNCHANGED <<configVars, vars, accountVars>>

AdministrationSpec == AdministrationInit /\ [][AdministrationNext]_administrationVars

-----------------------------------------------------------------------------
(* Whatever sequence of partial updates has been accepted, the next start  *)
(* reads back what was accepted, Validate accepts it, and CoreDNS refuses  *)
(* nothing of it but what a running process could not try.                 *)
AcceptedStarts ==
    part = "configuring" => Configuring!SavedConfigStarts /\ Configuring!AcceptedIsLoaded

(* What the process works with is what has been saved, or the              *)
(* administrator has been told to restart it; and the keys of DNSSEC can   *)
(* be sent alone.                                                          *)
ProcessFollowsConfig ==
    part = "configuring" =>
        /\ Configuring!NothingSilentlyPending /\ Configuring!CacheFlagIsTrue
        /\ Configuring!DNSSECKeysAreIndependent

(* One setup wins, and keeps its password; a revoked key stays revoked,    *)
(* and one request is told it did that.                                    *)
AccountsHold ==
    part = "owning" => Owning!TypeOK /\ Owning!AccountsHold

(* Whenever processes crash while they migrate one file, each migration is *)
(* done once or not at all, what the file counted survives, and it can be  *)
(* opened again.                                                           *)
UpgradesKeepData ==
    part = "upgrading" => Upgrading!TypeOK /\ Upgrading!UpgradesKeepData
=============================================================================
