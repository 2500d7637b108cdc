----------------------------- MODULE Answering -----------------------------
(***************************************************************************)
(* What stands between a client and its answer, in parts that share no     *)
(* state: custom records edited by overlapping requests, tables of aliases *)
(* that answers are looked up in, a query on its way through the plugin,   *)
(* the DNSSEC plugin before its cache, and the pause.  A behaviour is one  *)
(* of one part, and the variables of the others stay as they are.          *)
(***************************************************************************)
EXTENDS Sequences

CONSTANTS Names, Malformed, PtrNames, IPv4, IPv6, DefaultTTL, MaxTTL, maxCNAMEChain, Loader,
          Editors,      \* the requests that edit records
          Inputs, MaxRows, MaxEdits, MaxReadFaults,
          ChainTables   \* what the loader finds where there are aliases
VARIABLES records, nextId, resolver, place, own, read, edits, readFaults, overlaps

Records == INSTANCE LocalDNS WITH
    Requests <- Editors, InitialTables <- {<<>>} \cup ChainTables, MaxFaults <- MaxReadFaults,
    table <- records, pc <- place, loaded <- read, faults <- readFaults

CONSTANTS ClientQueries, MaxChanges
VARIABLES stored, query, wrote, events, seen, changes

Plugin == INSTANCE ServeDNS WITH Queries <- ClientQueries, runtime <- stored

CONSTANTS Zones, CacheEnabled, CacheSize, NoMsg
VARIABLES zone, cache, question, reply

Signed == INSTANCE DnssecUpstream WITH query <- question

CONSTANTS Half, ClockSecond, AskedSeconds, Ends, MaxClock, MaxStarts, None
VARIABLES clock, savedPause, heldPause, parsed, told, promised, starts

Pausing == INSTANCE PauseRequest WITH
    Second <- ClockSecond, Durations <- AskedSeconds, MaxTime <- MaxClock, MaxRestarts <- MaxStarts,
    now <- clock, saved <- savedPause, runtime <- heldPause, request <- parsed, answer <- told,
    restarts <- starts

VARIABLE part

ASSUME AnsweringAssumption ==
    /\ Records!LocalRecordsAssumption /\ Records!LocalDNSAssumption
    /\ Plugin!ServeDNSAssumption
    /\ Signed!DnssecUpstreamAssumption
    /\ Pausing!PauseRequestAssumption

-----------------------------------------------------------------------------
recordVars == <<records, nextId, resolver, place, own, read, edits, readFaults, overlaps>>
pluginVars == <<stored, query, wrote, events, seen, changes>>
signedVars == <<zone, cache, question, reply>>
pauseVars == <<clock, savedPause, heldPause, parsed, told, promised, starts>>
answeringVars == <<part, recordVars, pluginVars, signedVars, pauseVars>>

AnsweringInit ==
    /\ part \in {"edits", "chains", "plugin", "signed", "pausing"}
    /\ Records!Init
    /\ IF part = "chains" THEN records \in ChainTables ELSE records = <<>>
    /\ Plugin!Init
    /\ part # "plugin" => stored.response = "refused" /\ ~stored.paused /\ stored.cache
    /\ Signed!Init
    /\ part # "signed" => zone = CHOOSE z \in Zones : TRUE
    /\ Pausing!Init

AnsweringNext ==
    /\ UNCHANGED part
    /\ \/ part = "edits" /\ Records!Next /\ UNCHANGED <<pluginVars, signedVars, pauseVars>>
       \/ /\ part = "chains" /\ Records!Next /\ UNCHANGED <<pluginVars, signedVars, pauseVars>>
          /\ UNCHANGED <<edits, readFaults>>
       \/ part = "plugin" /\ Plugin!Next /\ UNCHANGED <<recordVars, signedVars, pauseVars>>
       \/ part = "signed" /\ Signed!Next /\ UNCHANGED <<recordVars, pluginVars, pauseVars>>
       \/ part = "pausing" /\ Pausing!Next /\ UNCHANGED <<recordVars, pluginVars, signedVars>>

AnsweringSpec == AnsweringInit /\ [][AnsweringNext]_answeringVars

-----------------------------------------------------------------------------
(* What is saved can be served, and between requests what is enabled is    *)
(* served, unless a read failed or two reloads overlapped.                 *)
CustomRecordsServed ==
    part = "edits" => Records!TypeOK /\ Records!QuietRuntimeIsCurrent

(* Every answer from custom records is a chain from the name that was      *)
(* asked for, and finds the addresses within its reach.                    *)
ChainsAnswer ==
    part = "chains" => Records!AnswersAreChains /\ Records!AddressesInReach

(* A query is answered once, from runtimes there were during it, and the   *)
(* audit event tells how.                                                  *)
QueriesAnswered ==
    part = "plugin" => Plugin!TypeOK /\ Plugin!QueriesAnswered

(* Whatever another client was answered before it, a client that asked for *)
(* no DNSSEC sees none, one that set DO gets the signatures of what it is  *)
(* told is authentic, and none gets data that failed validation.  AD is    *)
(* given to those who ask for it, except that a client that asks with AD   *)
(* and not DO gets what is cached for one that asked with neither.         *)
DNSSECKeptApart ==
    part = "signed" =>
        /\ Signed!BasicClientSeesNone /\ Signed!ProofsForThoseWhoAsk /\ Signed!BogusStaysOut
        /\ Signed!ADForThoseWhoAsk

(* A pause lasts as long as was asked for, over restarts, and is reported  *)
(* so, to a second; one whose duration wraps, never longer.                *)
PauseLasts ==
    part = "pausing" =>
        /\ Pausing!PausedUntilExpiry /\ Pausing!NeverPausedTooLong /\ Pausing!RemainingIsHonest
=============================================================================
