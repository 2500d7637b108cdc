------------------------------ MODULE Shutdown ------------------------------
(***************************************************************************)
(* The end of the process (Serve of internal/app/app.go): a start that     *)
(* fails, an admin server that fails, or a signal; the waits of the        *)
(* shutdown, which share a deadline of ten seconds; and the deferred       *)
(* closes, each with five seconds of its own.  Around it, what may be      *)
(* under way and may hang: the refresh worker, a handler, a loader, a      *)
(* query, and the mutex of the DNS server (internal/coredns/server.go).    *)
(*                                                                         *)
(* One of each is enough: they share nothing but that mutex.               *)
(***************************************************************************)
EXTENDS Integers, Sequences

VARIABLES
    main,      \* what Serve is at; "closing" with the number of closes done
    cause,     \* why it ends
    closes,
    late,      \* shutdownCtx is done
    gaveUp,    \* a deferred Close ran into its own deadline
    stopFailed,\* the admin or the DNS server has stopped with an error
    worker, jobsCtx,     \* the refresh worker, and whether it is cancelled
    loader, pluginCtx,   \* a plugin loader, and whether it is cancelled
    handler, adminOpen,  \* a handler, and whether the admin server takes more
    query, dns,          \* a query, and the DNS server
    mutex,     \* who holds Server.mu
    lost       \* history: a query recorded to a closed sink

waits == <<late, gaveUp, stopFailed>>
running == <<worker, jobsCtx, loader, pluginCtx>>
admin == <<handler, adminOpen>>
resolver == <<query, dns, lost>>
vars == <<main, cause, closes, waits, running, admin, resolver, mutex>>

Init ==
    /\ main = "starting" /\ cause = "none" /\ closes = 0
    /\ late = FALSE /\ gaveUp = FALSE /\ stopFailed = FALSE
    /\ worker = "idle" /\ jobsCtx = TRUE
    /\ loader = "none" /\ pluginCtx = TRUE
    /\ handler = "none" /\ adminOpen = FALSE
    /\ query = "none" /\ dns = "down" /\ lost = FALSE
    /\ mutex = "free"

(* Mutants: the DNS server is stopped first; it is not stopped.            *)
PhasesDNSFirst == <<"worker", "dns", "admin", "loaders">>
PhasesWithoutDNS == <<"worker", "admin", "loaders">>

Phases == <<"worker", "admin", "dns", "loaders">>

After(phase) ==
    LET i == CHOOSE j \in DOMAIN Phases : Phases[j] = phase
    IN  IF i < Len(Phases) THEN Phases[i + 1] ELSE "closing"

(* The deferred calls, last first.                                         *)
Deferred == <<"plugins", "sessions", "worker", "jobs", "sink", "audit", "main">>

Closed(x) == \E i \in 1..closes : Deferred[i] = x

-----------------------------------------------------------------------------
(* The worker runs from its creation on, before the listeners.             *)
Listen ==
    /\ main = "starting"
    /\ main' = "serving" /\ adminOpen' = TRUE /\ dns' = "up" /\ loader' = "loading"
    /\ UNCHANGED <<cause, closes, waits, worker, jobsCtx, pluginCtx, handler, query, lost, mutex>>

(* A port that is taken, or a Corefile that does not start.                *)
ListenFails ==
    /\ main = "starting"
    /\ main' = "closing" /\ cause' = "start"
    /\ UNCHANGED <<closes, waits, running, admin, resolver, mutex>>

(* Serve of the admin server returns: nothing is waited for.               *)
AdminFails ==
    /\ main = "serving"
    /\ main' = "closing" /\ cause' = "admin" /\ adminOpen' = FALSE
    /\ UNCHANGED <<closes, waits, running, handler, resolver, mutex>>

(* The signal cancels the plugins, and Close the worker.                   *)
Signal ==
    /\ main = "serving"
    /\ main' = Phases[1] /\ cause' = "signal"
    /\ pluginCtx' = FALSE /\ jobsCtx' = FALSE
    /\ UNCHANGED <<closes, waits, worker, loader, admin, resolver, mutex>>

Deadline ==
    /\ main \in {"worker", "admin", "dns", "loaders"}
    /\ late' = TRUE
    /\ UNCHANGED <<main, cause, closes, gaveUp, stopFailed, running, admin, resolver, mutex>>

(* A worker that does not stop is only worth a warning.                    *)
WaitForWorker ==
    /\ main = "worker"
    /\ worker = "stopped" \/ late
    /\ main' = After("worker")
    /\ UNCHANGED <<cause, closes, waits, running, admin, resolver, mutex>>

(* Shutdown of the admin server: no new handler, then none at all.  What   *)
(* its listener says when it is closed it returns last.                    *)
ShutdownAdmin ==
    /\ main = "admin"
    /\ \/ /\ adminOpen /\ adminOpen' = FALSE
          /\ UNCHANGED <<main, stopFailed>>
       \/ /\ ~adminOpen /\ handler = "none"
          /\ main' = After("admin")
          /\ UNCHANGED <<adminOpen, stopFailed>>
       \/ /\ ~adminOpen /\ handler # "none" /\ late
          /\ main' = "closing"
          /\ UNCHANGED <<adminOpen, stopFailed>>
       \/ /\ ~adminOpen /\ handler = "none"
          /\ main' = "closing" /\ stopFailed' = TRUE
          /\ UNCHANGED adminOpen
    /\ UNCHANGED <<cause, closes, late, gaveUp, running, handler, resolver, mutex>>

(* Server.Stop waits for the mutex, whatever the deadline, and then until  *)
(* the instance has stopped or the deadline has passed.  An instance that  *)
(* reports an error may serve on.                                          *)
StopDNS ==
    /\ main = "dns"
    /\ \/ /\ mutex = "free"
          /\ mutex' = "main" /\ dns' = "stopping"
          /\ UNCHANGED <<main, stopFailed>>
       \/ /\ mutex = "main" /\ dns = "down"
          /\ mutex' = "free" /\ main' = After("dns")
          /\ UNCHANGED <<dns, stopFailed>>
       \/ /\ mutex = "main" /\ late
          /\ mutex' = "free" /\ main' = "closing"
          /\ UNCHANGED <<dns, stopFailed>>
       \/ /\ mutex = "main"
          /\ mutex' = "free" /\ main' = "closing" /\ stopFailed' = TRUE
          /\ dns' \in {dns} \cup (IF dns = "stopping" THEN {"up"} ELSE {})
    /\ UNCHANGED <<cause, closes, late, gaveUp, running, admin, query, lost>>

WaitForLoaders ==
    /\ main = "loaders"
    /\ loader = "done" \/ late
    /\ main' = After("loaders")
    /\ UNCHANGED <<cause, closes, waits, running, admin, resolver, mutex>>

(* The next deferred call.  RefreshJobs.Close cancels the worker and waits *)
(* for it, five seconds at most.                                           *)
Close ==
    /\ main = "closing" /\ closes < Len(Deferred)
    /\ closes' = closes + 1
    /\ IF Deferred[closes + 1] = "plugins" THEN pluginCtx' = FALSE ELSE UNCHANGED pluginCtx
    /\ IF Deferred[closes + 1] = "worker"
       THEN jobsCtx' = FALSE /\ gaveUp' = (worker # "stopped")
       ELSE UNCHANGED <<jobsCtx, gaveUp>>
    /\ UNCHANGED <<main, cause, late, stopFailed, worker, loader, admin, resolver, mutex>>

Exit ==
    /\ main = "closing" /\ closes = Len(Deferred)
    /\ main' = "exited"
    /\ UNCHANGED <<cause, closes, waits, running, admin, resolver, mutex>>

Serve ==
    \/ Listen \/ ListenFails
    \/ WaitForWorker \/ ShutdownAdmin \/ StopDNS \/ WaitForLoaders
    \/ Close \/ Exit

-----------------------------------------------------------------------------
(* The others, none of which has to go on.                                 *)
Work ==
    /\ worker' = CASE worker = "idle" -> IF jobsCtx THEN "busy" ELSE "stopped"
                   [] worker = "busy" -> IF jobsCtx THEN "idle" ELSE "stopped"
                   [] OTHER -> worker
    /\ UNCHANGED <<jobsCtx, loader, pluginCtx, admin, resolver, mutex>>

Load ==
    /\ loader = "loading" /\ loader' = "done"
    /\ UNCHANGED <<worker, jobsCtx, pluginCtx, admin, resolver, mutex>>

(* A handler that changes the configuration reloads the DNS server.        *)
Handle ==
    /\ \/ /\ handler = "none" /\ adminOpen
          /\ handler' = "active" /\ UNCHANGED mutex
       \/ /\ handler = "active"
          /\ \/ handler' = "none" /\ UNCHANGED mutex
             \/ mutex = "free" /\ mutex' = "handler" /\ handler' = "reloading"
       \/ /\ handler = "reloading"
          /\ mutex' = "free" /\ handler' = "active"
    /\ UNCHANGED <<running, adminOpen, resolver>>

(* A query is recorded as it is answered; Record drops it when the sink is *)
(* closed.  The stop of an instance waits for the queries under way.       *)
Resolve ==
    /\ \/ /\ query = "none" /\ dns = "up"
          /\ query' = "under_way" /\ UNCHANGED <<dns, lost>>
       \/ /\ query = "under_way"
          /\ query' = "none" /\ lost' = (lost \/ Closed("sink")) /\ UNCHANGED dns
       \/ /\ dns = "stopping" /\ query = "none"
          /\ dns' = "down" /\ UNCHANGED <<query, lost>>
    /\ UNCHANGED <<running, admin, mutex>>

Others ==
    /\ main # "exited"
    /\ Work \/ Load \/ Handle \/ Resolve
    /\ UNCHANGED <<main, cause, closes, waits>>

Next == AdminFails \/ Signal \/ Deadline \/ Serve \/ Others

Spec == Init /\ [][Next]_vars

(* The deadline comes, and Serve goes on when it can.                      *)
FairSpec == Spec /\ WF_vars(Deadline) /\ WF_vars(Serve)

-----------------------------------------------------------------------------
TypeOK ==
    /\ main \in {"starting", "serving", "worker", "admin", "dns", "loaders", "closing", "exited"}
    /\ cause \in {"none", "start", "admin", "signal"}
    /\ closes \in 0 .. Len(Deferred)
    /\ late \in BOOLEAN /\ gaveUp \in BOOLEAN /\ stopFailed \in BOOLEAN
    /\ worker \in {"idle", "busy", "stopped"} /\ jobsCtx \in BOOLEAN
    /\ loader \in {"none", "loading", "done"} /\ pluginCtx \in BOOLEAN
    /\ handler \in {"none", "active", "reloading"} /\ adminOpen \in BOOLEAN
    /\ query \in {"none", "under_way"} /\ dns \in {"down", "up", "stopping"} /\ lost \in BOOLEAN
    /\ mutex \in {"free", "main", "handler"}

(* A shutdown ends, whatever hangs: the worker, a loader, a query, or a    *)
(* handler with the mutex that Server.Stop takes without a deadline.       *)
ShutdownEnds == cause # "none" ~> main = "exited"

(* After a signal and in time, nothing of the process is under way when    *)
(* the main database closes; but a server that stops with an error ends    *)
(* the shutdown at once, and the loaders are not waited for.               *)
NothingRunsOnClosed ==
    Closed("main") /\ cause = "signal" /\ ~late =>
        worker = "stopped" /\ handler = "none" /\ (stopFailed \/ loader = "done")

(* After a signal, in time and if both servers stop without an error, each *)
(* query answered is in the log: the DNS server is down before the sink    *)
(* closes.                                                                 *)
AnsweredIsRecorded == cause = "signal" /\ ~late /\ ~stopFailed => ~lost

(* However the process ends, the worker has its tables until it stops, or  *)
(* its five seconds are over.                                              *)
WorkerKeepsItsTables == Closed("jobs") => worker = "stopped" \/ gaveUp

(* Nothing uses what a shutdown has closed, and every query answered is in *)
(* the log, if a signal asked for it, nothing hung past the deadline and   *)
(* both servers stopped without an error.  A process that ends because its *)
(* admin server failed waits for nothing, and loaders and queries go on    *)
(* over closed databases: what holds then is that the worker has its own.  *)
ShutdownOrdered == NothingRunsOnClosed /\ AnsweredIsRecorded /\ WorkerKeepsItsTables
=============================================================================
