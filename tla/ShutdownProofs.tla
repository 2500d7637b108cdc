--------------------------- MODULE ShutdownProofs ---------------------------
(***************************************************************************)
(* Proofs about the end of the process (Shutdown): however its steps and   *)
(* those of what is under way interleave.                                  *)
(***************************************************************************)
EXTENDS Shutdown, TLAPS

-----------------------------------------------------------------------------
(* The order of the waits and of the deferred calls.                       *)

LEMMA Order ==
    /\ Phases[1] = "worker" /\ After("worker") = "admin" /\ After("admin") = "dns"
    /\ After("dns") = "loaders" /\ After("loaders") = "closing"
<1>1. /\ Len(Phases) = 4
      /\ Phases[1] = "worker" /\ Phases[2] = "admin" /\ Phases[3] = "dns" /\ Phases[4] = "loaders"
      /\ DOMAIN Phases = 1 .. 4
  BY DEF Phases
<1> DEFINE place(phase) == CHOOSE j \in DOMAIN Phases : Phases[j] = phase
<1>2. place("worker") = 1 /\ place("admin") = 2 /\ place("dns") = 3 /\ place("loaders") = 4
  BY <1>1
<1> QED BY <1>1, <1>2 DEF After

LEMMA Closing ==
    ASSUME closes \in 0 .. Len(Deferred)
    PROVE  /\ Len(Deferred) = 7
           /\ Closed("main") => closes = 7
           /\ Closed("sink") => closes >= 5
           /\ Closed("jobs") => closes >= 4
           /\ closes < 7 => (Deferred[closes + 1] = "worker" <=> closes = 2)
BY DEF Closed, Deferred

-----------------------------------------------------------------------------
(* The inductive invariant.                                                *)

(* Nothing is closed before Serve has a cause to end, and only then.       *)
CauseInv ==
    /\ cause = "none" <=> main \in {"starting", "serving"}
    /\ main \notin {"closing", "exited"} => closes = 0

(* The worker is waited for before its store is closed.                    *)
WorkerInv == closes >= 3 => worker = "stopped" \/ gaveUp

(* An instance stops when its queries are over.                            *)
InstanceInv == dns = "down" => query = "none"

(* After a signal and in time, each phase leaves behind what it waits for, *)
(* and a phase that fails is the last.                                     *)
PhaseInv ==
    cause = "signal" /\ ~late =>
        /\ main \in {"admin", "dns", "loaders", "closing", "exited"} => worker = "stopped"
        /\ main \in {"dns", "loaders", "closing", "exited"} => ~adminOpen /\ handler = "none"
        /\ ~stopFailed =>
              /\ main \in {"loaders", "closing", "exited"} => dns = "down"
              /\ main \in {"closing", "exited"} => loader = "done"

(* Only a query that outlives the sink is lost.                            *)
LostInv == cause = "none" \/ (cause = "signal" /\ ~late /\ ~stopFailed) => ~lost

IInv == TypeOK /\ CauseInv /\ WorkerInv /\ InstanceInv /\ PhaseInv /\ LostInv

LEMMA Seven == Len(Deferred) = 7
BY DEF Deferred

(* TypeOK in two parts, for the provers: the flags, and the rest.          *)
Flags ==
    /\ late \in BOOLEAN /\ gaveUp \in BOOLEAN /\ stopFailed \in BOOLEAN /\ jobsCtx \in BOOLEAN
    /\ pluginCtx \in BOOLEAN /\ adminOpen \in BOOLEAN /\ lost \in BOOLEAN

States ==
    /\ main \in {"starting", "serving", "worker", "admin", "dns", "loaders", "closing", "exited"}
    /\ cause \in {"none", "start", "admin", "signal"}
    /\ closes \in 0 .. 7
    /\ worker \in {"idle", "busy", "stopped"} /\ loader \in {"none", "loading", "done"}
    /\ handler \in {"none", "active", "reloading"}
    /\ query \in {"none", "under_way"} /\ dns \in {"down", "up", "stopping"}
    /\ mutex \in {"free", "main", "handler"}

LEMMA Types == TypeOK <=> Flags /\ States
BY Seven DEF TypeOK, Flags, States

LEMMA TypesNext == TypeOK' <=> Flags' /\ States'
BY Types, PTL

LEMMA InitKeeps == ASSUME Init PROVE IInv
<1>1. Flags
  BY Zenon DEF Init, Flags
<1>2. States
  BY DEF Init, States
<1>3. CauseInv /\ WorkerInv /\ InstanceInv /\ PhaseInv /\ LostInv
  BY DEF Init, CauseInv, WorkerInv, InstanceInv, PhaseInv, LostInv
<1> QED BY <1>1, <1>2, <1>3, Types DEF IInv

-----------------------------------------------------------------------------
(* Each action keeps it.                                                   *)

LEMMA StartKeeps == ASSUME IInv, Listen \/ ListenFails PROVE IInv'
<1>0. Flags /\ States
  BY Types DEF IInv
<1>1. CASE Listen
  <2>1. Flags'
    BY <1>0, <1>1, Zenon DEF Listen, Flags, waits
  <2>2. States'
    BY <1>0, <1>1 DEF Listen, States, waits
  <2>3. CauseInv' /\ WorkerInv' /\ InstanceInv'
    BY <1>0, <1>1 DEF Listen, IInv, States, CauseInv, WorkerInv, InstanceInv, waits
  <2>4. PhaseInv' /\ LostInv'
    BY <1>0, <1>1 DEF Listen, IInv, Flags, States, CauseInv, PhaseInv, LostInv, waits
  <2> QED BY <2>1, <2>2, <2>3, <2>4, TypesNext DEF IInv
<1>2. CASE ListenFails
  <2>1. Flags'
    BY <1>0, <1>2, Zenon DEF ListenFails, Flags, waits, running, admin, resolver
  <2>2. States'
    BY <1>0, <1>2 DEF ListenFails, States, waits, running, admin, resolver
  <2>3. CauseInv' /\ WorkerInv' /\ InstanceInv'
    BY <1>0, <1>2 DEF ListenFails, IInv, States, CauseInv, WorkerInv, InstanceInv, waits, running, admin, resolver
  <2>4. PhaseInv' /\ LostInv'
    BY <1>0, <1>2 DEF ListenFails, IInv, Flags, States, CauseInv, PhaseInv, LostInv, waits, running, admin, resolver
  <2> QED BY <2>1, <2>2, <2>3, <2>4, TypesNext DEF IInv
<1> QED BY <1>1, <1>2

LEMMA CauseKeeps == ASSUME IInv, AdminFails \/ Signal \/ Deadline PROVE IInv'
<1>0. Flags /\ States
  BY Types DEF IInv
<1>1. CASE AdminFails
  <2>1. Flags'
    BY <1>0, <1>1, Zenon DEF AdminFails, Flags, waits, running, resolver
  <2>2. States'
    BY Order, <1>0, <1>1 DEF AdminFails, States, waits, running, resolver
  <2>3. CauseInv' /\ WorkerInv' /\ InstanceInv'
    BY Order, <1>0, <1>1 DEF AdminFails, IInv, States, CauseInv, WorkerInv, InstanceInv, waits, running, resolver
  <2>4. PhaseInv' /\ LostInv'
    BY Order, <1>0, <1>1 DEF AdminFails, IInv, Flags, States, CauseInv, PhaseInv, LostInv, waits, running, resolver
  <2> QED BY <2>1, <2>2, <2>3, <2>4, TypesNext DEF IInv
<1>2. CASE Signal
  <2>1. Flags'
    BY <1>0, <1>2, Zenon DEF Signal, Flags, waits, admin, resolver
  <2>2. States'
    BY Order, <1>0, <1>2 DEF Signal, States, waits, admin, resolver
  <2>3. CauseInv' /\ WorkerInv' /\ InstanceInv'
    BY Order, <1>0, <1>2 DEF Signal, IInv, States, CauseInv, WorkerInv, InstanceInv, waits, admin, resolver
  <2>4. PhaseInv' /\ LostInv'
    BY Order, <1>0, <1>2 DEF Signal, IInv, Flags, States, CauseInv, PhaseInv, LostInv, waits, admin, resolver
  <2> QED BY <2>1, <2>2, <2>3, <2>4, TypesNext DEF IInv
<1>3. CASE Deadline
  <2>1. Flags'
    BY <1>0, <1>3, Zenon DEF Deadline, Flags, running, admin, resolver
  <2>2. States'
    BY Order, <1>0, <1>3 DEF Deadline, States, running, admin, resolver
  <2>3. CauseInv' /\ WorkerInv' /\ InstanceInv'
    BY Order, <1>0, <1>3 DEF Deadline, IInv, States, CauseInv, WorkerInv, InstanceInv, running, admin, resolver
  <2>4. PhaseInv' /\ LostInv'
    BY Order, <1>0, <1>3 DEF Deadline, IInv, Flags, States, CauseInv, PhaseInv, LostInv, running, admin, resolver
  <2> QED BY <2>1, <2>2, <2>3, <2>4, TypesNext DEF IInv
<1> QED BY <1>1, <1>2, <1>3

LEMMA WaitsKeep == ASSUME IInv, WaitForWorker \/ ShutdownAdmin \/ WaitForLoaders PROVE IInv'
<1>0. Flags /\ States
  BY Types DEF IInv
<1>1. CASE WaitForWorker
  <2>1. Flags'
    BY <1>0, <1>1, Zenon DEF WaitForWorker, Flags, waits, running, admin, resolver
  <2>2. States'
    BY Order, <1>0, <1>1 DEF WaitForWorker, States, waits, running, admin, resolver
  <2>3. CauseInv' /\ WorkerInv' /\ InstanceInv'
    BY Order, <1>0, <1>1 DEF WaitForWorker, IInv, States, CauseInv, WorkerInv, InstanceInv, waits, running, admin, resolver
  <2>4. PhaseInv' /\ LostInv'
    BY Order, <1>0, <1>1 DEF WaitForWorker, IInv, Flags, States, CauseInv, PhaseInv, LostInv, waits, running, admin, resolver
  <2> QED BY <2>1, <2>2, <2>3, <2>4, TypesNext DEF IInv
<1>2. CASE ShutdownAdmin
  <2>1. Flags'
    BY <1>0, <1>2, Zenon DEF ShutdownAdmin, Flags, waits, running, resolver
  <2>2. States'
    BY Order, <1>0, <1>2 DEF ShutdownAdmin, States, waits, running, resolver
  <2>3. CauseInv' /\ WorkerInv' /\ InstanceInv'
    BY Order, <1>0, <1>2 DEF ShutdownAdmin, IInv, States, CauseInv, WorkerInv, InstanceInv, waits, running, resolver
  <2>4. PhaseInv' /\ LostInv'
    BY Order, <1>0, <1>2 DEF ShutdownAdmin, IInv, Flags, States, CauseInv, PhaseInv, LostInv, waits, running, resolver
  <2> QED BY <2>1, <2>2, <2>3, <2>4, TypesNext DEF IInv
<1>3. CASE WaitForLoaders
  <2>1. Flags'
    BY <1>0, <1>3, Zenon DEF WaitForLoaders, Flags, waits, running, admin, resolver
  <2>2. States'
    BY Order, <1>0, <1>3 DEF WaitForLoaders, States, waits, running, admin, resolver
  <2>3. CauseInv' /\ WorkerInv' /\ InstanceInv'
    BY Order, <1>0, <1>3 DEF WaitForLoaders, IInv, States, CauseInv, WorkerInv, InstanceInv, waits, running, admin, resolver
  <2>4. PhaseInv' /\ LostInv'
    BY Order, <1>0, <1>3 DEF WaitForLoaders, IInv, Flags, States, CauseInv, PhaseInv, LostInv, waits, running, admin, resolver
  <2> QED BY <2>1, <2>2, <2>3, <2>4, TypesNext DEF IInv
<1> QED BY <1>1, <1>2, <1>3

LEMMA StopDNSKeeps == ASSUME IInv, StopDNS PROVE IInv'
<1>0. Flags /\ States
  BY Types DEF IInv
<1>1. main = "dns" /\ UNCHANGED <<cause, closes, late, gaveUp, running, admin, query, lost>>
  BY DEF StopDNS
<1>2. Flags'
  BY <1>0, <1>1, Zenon DEF StopDNS, Flags, running, admin
<1>3. States' /\ main' \in {"dns", "loaders", "closing"}
  BY Order, <1>0, <1>1 DEF StopDNS, States, running, admin
<1>4. CauseInv' /\ WorkerInv' /\ InstanceInv'
  BY Order, <1>0, <1>1 DEF StopDNS, IInv, States, CauseInv, WorkerInv, InstanceInv, running, admin
<1>5. PhaseInv'
  BY Order, <1>0, <1>1 DEF StopDNS, IInv, Flags, States, CauseInv, PhaseInv, running, admin
<1>6. LostInv'
  BY Order, <1>0, <1>1 DEF StopDNS, IInv, Flags, States, CauseInv, LostInv, running, admin
<1> QED BY <1>2, <1>3, <1>4, <1>5, <1>6, TypesNext DEF IInv

LEMMA CloseKeeps == ASSUME IInv, Close \/ Exit PROVE IInv'
<1>1. Flags /\ States /\ Len(Deferred) = 7 /\ closes \in 0 .. Len(Deferred)
  BY Types, Seven DEF IInv, States
<1>2. CASE Close
  <2>1. closes' = closes + 1 /\ closes < 7
    BY <1>1, <1>2 DEF Close
  <2>2. WorkerInv'
    <3>1. worker' = worker
      BY <1>2 DEF Close
    <3>2. CASE closes = 2
      <4>1. gaveUp' = (worker # "stopped")
        BY <1>1, <1>2, <3>2, Closing DEF Close
      <4> QED BY <3>1, <4>1, Zenon DEF WorkerInv
    <3>3. CASE closes # 2
      <4>1. gaveUp' = gaveUp
        BY <1>1, <1>2, <2>1, <3>3, Closing DEF Close
      <4>2. closes' >= 3 => closes >= 3
        BY <1>1, <2>1, <3>3
      <4> QED BY <3>1, <4>1, <4>2, Zenon DEF IInv, WorkerInv
    <3> QED BY <3>2, <3>3
  <2>3. TypeOK'
    <3>1. Flags'
      BY <1>1, <1>2, Zenon DEF Close, Flags, admin, resolver
    <3>2. States'
      BY <1>1, <1>2, <2>1 DEF Close, States, admin, resolver
    <3> QED BY <3>1, <3>2, TypesNext
  <2>4. CauseInv' /\ InstanceInv' /\ PhaseInv' /\ LostInv'
    BY <1>2 DEF Close, IInv, CauseInv, InstanceInv, PhaseInv, LostInv, admin, resolver
  <2> QED BY <2>2, <2>3, <2>4 DEF IInv
<1>3. CASE Exit
  BY <1>3 DEF Exit, IInv, TypeOK, CauseInv, WorkerInv, InstanceInv, PhaseInv, LostInv,
     waits, running, admin, resolver
<1> QED BY <1>2, <1>3

LEMMA OthersKeep == ASSUME IInv, Others PROVE IInv'
<1>1. closes \in 0 .. Len(Deferred)
  BY DEF IInv, TypeOK
<1>2. UNCHANGED <<main, cause, closes, late, gaveUp, stopFailed>>
  BY DEF Others, waits
<1>3. CASE Work
  BY <1>2, <1>3 DEF Work, IInv, TypeOK, CauseInv, WorkerInv, InstanceInv, PhaseInv, LostInv,
     admin, resolver
<1>4. CASE Load
  BY <1>2, <1>4 DEF Load, IInv, TypeOK, CauseInv, WorkerInv, InstanceInv, PhaseInv, LostInv,
     admin, resolver
<1>5. CASE Handle
  BY <1>2, <1>5 DEF Handle, IInv, TypeOK, CauseInv, WorkerInv, InstanceInv, PhaseInv, LostInv,
     running, resolver
<1>6. CASE Resolve
  <2>1. cause = "none" \/ (cause = "signal" /\ ~late /\ ~stopFailed) => ~(query = "under_way" /\ Closed("sink"))
    BY <1>1, Closing DEF IInv, TypeOK, CauseInv, InstanceInv, PhaseInv
  <2>2. LostInv'
    BY <1>2, <1>6, <2>1 DEF Resolve, IInv, LostInv
  <2>3. TypeOK'
    <3>1. Flags /\ States
      BY Types DEF IInv
    <3>2. Flags'
      BY <1>2, <1>6, <3>1, Zenon DEF Resolve, Flags, running, admin
    <3>3. States'
      BY <1>2, <1>6, <3>1 DEF Resolve, States, running, admin
    <3> QED BY <3>2, <3>3, TypesNext
  <2>4. CauseInv' /\ WorkerInv' /\ InstanceInv' /\ PhaseInv'
    BY <1>2, <1>6 DEF Resolve, IInv, CauseInv, WorkerInv, InstanceInv, PhaseInv, running, admin
  <2> QED BY <2>2, <2>3, <2>4 DEF IInv
<1> QED BY <1>3, <1>4, <1>5, <1>6 DEF Others

LEMMA StutterKeeps == ASSUME IInv, UNCHANGED vars PROVE IInv'
BY DEF vars, IInv, TypeOK, CauseInv, WorkerInv, InstanceInv, PhaseInv, LostInv,
       waits, running, admin, resolver

LEMMA StepKeeps == ASSUME IInv, [Next]_vars PROVE IInv'
BY StartKeeps, CauseKeeps, WaitsKeep, StopDNSKeeps, CloseKeeps, OthersKeep, StutterKeeps
   DEF Next, Serve

-----------------------------------------------------------------------------
(* In every reachable state, each phase of a shutdown in time leaves       *)
(* behind what it waits for, and the last one that an error lets it reach  *)
(* what it had, and nothing closes before (Serve in internal/app/app.go).  *)
THEOREM InductiveInvariant == Spec => []IInv
BY InitKeeps, StepKeeps, PTL DEF Spec

(* Type correctness.                                                       *)
THEOREM TypeCorrect == Spec => []TypeOK
<1>1. IInv => TypeOK
  BY DEF IInv
<1> QED BY <1>1, InductiveInvariant, PTL

(* Nothing uses what a shutdown has closed, and no answered query is       *)
(* missing in the log, if a signal asked for it, nothing hangs past the    *)
(* deadline and both servers stop without an error; and however the        *)
(* process ends, the worker has its tables (Serve in internal/app/app.go,  *)
(* the order of its waits and deferred calls and its returns).             *)
THEOREM ClosesInOrder == Spec => []ShutdownOrdered
<1>1. ASSUME IInv PROVE ShutdownOrdered
  <2>1. closes \in 0 .. Len(Deferred)
    BY <1>1 DEF IInv, TypeOK
  <2>2. NothingRunsOnClosed
    BY <1>1, <2>1, Closing DEF IInv, CauseInv, PhaseInv, NothingRunsOnClosed
  <2>3. AnsweredIsRecorded
    BY <1>1 DEF IInv, LostInv, AnsweredIsRecorded
  <2>4. WorkerKeepsItsTables
    BY <1>1, <2>1, Closing DEF IInv, WorkerInv, WorkerKeepsItsTables
  <2> QED BY <2>2, <2>3, <2>4 DEF ShutdownOrdered
<1> QED BY <1>1, InductiveInvariant, PTL
=============================================================================
