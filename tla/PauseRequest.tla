---------------------------- MODULE PauseRequest ----------------------------
(***************************************************************************)
(* The times of a blocking pause, from the request to the clock that ends  *)
(* it: a duration in 64-bit nanoseconds (parseBlockingPauseUntil of        *)
(* internal/admin/api.go), a text without fraction in the database         *)
(* (blockingRuntimeController of internal/app/app.go), an instant in       *)
(* memory (Runtime of internal/coreplugin/corehole.go) and seconds in the  *)
(* answer (BlockingStatusFromPause).  Second ticks of the clock make a     *)
(* second, and a duration is at least -Half and less than Half ticks (2^63 *)
(* nanoseconds): the product of a request with a second wraps beyond that. *)
(*                                                                         *)
(* One request at a time, on a database that works: ConfigRuntime has the  *)
(* interleavings and the failures.                                         *)
(***************************************************************************)
EXTENDS Integers

CONSTANTS
    Half, Second,
    Durations,   \* duration_seconds of the requests
    Ends,        \* pause_until of the requests
    MaxTime,     \* bounds the clock
    MaxRestarts, \* bounds the restarts
    None

PauseRequestAssumption ==
    /\ Half \in Nat \ {0} /\ Second \in Nat \ {0} /\ MaxTime \in Nat /\ MaxRestarts \in Nat
    /\ Durations \subseteq Int /\ Ends \subseteq Nat /\ None \notin Int

VARIABLES
    now,
    saved,    \* blocking.paused and blocking.pause_until of the database
    runtime,  \* Runtime.blockingPause
    request,  \* the request under way: what was parsed
    answer,   \* the last answer, and its time
    promised, \* history: the pause that was asked for, and whether its duration wrapped
    restarts

vars == <<now, saved, runtime, request, answer, promised, restarts>>

Off == [paused |-> FALSE, until |-> None]
PauseUntil(end) == [paused |-> TRUE, until |-> end]
NoPromise == [paused |-> FALSE, until |-> None, wrapped |-> FALSE]
NoAnswer == [paused |-> FALSE, indefinite |-> FALSE, remaining |-> 0]

Init ==
    /\ now = 0
    /\ saved = Off /\ runtime = Off
    /\ request = None
    /\ answer = [status |-> NoAnswer, at |-> 0]
    /\ promised = NoPromise
    /\ restarts = 0

(* A product of as many bits as the code has.                              *)
Duration(n) == ((n + Half) % (2 * Half)) - Half

Requests == [duration : Durations \cup {None}, end : Ends \cup {None}]

Valid(r) ==
    /\ r.duration = None \/ r.end = None
    /\ r.duration # None => r.duration > 0
    /\ r.end # None => r.end > now

parseBlockingPauseUntil(r) ==
    IF r.duration = None THEN r.end ELSE now + Duration(r.duration * Second)

(* What the request asks for, in arithmetic without bounds.                *)
Asked(r) == IF r.duration = None THEN r.end ELSE now + r.duration * Second
Fits(r) == r.duration = None \/ r.duration * Second < Half

(* PUT /api/blocking/status: a request that is not valid is answered 400.  *)
Parse ==
    /\ request = None
    /\ \E r \in Requests :
          /\ Valid(r)
          /\ request' = [until |-> parseBlockingPauseUntil(r), asked |-> Asked(r),
                         wrapped |-> ~Fits(r)]
    /\ UNCHANGED <<now, saved, runtime, answer, promised, restarts>>

-----------------------------------------------------------------------------
(* A pause that has expired is cleared as it is read.                      *)
BlockingPause(pause) ==
    IF pause.paused /\ pause.until # None /\ pause.until <= now THEN Off ELSE pause

BlockingStatusFromPause(pause) ==
    IF ~pause.paused \/ (pause.until # None /\ pause.until <= now) THEN NoAnswer
    ELSE [paused |-> TRUE, indefinite |-> pause.until = None,
          remaining |-> IF pause.until = None THEN 0 ELSE (pause.until - now) \div Second]

(* Mutant: rounded to the next second.                                     *)
FormatRoundedUp(end) == IF end = None THEN None ELSE ((end + Second - 1) \div Second) * Second

(* RFC3339 has no fraction.                                                *)
Format(end) == IF end = None THEN None ELSE (end \div Second) * Second

Status(pause) == answer' = [status |-> BlockingStatusFromPause(pause), at |-> now]

Pause ==
    /\ request # None
    /\ saved' = PauseUntil(Format(request.until))
    /\ runtime' = BlockingPause(PauseUntil(request.until))
    /\ Status(runtime')
    /\ promised' = [paused |-> TRUE, until |-> request.asked, wrapped |-> request.wrapped]
    /\ request' = None
    /\ UNCHANGED <<now, restarts>>

Resume ==
    /\ request = None
    /\ saved' = Off /\ runtime' = Off /\ promised' = NoPromise
    /\ Status(Off)
    /\ UNCHANGED <<now, request, restarts>>

GetStatus ==
    /\ runtime' = BlockingPause(runtime)
    /\ Status(runtime')
    /\ UNCHANGED <<now, saved, request, promised, restarts>>

applyBlockingPause ==
    runtime' = IF saved.paused /\ (saved.until = None \/ saved.until > now) THEN saved ELSE Off

Restart ==
    /\ restarts < MaxRestarts
    /\ restarts' = restarts + 1
    /\ applyBlockingPause
    /\ request' = None
    /\ UNCHANGED <<now, saved, answer, promised>>

Tick == now < MaxTime /\ now' = now + 1 /\ UNCHANGED <<saved, runtime, request, answer, promised, restarts>>

Next == Parse \/ Pause \/ Resume \/ GetStatus \/ Restart \/ Tick

Spec == Init /\ [][Next]_vars

-----------------------------------------------------------------------------
Paused == BlockingPause(runtime).paused

LastSecond(end) == (end \div Second) * Second

(* A pause lasts until its last whole second, over restarts.  One whose    *)
(* duration wraps may be over at once: the code has no upper bound.        *)
PausedUntilExpiry ==
    promised.paused /\ ~promised.wrapped /\ (promised.until = None \/ now < LastSecond(promised.until))
        => Paused

(* And never past the instant that was asked for, wrapped or not: a        *)
(* product that wraps is less than what was meant.                         *)
NeverPausedTooLong ==
    Paused => promised.paused /\ (promised.until = None \/ now < promised.until)

(* An answer promises no second that the pause does not have, and keeps    *)
(* back less than two: its fraction, and one a restart has cut off.        *)
RemainingIsHonest ==
    answer.status.paused /\ ~answer.status.indefinite /\ promised.paused =>
        LET left == promised.until - answer.at
        IN  /\ answer.status.remaining * Second <= left
            /\ ~promised.wrapped => left < (answer.status.remaining + 2) * Second
=============================================================================
