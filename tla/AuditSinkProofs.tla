-------------------------- MODULE AuditSinkProofs --------------------------
(***************************************************************************)
(* Proofs about the audit sink, for any number of queries, any size of the *)
(* channel and of the batch, and any number of failed statements.          *)
(***************************************************************************)
EXTENDS AuditSink, FiniteSetTheorems, SequenceTheorems, TLAPS

-----------------------------------------------------------------------------
(* The inductive invariant.                                                *)

Senders == {r \in Recorders : recorder[r] = "send"}

(* How many events have left the sink, into the database or lost.          *)
Settled == sent - (Len(batch) + Len(events))

(* Past its look at the done channel; past its last look at the events.    *)
Stopping ==
    \/ writer \in {"drain", "stopped"}
    \/ writer = "flush" /\ then \in {"drain", "stopped"}

Emptied ==
    \/ writer = "stopped"
    \/ writer = "flush" /\ then = "stopped"

(* Every call of Record is counted by where it ended, or still under way.  *)
CountInv == calls = sent + dropped + Cardinality(Senders)

(* The batch holds the oldest events that have not left, the channel those *)
(* after them, both in order; what has left was written or lost, not both. *)
OrderInv ==
    /\ Settled \in Nat
    /\ \A k \in 1 .. Len(batch) : batch[k] = Settled + k
    /\ \A k \in 1 .. Len(events) : events[k] = Settled + Len(batch) + k
    /\ written \cup lost = 1 .. Settled
    /\ written \cap lost = {}

(* A full batch is flushed at once; the writer stops with an empty one, and *)
(* only after it has been told to.                                         *)
WriterInv ==
    /\ writer # "flush" => Len(batch) < BatchSize
    /\ writer \in {"cleanup", "stopped"} => batch = <<>>
    /\ Stopping => done
    /\ lost # {} => err

(* The flag is set before the channel is closed, and both stay.            *)
CloseInv ==
    /\ closed <=> close # "uncalled"
    /\ done <=> close \notin {"uncalled", "flagged"}

(* What enters the channel after the writer's last look at it comes from   *)
(* senders that had seen the flag unset, one event each.                   *)
LateInv ==
    Emptied =>
        /\ \A k \in 1 .. Len(events) : events[k] > asked
        /\ Len(events) + Cardinality(Senders) <= Cardinality(Recorders)

IInv ==
    /\ TypeOK
    /\ CountInv
    /\ OrderInv
    /\ WriterInv
    /\ CloseInv
    /\ LateInv
    /\ CloseMeansWritten

-----------------------------------------------------------------------------
(* Facts about the senders and about the channel.                          *)

(* There are at most as many senders as recorders.                         *)
LEMMA SendersBounded ==
    /\ IsFiniteSet(Senders)
    /\ Cardinality(Senders) \in Nat
    /\ Cardinality(Recorders) \in Nat
    /\ Cardinality(Senders) <= Cardinality(Recorders)
<1>1. Senders \subseteq Recorders  BY DEF Senders
<1>2. QED  BY <1>1, RecordersFinite, FS_Subset, FS_CardinalityType

(* One recorder passes the look at the flag, or the send.                  *)
LEMMA EntersSend ==
    ASSUME NEW r \in Recorders, recorder \in [Recorders -> {"idle", "send"}],
           recorder[r] = "idle", recorder' = [recorder EXCEPT ![r] = "send"]
    PROVE  Cardinality(Senders') = Cardinality(Senders) + 1
<1>1. Senders' = Senders \cup {r} /\ r \notin Senders  BY DEF Senders
<1>2. QED  BY <1>1, SendersBounded, FS_AddElement

LEMMA LeavesSend ==
    ASSUME NEW r \in Recorders, recorder \in [Recorders -> {"idle", "send"}],
           recorder[r] = "send", recorder' = [recorder EXCEPT ![r] = "idle"]
    PROVE  Cardinality(Senders') = Cardinality(Senders) - 1
<1>1. Senders' = Senders \ {r} /\ r \in Senders  BY DEF Senders
<1>2. QED  BY <1>1, SendersBounded, FS_RemoveElement

-----------------------------------------------------------------------------
(* Each action keeps the invariant.                                        *)

LEMMA InitKeeps == Init => IInv
<1> SUFFICES ASSUME Init PROVE IInv  OBVIOUS
<1> USE AuditSinkAssumption
<1>1. Senders = {}  BY DEF Senders, Init
<1>2. Cardinality(Senders) = 0  BY <1>1, FS_EmptySet
<1>3. TypeOK
  <2>1. events \in Seq(1 .. sent) /\ batch \in Seq(1 .. sent)  BY DEF Init
  <2>2. Len(events) = 0 /\ Len(batch) = 0  BY DEF Init
  <2>3. closed \in BOOLEAN /\ done \in BOOLEAN /\ err \in BOOLEAN /\ open \in BOOLEAN
    BY DEF Init
  <2>4. QED  BY <2>1, <2>2, <2>3 DEF TypeOK, Init
<1>4. CountInv  BY <1>2 DEF CountInv, Init
<1>5. OrderInv  BY DEF OrderInv, Settled, Init
<1>6. WriterInv
  <2>1. ~Stopping  BY DEF Stopping, Init
  <2>2. Len(batch) < BatchSize  BY DEF Init
  <2>3. QED  BY <2>1, <2>2 DEF WriterInv, Init
<1>7. CloseInv /\ LateInv /\ CloseMeansWritten
  BY DEF CloseInv, LateInv, Emptied, CloseMeansWritten, Init
<1>8. QED  BY <1>3, <1>4, <1>5, <1>6, <1>7 DEF IInv

LEMMA CheckKeeps == ASSUME IInv, NEW r \in Recorders, Check(r) PROVE IInv'
<1> USE AuditSinkAssumption
<1>1. /\ UNCHANGED <<events, batch, writer, then, err, faults, sent, written, lost>>
      /\ UNCHANGED <<close, open, closed, done, asked>>
      /\ recorder[r] = "idle"
      /\ calls < MaxRecords
      /\ calls' = calls + 1
  BY DEF Check, outside
<1>2. \/ closed /\ dropped' = dropped + 1 /\ recorder' = recorder
      \/ ~closed /\ recorder' = [recorder EXCEPT ![r] = "send"] /\ dropped' = dropped
  BY DEF Check
<1>3. recorder' \in [Recorders -> {"idle", "send"}] /\ dropped' \in Nat
  BY <1>2 DEF IInv, TypeOK
<1>4. TypeOK'  BY <1>1, <1>3 DEF IInv, TypeOK
<1>5. Cardinality(Senders) \in Nat  BY SendersBounded
<1>6. \/ closed /\ Senders' = Senders /\ dropped' = dropped + 1
      \/ ~closed /\ Cardinality(Senders') = Cardinality(Senders) + 1 /\ dropped' = dropped
  <2>1. CASE closed
    BY <1>2, <2>1 DEF Senders
  <2>2. CASE ~closed
    <3>1. recorder \in [Recorders -> {"idle", "send"}]  BY DEF IInv, TypeOK
    <3>2. QED  BY <1>1, <1>2, <2>2, <3>1, EntersSend
  <2>3. QED  BY <2>1, <2>2
<1>7. CountInv'  BY <1>1, <1>5, <1>6 DEF IInv, CountInv, TypeOK
<1>8. OrderInv'  BY <1>1 DEF IInv, OrderInv, Settled
<1>9. WriterInv' /\ CloseInv'
  BY <1>1 DEF IInv, WriterInv, CloseInv, Stopping
<1>10. LateInv'
  <2>1. Emptied => closed
    BY DEF Emptied, Stopping, IInv, WriterInv, CloseInv
  <2>2. QED  BY <1>1, <1>6, <2>1 DEF IInv, LateInv, Emptied
<1>11. CloseMeansWritten'  BY <1>1 DEF IInv, CloseMeansWritten
<1>12. QED  BY <1>4, <1>7, <1>8, <1>9, <1>10, <1>11 DEF IInv

(* The channel stays a sequence of taken events when it takes one more.    *)
LEMMA AppendTaken ==
    ASSUME NEW n \in Nat, NEW s \in Seq(1 .. n)
    PROVE  /\ s \in Seq(1 .. n + 1)
           /\ Append(s, n + 1) \in Seq(1 .. n + 1)
           /\ Len(s) \in Nat
           /\ Len(Append(s, n + 1)) = Len(s) + 1
           /\ \A k \in 1 .. Len(s) : Append(s, n + 1)[k] = s[k]
           /\ Append(s, n + 1)[Len(s) + 1] = n + 1
<1>1. s \in Seq(1 .. n + 1)  BY SeqMonotonic
<1>2. n + 1 \in 1 .. n + 1  OBVIOUS
<1>3. QED  BY <1>1, <1>2, AppendProperties, LenProperties

LEMMA SendKeeps == ASSUME IInv, NEW r \in Recorders, Send(r) PROVE IInv'
<1> USE AuditSinkAssumption
<1>1. /\ UNCHANGED <<batch, writer, then, err, calls, faults, written, lost>>
      /\ UNCHANGED <<close, open, closed, done, asked>>
      /\ recorder[r] = "send"
      /\ recorder' = [recorder EXCEPT ![r] = "idle"]
  BY DEF Send, outside
<1>2. \/ /\ Len(events) < QueueSize
         /\ sent' = sent + 1 /\ events' = Append(events, sent + 1) /\ dropped' = dropped
      \/ sent' = sent /\ events' = events /\ dropped' = dropped + 1
  BY DEF Send
<1>3. /\ sent \in Nat /\ dropped \in Nat /\ asked \in 0 .. sent
      /\ events \in Seq(1 .. sent) /\ batch \in Seq(1 .. sent)
      /\ Len(events) \in Nat /\ Len(batch) \in Nat
      /\ recorder \in [Recorders -> {"idle", "send"}]
  BY LenProperties DEF IInv, TypeOK
<1>4. /\ Cardinality(Senders) \in Nat
      /\ Cardinality(Senders') = Cardinality(Senders) - 1
  BY <1>1, <1>3, SendersBounded, LeavesSend
<1>5. CASE sent' = sent /\ events' = events /\ dropped' = dropped + 1
  <2>1. TypeOK'  BY <1>1, <1>5 DEF IInv, TypeOK
  <2>2. CountInv'  BY <1>1, <1>3, <1>4, <1>5 DEF IInv, CountInv
  <2>3. OrderInv'  BY <1>1, <1>5 DEF IInv, OrderInv, Settled
  <2>4. LateInv'
    BY <1>1, <1>3, <1>4, <1>5, SendersBounded DEF IInv, LateInv, Emptied
  <2>5. QED
    BY <1>1, <2>1, <2>2, <2>3, <2>4
       DEF IInv, WriterInv, CloseInv, Stopping, CloseMeansWritten
<1>6. CASE /\ Len(events) < QueueSize
           /\ sent' = sent + 1 /\ events' = Append(events, sent + 1) /\ dropped' = dropped
  <2>1. /\ events' \in Seq(1 .. sent') /\ batch' \in Seq(1 .. sent')
        /\ Len(events') = Len(events) + 1
        /\ \A k \in 1 .. Len(events) : events'[k] = events[k]
        /\ events'[Len(events) + 1] = sent + 1
    BY <1>1, <1>3, <1>6, AppendTaken
  <2>2. TypeOK'
    <3>1. Len(events') <= QueueSize  BY <1>3, <1>6, <2>1
    <3>2. /\ written' \subseteq 1 .. sent'
          /\ lost' \subseteq 1 .. sent'
          /\ asked' \in 0 .. sent'
          /\ sent' \in Nat
      BY <1>1, <1>3, <1>6 DEF IInv, TypeOK
    <3>3. QED  BY <1>1, <1>6, <2>1, <3>1, <3>2 DEF IInv, TypeOK
  <2>3. CountInv'  BY <1>1, <1>3, <1>4, <1>6 DEF IInv, CountInv
  <2>4. OrderInv'
    <3>1. Settled' = Settled /\ sent + 1 = Settled + Len(batch) + Len(events) + 1
      BY <1>1, <1>3, <1>6, <2>1 DEF Settled
    <3>2. Settled \in Nat  BY DEF IInv, OrderInv
    <3>3. ASSUME NEW k \in 1 .. Len(events')
          PROVE  events'[k] = Settled' + Len(batch') + k
      <4>1. CASE k \in 1 .. Len(events)
        BY <1>1, <2>1, <3>1, <4>1 DEF IInv, OrderInv
      <4>2. CASE k = Len(events) + 1
        BY <1>1, <1>3, <2>1, <3>1, <3>2, <4>2
      <4>3. QED  BY <1>3, <2>1, <4>1, <4>2
    <3>4. QED  BY <1>1, <3>1, <3>3 DEF IInv, OrderInv
  <2>5. LateInv'
    <3> SUFFICES ASSUME Emptied
                 PROVE  /\ \A k \in 1 .. Len(events') : events'[k] > asked
                        /\ Len(events') + Cardinality(Senders') <= Cardinality(Recorders)
      BY <1>1 DEF LateInv, Emptied
    <3>1. ASSUME NEW k \in 1 .. Len(events') PROVE events'[k] > asked
      <4>1. CASE k \in 1 .. Len(events)
        BY <2>1, <4>1 DEF IInv, LateInv
      <4>2. CASE k = Len(events) + 1
        BY <1>3, <2>1, <4>2
      <4>3. QED  BY <1>3, <2>1, <4>1, <4>2
    <3>2. Len(events') + Cardinality(Senders') <= Cardinality(Recorders)
      BY <1>3, <1>4, <2>1 DEF IInv, LateInv
    <3>3. QED  BY <3>1, <3>2
  <2>6. QED
    BY <1>1, <2>2, <2>3, <2>4, <2>5
       DEF IInv, WriterInv, CloseInv, Stopping, CloseMeansWritten
<1>7. QED  BY <1>2, <1>5, <1>6

LEMMA ReceiveKeeps == ASSUME IInv, Receive PROVE IInv'
<1> USE AuditSinkAssumption
<1>1. /\ UNCHANGED <<recorder, close, open, closed, done, asked, err, calls, sent,
                     dropped, faults, written, lost>>
      /\ writer \in {"select", "drain"}
      /\ events # <<>>
      /\ batch' = Append(batch, Head(events))
      /\ events' = Tail(events)
      /\ \/ Len(batch') >= BatchSize /\ writer' = "flush" /\ then' = writer
         \/ ~(Len(batch') >= BatchSize) /\ writer' = writer /\ then' = then
  BY DEF Receive, At, outside, counts
<1>2. /\ sent \in Nat
      /\ events \in Seq(1 .. sent) /\ batch \in Seq(1 .. sent)
      /\ Len(events) \in Nat \ {0} /\ Len(batch) \in Nat
  BY <1>1, LenProperties, EmptySeq DEF IInv, TypeOK
<1>3. /\ Head(events) \in 1 .. sent
      /\ Head(events) = events[1]
      /\ events' \in Seq(1 .. sent)
      /\ Len(events') = Len(events) - 1
      /\ \A k \in 1 .. Len(events') : events'[k] = events[k + 1]
  BY <1>1, <1>2, HeadTailProperties
<1>4. /\ batch' \in Seq(1 .. sent)
      /\ Len(batch') = Len(batch) + 1
      /\ \A k \in 1 .. Len(batch) : batch'[k] = batch[k]
      /\ batch'[Len(batch) + 1] = events[1]
  BY <1>1, <1>2, <1>3, AppendProperties
<1>5. Len(batch) < BatchSize  BY <1>1 DEF IInv, WriterInv
<1>6. TypeOK'
  <2>1. Len(batch') <= BatchSize  BY <1>2, <1>4, <1>5
  <2>2. Len(events') <= QueueSize  BY <1>2, <1>3 DEF IInv, TypeOK
  <2>3. QED  BY <1>1, <1>3, <1>4, <2>1, <2>2 DEF IInv, TypeOK
<1>7. CountInv'  BY <1>1 DEF IInv, CountInv, Senders
<1>8. OrderInv'
  <2>1. Settled' = Settled /\ Settled \in Nat
    BY <1>1, <1>2, <1>3, <1>4 DEF Settled, IInv, OrderInv
  <2>2. ASSUME NEW k \in 1 .. Len(batch') PROVE batch'[k] = Settled + k
    <3>1. CASE k \in 1 .. Len(batch)
      BY <1>4, <3>1 DEF IInv, OrderInv
    <3>2. CASE k = Len(batch) + 1
      <4>1. 1 \in 1 .. Len(events)  BY <1>2
      <4>2. events[1] = Settled + Len(batch) + 1  BY <4>1 DEF IInv, OrderInv
      <4>3. QED  BY <1>2, <1>4, <2>1, <3>2, <4>2
    <3>3. QED  BY <1>2, <1>4, <3>1, <3>2
  <2>3. ASSUME NEW k \in 1 .. Len(events')
        PROVE  events'[k] = Settled + Len(batch') + k
    <3>1. k + 1 \in 1 .. Len(events) /\ events'[k] = events[k + 1]
      BY <1>2, <1>3
    <3>2. events[k + 1] = Settled + Len(batch) + (k + 1)
      BY <3>1 DEF IInv, OrderInv
    <3>3. QED  BY <1>2, <1>4, <2>1, <3>1, <3>2
  <2>4. QED  BY <1>1, <2>1, <2>2, <2>3 DEF IInv, OrderInv
<1>9. WriterInv'
  <2>1. Stopping' => Stopping  BY <1>1 DEF Stopping
  <2>2. writer' # "flush" => Len(batch') < BatchSize
    BY <1>1, <1>2, <1>4
  <2>3. writer' \notin {"cleanup", "stopped"}  BY <1>1
  <2>4. QED  BY <1>1, <2>1, <2>2, <2>3 DEF IInv, WriterInv
<1>10. CloseInv' /\ CloseMeansWritten'  BY <1>1 DEF IInv, CloseInv, CloseMeansWritten
<1>11. LateInv'  BY <1>1 DEF LateInv, Emptied
<1>12. QED  BY <1>6, <1>7, <1>8, <1>9, <1>10, <1>11 DEF IInv

(* The writer goes somewhere else and touches nothing.                     *)
LEMMA MoveKeeps ==
    ASSUME IInv, UNCHANGED <<recorder, outside, events, batch, err, counts, faults,
                             written, lost>>,
           writer' \in {"select", "flush", "cleanup", "drain", "stopped"},
           then' \in {"select", "cleanup", "drain", "stopped"},
           WriterInv', LateInv'
    PROVE  IInv'
<1>1. UNCHANGED <<recorder, close, open, closed, done, asked, events, batch, err,
                  calls, sent, dropped, faults, written, lost>>
  BY DEF outside, counts
<1>2. TypeOK'  BY <1>1 DEF IInv, TypeOK
<1>3. CountInv' /\ OrderInv'
  BY <1>1 DEF IInv, CountInv, Senders, OrderInv, Settled
<1>4. CloseInv' /\ CloseMeansWritten'
  BY <1>1 DEF IInv, CloseInv, CloseMeansWritten
<1>5. QED  BY <1>2, <1>3, <1>4 DEF IInv

(* A ticker fires.                                                         *)
LEMMA TickKeeps == ASSUME IInv, Tick \/ CleanupTick PROVE IInv'
<1> USE AuditSinkAssumption
<1>1. /\ UNCHANGED <<recorder, outside, events, batch, err, counts, faults, written,
                     lost>>
      /\ writer = "select"
      /\ \/ batch = <<>> /\ writer' \in {"select", "cleanup"} /\ then' = then
         \/ writer' = "flush" /\ then' \in {"select", "cleanup"}
  BY DEF Tick, CleanupTick, FlushThen, Goto, At
<1>2. /\ writer' \in {"select", "flush", "cleanup", "drain", "stopped"}
      /\ then' \in {"select", "cleanup", "drain", "stopped"}
  BY <1>1 DEF IInv, TypeOK
<1>3. batch = <<>> => Len(batch) = 0  OBVIOUS
<1>4. ~Stopping' /\ ~Emptied'  BY <1>1 DEF Stopping, Emptied
<1>5. WriterInv'  BY <1>1, <1>3, <1>4 DEF IInv, WriterInv
<1>6. LateInv'  BY <1>4 DEF LateInv
<1>7. QED  BY <1>1, <1>2, <1>5, <1>6, MoveKeeps

(* The writer sees the done channel closed.                                *)
LEMMA StopKeeps == ASSUME IInv, Stop PROVE IInv'
<1>1. /\ UNCHANGED <<recorder, outside, events, batch, err, counts, faults, written,
                     lost>>
      /\ writer = "select" /\ writer' = "drain" /\ then' = then
      /\ done /\ UNCHANGED <<done, batch, lost, err>>
  BY DEF Stop, Goto, At, outside
<1>2. WriterInv'  BY <1>1 DEF IInv, WriterInv
<1>3. LateInv'  BY <1>1 DEF LateInv, Emptied
<1>4. then' \in {"select", "cleanup", "drain", "stopped"}
  BY <1>1 DEF IInv, TypeOK
<1>5. QED  BY <1>1, <1>2, <1>3, <1>4, MoveKeeps

(* The writer finds the channel empty: from now on nobody but the senders  *)
(* that are under way can put anything in it.                              *)
LEMMA DrainedKeeps == ASSUME IInv, Drained PROVE IInv'
<1> USE AuditSinkAssumption
<1>1. /\ UNCHANGED <<recorder, outside, events, batch, err, counts, faults, written,
                     lost>>
      /\ UNCHANGED <<done, asked, recorder, events, batch, lost, err>>
      /\ writer = "drain"
      /\ events = <<>>
      /\ \/ batch = <<>> /\ writer' = "stopped" /\ then' = then
         \/ writer' = "flush" /\ then' = "stopped"
  BY DEF Drained, FlushThen, Goto, At, outside
<1>2. Len(events) = 0 /\ (batch = <<>> => Len(batch) = 0)  BY <1>1
<1>3. done  BY <1>1 DEF IInv, WriterInv, Stopping
<1>4. WriterInv'  BY <1>1, <1>2, <1>3 DEF IInv, WriterInv
<1>5. Senders' = Senders  BY <1>1 DEF Senders
<1>6. LateInv'  BY <1>1, <1>2, <1>5, SendersBounded DEF LateInv
<1>7. writer' \in {"select", "flush", "cleanup", "drain", "stopped"} /\
      then' \in {"select", "cleanup", "drain", "stopped"}
  BY <1>1 DEF IInv, TypeOK
<1>8. QED  BY <1>1, <1>4, <1>6, <1>7, MoveKeeps

(* The events of a batch are the ones after those that have left the sink. *)
LEMMA BatchItems ==
    ASSUME IInv
    PROVE  Items(batch) = (Settled + 1) .. (Settled + Len(batch))
<1>1. Len(batch) \in Nat /\ Settled \in Nat
  BY LenProperties DEF IInv, TypeOK, OrderInv
<1>2. \A k \in 1 .. Len(batch) : batch[k] = Settled + k  BY DEF IInv, OrderInv
<1>3. ASSUME NEW e \in Items(batch)
      PROVE  e \in (Settled + 1) .. (Settled + Len(batch))
  <2>1. PICK k \in 1 .. Len(batch) : e = batch[k]  BY <1>3 DEF Items
  <2>2. QED  BY <1>1, <1>2, <2>1
<1>4. ASSUME NEW e \in (Settled + 1) .. (Settled + Len(batch))
      PROVE  e \in Items(batch)
  <2>1. e - Settled \in 1 .. Len(batch) /\ Settled + (e - Settled) = e  BY <1>1
  <2>2. e = batch[e - Settled]  BY <1>2, <2>1
  <2>3. QED  BY <2>1, <2>2 DEF Items
<1>5. QED  BY <1>3, <1>4

(* A transaction inserts all of the batch, or all of it is lost.           *)
LEMMA FlushKeeps == ASSUME IInv, Flush PROVE IInv'
<1> USE AuditSinkAssumption
<1>1. /\ UNCHANGED <<recorder, close, open, closed, done, asked, events, calls, sent,
                     dropped, then>>
      /\ writer = "flush" /\ writer' = then
      /\ batch' = <<>>
      /\ \/ written' = written \cup Items(batch) /\ lost' = lost /\ err' = err
         \/ written' = written /\ lost' = lost \cup Items(batch) /\ err' = TRUE
  BY DEF Flush, At, outside, counts, Failure
<1>2. faults' \in 0 .. MaxFaults
  BY DEF Flush, Failure, IInv, TypeOK
<1>3. /\ sent \in Nat /\ Len(batch) \in Nat /\ Len(events) \in Nat
      /\ Settled \in Nat
      /\ sent = Settled + Len(batch) + Len(events)
      /\ Len(batch') = 0
  BY <1>1, LenProperties DEF IInv, TypeOK, OrderInv, Settled
<1>4. Settled' = Settled + Len(batch)  BY <1>1, <1>3 DEF Settled
<1>5. Items(batch) = (Settled + 1) .. Settled'  BY <1>4, BatchItems
<1>6. written \cup lost = 1 .. Settled /\ written \cap lost = {}
  BY DEF IInv, OrderInv
<1>7. written' \cup lost' = 1 .. Settled'
  <2>1. 1 .. Settled' = (1 .. Settled) \cup Items(batch)  BY <1>3, <1>4, <1>5
  <2>2. QED  BY <1>1, <1>6, <2>1
<1>8. written' \cap lost' = {}
  <2>1. (1 .. Settled) \cap Items(batch) = {}  BY <1>3, <1>5
  <2>2. QED  BY <1>1, <1>6, <2>1
<1>9. TypeOK'
  <2>1. batch' \in Seq(1 .. sent)  BY <1>1
  <2>2. Settled' <= sent /\ Settled' \in Nat  BY <1>3, <1>4
  <2>3. written' \subseteq 1 .. sent /\ lost' \subseteq 1 .. sent
    BY <1>3, <1>7, <2>2
  <2>4. err' \in BOOLEAN  BY <1>1 DEF IInv, TypeOK
  <2>5. QED  BY <1>1, <1>2, <1>3, <2>1, <2>3, <2>4 DEF IInv, TypeOK
<1>10. CountInv'  BY <1>1 DEF IInv, CountInv, Senders
<1>11. OrderInv'
  <2>1. \A k \in 1 .. Len(events) : events[k] = Settled' + Len(batch') + k
    BY <1>3, <1>4 DEF IInv, OrderInv
  <2>2. \A k \in 1 .. Len(batch') : batch'[k] = Settled' + k  BY <1>3
  <2>3. Settled' \in Nat  BY <1>3, <1>4
  <2>4. QED  BY <1>1, <1>7, <1>8, <2>1, <2>2, <2>3 DEF OrderInv
<1>12. WriterInv'
  <2>1. Stopping' => Stopping  BY <1>1 DEF Stopping
  <2>2. QED  BY <1>1, <1>3, <2>1 DEF IInv, WriterInv
<1>13. CloseInv'  BY <1>1 DEF IInv, CloseInv
<1>14. LateInv'
  <2>1. Emptied' => Emptied  BY <1>1 DEF Emptied
  <2>2. QED  BY <1>1, <2>1 DEF IInv, LateInv, Senders
<1>15. CloseMeansWritten'
  BY <1>1 DEF IInv, CloseMeansWritten
<1>16. QED
  BY <1>9, <1>10, <1>11, <1>12, <1>13, <1>14, <1>15 DEF IInv

LEMMA CleanupKeeps == ASSUME IInv, Cleanup PROVE IInv'
<1>1. /\ UNCHANGED <<recorder, close, open, closed, done, asked, events, batch, calls,
                     sent, dropped, written, lost, then>>
      /\ writer = "cleanup" /\ writer' = "select"
      /\ err' = err \/ err' = TRUE
  BY DEF Cleanup, At, Goto, outside, counts, Failure
<1>2. faults' \in 0 .. MaxFaults
  BY AuditSinkAssumption DEF Cleanup, Failure, IInv, TypeOK
<1>3. TypeOK'
  <2>1. err' \in BOOLEAN  BY <1>1 DEF IInv, TypeOK
  <2>2. QED  BY <1>1, <1>2, <2>1 DEF IInv, TypeOK
<1>4. CountInv' /\ OrderInv'
  BY <1>1 DEF IInv, CountInv, Senders, OrderInv, Settled
<1>5. WriterInv'  BY <1>1 DEF IInv, WriterInv, Stopping
<1>6. CloseInv' /\ CloseMeansWritten' /\ LateInv'
  BY <1>1 DEF IInv, CloseInv, CloseMeansWritten, LateInv, Emptied
<1>7. QED  BY <1>3, <1>4, <1>5, <1>6 DEF IInv

LEMMA WriterKeeps == ASSUME IInv, Writer PROVE IInv'
BY ReceiveKeeps, TickKeeps, StopKeeps, DrainedKeeps, FlushKeeps, CleanupKeeps DEF Writer

(* When the writer has stopped, what was asked for has left the sink.      *)
LEMMA StoppedSettled ==
    ASSUME IInv, writer = "stopped" PROVE asked <= Settled
<1>1. /\ sent \in Nat /\ asked \in 0 .. sent
      /\ Len(events) \in Nat /\ Settled \in Nat
      /\ Len(batch) = 0
      /\ sent = Settled + Len(batch) + Len(events)
  BY LenProperties DEF IInv, TypeOK, OrderInv, WriterInv, Settled
<1>2. CASE Len(events) = 0  BY <1>1, <1>2
<1>3. CASE Len(events) > 0
  <2>1. 1 \in 1 .. Len(events)  BY <1>1, <1>3
  <2>2. events[1] = Settled + 1  BY <1>1, <2>1 DEF IInv, OrderInv
  <2>3. events[1] > asked  BY <2>1 DEF IInv, LateInv, Emptied
  <2>4. QED  BY <1>1, <2>2, <2>3
<1>4. QED  BY <1>1, <1>2, <1>3

LEMMA ShutdownKeeps == ASSUME IInv, Shutdown PROVE IInv'
<1>1. UNCHANGED <<recorder, events, batch, writer, then, err, calls, sent, dropped,
                  faults, written, lost>>
  BY DEF Shutdown, counts
<1>2. CountInv' /\ OrderInv'
  BY <1>1 DEF IInv, CountInv, Senders, OrderInv, Settled
<1>3. CASE AskClose
  <2>1. /\ close = "uncalled" /\ close' = "flagged"
        /\ closed' = TRUE /\ asked' = sent /\ done' = done /\ open' = open
    BY <1>3 DEF AskClose
  <2>2. ~done /\ ~Stopping  BY <2>1 DEF IInv, CloseInv, WriterInv
  <2>3. TypeOK'
    <3>1. asked' \in 0 .. sent  BY <2>1 DEF IInv, TypeOK
    <3>2. closed' \in BOOLEAN  BY <2>1
    <3>3. QED  BY <1>1, <2>1, <3>1, <3>2 DEF IInv, TypeOK
  <2>4. WriterInv'  BY <1>1, <2>1 DEF IInv, WriterInv, Stopping
  <2>5. CloseInv' /\ CloseMeansWritten'
    BY <2>1, <2>2 DEF IInv, CloseInv, CloseMeansWritten
  <2>6. ~Emptied'  BY <1>1, <2>2 DEF Emptied, Stopping
  <2>7. QED  BY <1>2, <2>3, <2>4, <2>5, <2>6 DEF IInv, LateInv
<1>4. CASE SignalClose \/ ReturnClose \/ CloseDatabase
  <2>1. closed' = closed /\ asked' = asked /\ (done' = done \/ done' = TRUE)
    BY <1>4 DEF SignalClose, ReturnClose, CloseDatabase
  <2>2. TypeOK'
    <3>1. /\ open' \in BOOLEAN /\ done' \in BOOLEAN
          /\ close' \in {"uncalled", "flagged", "waiting", "nil", "error", "timeout"}
      BY <1>4, <2>1 DEF SignalClose, ReturnClose, CloseDatabase, IInv, TypeOK
    <3>2. QED  BY <1>1, <2>1, <3>1 DEF IInv, TypeOK
  <2>3. WriterInv'  BY <1>1, <2>1 DEF IInv, WriterInv, Stopping
  <2>4. CloseInv'
    BY <1>4, <2>1 DEF SignalClose, ReturnClose, CloseDatabase, IInv, CloseInv
  <2>5. LateInv'  BY <1>1, <2>1 DEF IInv, LateInv, Emptied, Senders
  <2>6. CloseMeansWritten'
    <3>1. SUFFICES ASSUME close' = "nil" PROVE 1 .. asked \subseteq written
      BY <1>1, <2>1 DEF CloseMeansWritten
    <3>2. CASE close = "nil"  BY <3>2 DEF IInv, CloseMeansWritten
    <3>3. CASE writer = "stopped" /\ ~err
      <4>1. lost = {} /\ written = 1 .. Settled
        BY <3>3 DEF IInv, WriterInv, OrderInv
      <4>2. asked \in Nat /\ Settled \in Nat  BY DEF IInv, TypeOK, OrderInv
      <4>3. QED  BY <3>3, <4>1, <4>2, StoppedSettled
    <3>4. QED
      BY <1>4, <3>1, <3>2, <3>3 DEF SignalClose, ReturnClose, CloseDatabase, At
  <2>7. QED  BY <1>2, <2>2, <2>3, <2>4, <2>5, <2>6 DEF IInv
<1>5. QED  BY <1>3, <1>4 DEF Shutdown

LEMMA StepKeeps == ASSUME IInv, [Next]_vars PROVE IInv'
<1>1. CASE UNCHANGED vars
  BY <1>1 DEF vars, outside, counts, IInv, TypeOK, CountInv, Senders, OrderInv, Settled,
              WriterInv, Stopping, CloseInv, LateInv, Emptied, CloseMeansWritten
<1>2. QED
  BY <1>1, CheckKeeps, SendKeeps, WriterKeeps, ShutdownKeeps DEF Next, Record

-----------------------------------------------------------------------------
(* Theorems.                                                               *)

(* The sink keeps its inductive invariant.                                 *)
THEOREM InductiveInvariant == Spec => []IInv
BY InitKeeps, StepKeeps, PTL DEF Spec

(* The variables keep their types; the channel and the batch their limits. *)
THEOREM TypeCorrect == Spec => []TypeOK
<1>1. IInv => TypeOK  BY DEF IInv
<1>2. QED  BY <1>1, InductiveInvariant, PTL

(* No event recorded is in two places, or in none, and none overtakes.     *)
THEOREM EventsAccounted == Spec => []EveryEventAccounted
<1>1. IInv => EveryEventAccounted
  <2> SUFFICES ASSUME IInv PROVE EveryEventAccounted  OBVIOUS
  <2> DEFINE held == batch \o events
             gone == sent - Len(held)
  <2>1. /\ Len(batch) \in Nat /\ Len(events) \in Nat
        /\ batch \in Seq(1 .. sent) /\ events \in Seq(1 .. sent)
    BY LenProperties DEF IInv, TypeOK
  <2>2. /\ Len(held) = Len(batch) + Len(events)
        /\ \A k \in 1 .. Len(batch) + Len(events) :
              held[k] = IF k <= Len(batch) THEN batch[k] ELSE events[k - Len(batch)]
    BY <2>1, ConcatProperties
  <2>3. gone = Settled  BY <2>2 DEF Settled
  <2> HIDE DEF held, gone
  <2>4. ASSUME NEW k \in 1 .. Len(held) PROVE held[k] = gone + k
    <3>1. Settled \in Nat  BY DEF IInv, OrderInv
    <3>2. CASE k <= Len(batch)
      <4>1. k \in 1 .. Len(batch) /\ held[k] = batch[k]  BY <2>1, <2>2, <3>2
      <4>2. QED  BY <2>3, <4>1 DEF IInv, OrderInv
    <3>3. CASE k > Len(batch)
      <4>1. /\ k - Len(batch) \in 1 .. Len(events)
            /\ held[k] = events[k - Len(batch)]
        BY <2>1, <2>2, <3>3
      <4>2. events[k - Len(batch)] = Settled + Len(batch) + (k - Len(batch))
        BY <4>1 DEF IInv, OrderInv
      <4>3. QED  BY <2>1, <2>2, <2>3, <3>1, <4>1, <4>2
    <3>4. QED  BY <2>1, <2>2, <3>2, <3>3
  <2>5. calls = sent + dropped + Cardinality({r \in Recorders : recorder[r] = "send"})
    BY DEF IInv, CountInv, Senders
  <2>6. written \cup lost = 1 .. gone /\ written \cap lost = {}
    BY <2>3 DEF IInv, OrderInv
  <2>7. QED  BY <2>4, <2>5, <2>6 DEF EveryEventAccounted, held, gone
<1>2. QED  BY <1>1, InductiveInvariant, PTL

(* A Close that returns nil has left no event taken before it unwritten.   *)
THEOREM CloseNilMeansWritten == Spec => []CloseMeansWritten
<1>1. IInv => CloseMeansWritten  BY DEF IInv
<1>2. QED  BY <1>1, InductiveInvariant, PTL

(* A writer that stops leaves at most one late event of each query.        *)
THEOREM StopsDrained == Spec => []DrainedBeforeStop
<1>1. IInv => DrainedBeforeStop
  <2> SUFFICES ASSUME IInv, writer = "stopped"
               PROVE  /\ \A k \in 1 .. Len(events) : events[k] > asked
                      /\ Len(events) <= Cardinality(Recorders)
    BY DEF DrainedBeforeStop, At
  <2>1. /\ \A k \in 1 .. Len(events) : events[k] > asked
        /\ Len(events) + Cardinality(Senders) <= Cardinality(Recorders)
    BY DEF IInv, LateInv, Emptied
  <2>2. Len(events) \in Nat  BY LenProperties DEF IInv, TypeOK
  <2>3. QED  BY <2>1, <2>2, SendersBounded
<1>2. QED  BY <1>1, InductiveInvariant, PTL

=============================================================================
