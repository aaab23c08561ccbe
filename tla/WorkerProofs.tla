------------------------------ MODULE WorkerProofs ------------------------------
(***************************************************************************)
(* Proofs about the worker of a tier and about what passes through it:     *)
(* TierWorker for every set of envelopes, every capacity and every set of  *)
(* shutdown calls; SchemaFlow for every set of declarations and any number *)
(* of events.                                                              *)
(***************************************************************************)
EXTENDS TierWorker, SchemaFlow, SequenceLemmas

(* The drain task holds one envelope exactly between a pop and its         *)
(* delivery; only its end empties the channel into stranded.               *)
TaskShape ==
    /\ wpc \in {"deliver", "drain_deliver"} => \E e \in Env : cur = <<e>>
    /\ wpc \notin {"deliver", "drain_deliver"} => cur = <<>>
    /\ wpc # "done" => stranded = <<>>
    /\ wpc = "done" => queue = <<>>

(* What the progress of the task says about the shutdown request: only a   *)
(* panic of the sink ends it without one.                                  *)
ShutdownShape ==
    /\ flag <=> mark # NoMark
    /\ mark <= Len(accepted)
    /\ ~sender => flag
    /\ \A c \in Callers : spc[c] # "idle" => flag
    /\ wpc \in {"drain", "drain_deliver", "flush", "exit"} => flag
    /\ wpc \in {"flush", "exit"} => mark <= Len(processed)
    /\ wpc = "exit" => flushed = Len(processed)
    /\ panicked => wpc = "done"
    /\ wpc = "done" /\ ~panicked => flag /\ mark <= Len(processed) /\ flushed = Len(processed)

(* The inductive invariant of the worker. *)
WorkerInv == TypeOK /\ Conservation /\ TaskShape /\ ShutdownShape

(* The join mutex and the handle behind it, when no call is cancelled: the *)
(* handle is gone and the mutex free only when the task has ended.         *)
JoinInv ==
    /\ \A c \in Callers : spc[c] \in {"join", "sink"} <=> holder = c
    /\ \A c \in Callers : spc[c] = "sink" => wpc = "done"
    /\ ~join /\ holder = NoCaller => wpc = "done"
    /\ \A c \in Callers : spc[c] = "join" => ~join
    /\ sink_down => wpc = "done"

-------------------------------------------------------------------------------
(* Moving the first envelope of the channel into the task's empty hand     *)
(* changes nothing in the concatenation that Conservation speaks of.       *)
LEMMA PopConserves ==
    ASSUME NEW p \in Seq(Env), NEW q \in Seq(Env), NEW r \in Seq(Env), q # <<>>
    PROVE  p \o <<>> \o q \o r = p \o <<Head(q)>> \o Tail(q) \o r
<1>1. Head(q) \in Env /\ Tail(q) \in Seq(Env) BY HeadTailProperties
<1>2. <<Head(q)>> \in Seq(Env) BY <1>1
<1>3. q = <<Head(q)>> \o Tail(q)
  <2>1. <<Head(q)>> \o Tail(q) \in Seq(Env) BY <1>1, <1>2, ConcatProperties
  <2>2. Len(q) \in Nat \ {0} BY EmptySeq
  <2>3. Len(<<Head(q)>> \o Tail(q)) = Len(q)
    BY <1>1, <1>2, <2>2, ConcatProperties, HeadTailProperties
  <2>4. ASSUME NEW i \in 1..Len(q) PROVE q[i] = (<<Head(q)>> \o Tail(q))[i]
    BY <1>1, <1>2, <2>2, ConcatProperties, HeadTailProperties
  <2> QED BY <2>1, <2>3, <2>4, SeqEqual
<1>4. p \o <<>> = p BY ConcatEmptySeq
<1>5. p \o q = (p \o <<Head(q)>>) \o Tail(q)
  BY <1>1, <1>2, <1>3, ConcatAssociative
<1> QED BY <1>4, <1>5

(* Delivering the envelope in the task's hand appends it to processed.     *)
LEMMA DeliverConserves ==
    ASSUME NEW p \in Seq(Env), NEW q \in Seq(Env), NEW r \in Seq(Env), NEW e \in Env
    PROVE  p \o <<e>> \o q \o r = Append(p, e) \o <<>> \o q \o r
<1>1. Append(p, e) = p \o <<e>> BY AppendIsConcat
<1>2. Append(p, e) \in Seq(Env) BY AppendProperties
<1>3. Append(p, e) \o <<>> = Append(p, e) BY <1>2, ConcatEmptySeq
<1> QED BY <1>1, <1>3

(* What is appended to the channel is appended to the whole.               *)
LEMMA SendConserves ==
    ASSUME NEW p \in Seq(Env), NEW q \in Seq(Env), NEW t \in Seq(Env)
    PROVE  p \o q \o <<>> \o t = p \o (q \o t) \o <<>>
<1>1. p \o q \in Seq(Env) BY ConcatProperties
<1>2. q \o t \in Seq(Env) BY ConcatProperties
<1>3. p \o (q \o t) \in Seq(Env) BY <1>2, ConcatProperties
<1>4. (p \o q) \o t = p \o (q \o t) BY ConcatAssociative
<1>5. p \o q \o <<>> = p \o q BY <1>1, ConcatEmptySeq
<1>6. p \o (q \o t) \o <<>> = p \o (q \o t) BY <1>3, ConcatEmptySeq
<1> QED BY <1>4, <1>5, <1>6

(* With nothing in hand, in the channel or stranded, everything accepted   *)
(* has been processed.                                                     *)
LEMMA NothingLeft ==
    ASSUME NEW p \in Seq(Env)
    PROVE  p \o <<>> \o <<>> \o <<>> = p
<1>1. p \o <<>> = p BY ConcatEmptySeq
<1> QED BY <1>1

(* The order of channel and stranded when the channel is emptied. *)
LEMMA ExitConserves ==
    ASSUME NEW p \in Seq(Env), NEW q \in Seq(Env)
    PROVE  p \o <<>> \o q \o <<>> = p \o <<>> \o <<>> \o q
<1>1. p \o <<>> = p BY ConcatEmptySeq
<1>2. p \o q \in Seq(Env) BY ConcatProperties
<1>3. p \o q \o <<>> = p \o q BY <1>2, ConcatEmptySeq
<1> QED BY <1>1, <1>3

-------------------------------------------------------------------------------
(* The inductive invariant holds initially. *)
LEMMA WorkerInit == Init => WorkerInv
<1> SUFFICES ASSUME Init PROVE WorkerInv OBVIOUS
<1>1. <<>> \in Seq(Env) /\ Len(<<>>) = 0 BY EmptySeq
<1>2. TypeOK
  <2>1. Len(queue) <= Slots BY <1>1, CapacityAssumption DEF Init, Slots
  <2>2. flushed \in Nat /\ channel_full \in Nat BY DEF Init
  <2>3. flag \in BOOLEAN /\ sender \in BOOLEAN /\ join \in BOOLEAN /\ sink_down \in BOOLEAN
       /\ panicked \in BOOLEAN
    BY DEF Init
  <2>4. spc \in [Callers -> {"idle", "take", "lock", "join", "sink", "done", "panicked", "cancelled"}]
    BY DEF Init
  <2> QED BY <1>1, <2>1, <2>2, <2>3, <2>4, Zenon DEF Init, TypeOK
<1>3. Conservation
  <2>1. <<>> \o <<>> \o <<>> \o <<>> = <<>> BY <1>1, NothingLeft
  <2> QED BY <2>1 DEF Init, Conservation
<1>4. TaskShape BY DEF Init, TaskShape
<1>5. ShutdownShape BY <1>1 DEF Init, ShutdownShape, NoMark
<1> QED BY <1>2, <1>3, <1>4, <1>5 DEF WorkerInv

(* Every step preserves the inductive invariant. *)
LEMMA WorkerNext == WorkerInv /\ [Next]_vars => WorkerInv'
<1> SUFFICES ASSUME WorkerInv, [Next]_vars PROVE WorkerInv'
  OBVIOUS
<1> USE DEF WorkerInv
<1>e. <<>> \in Seq(Env) /\ Len(<<>>) = 0 BY EmptySeq
<1>t. processed \in Seq(Env) /\ cur \in Seq(Env) /\ queue \in Seq(Env) /\ stranded \in Seq(Env)
  BY DEF TypeOK
<1>u. ASSUME NEW t \in Seq(Env)
      PROVE  processed \o cur \o queue \o <<>> \o t = processed \o cur \o (queue \o t) \o <<>>
  <2>1. processed \o cur \in Seq(Env) BY <1>t, ConcatProperties
  <2> QED BY <1>t, <2>1, SendConserves, Zenon
<1>s. Slots \in Nat /\ Slots >= 1 BY CapacityAssumption DEF Slots
<1>1. ASSUME NEW e \in Env, TrySend(e) PROVE WorkerInv'
  <2> USE <1>1 DEF TrySend, taskVars, downVars, flushVars
  <2>1. CASE Refused
    <3>1. TypeOK' BY <2>1 DEF TypeOK
    <3>2. Conservation' BY <2>1 DEF Conservation
    <3>3. TaskShape' BY <2>1 DEF TaskShape
    <3>4. ShutdownShape' BY <2>1 DEF ShutdownShape
    <3> QED BY <3>1, <3>2, <3>3, <3>4
  <2>2. CASE ~Refused
    <3>1. accepted' = Append(accepted, e) /\ queue' = Append(queue, e)
          /\ channel_full' = channel_full
      BY <2>2
    <3>2. wpc # "done" /\ Len(queue) < Slots
      BY <2>2, <1>s, LenProperties DEF Refused, TypeOK
    <3>3. accepted' \in Seq(Env) /\ queue' \in Seq(Env)
          /\ Len(queue') = Len(queue) + 1 /\ Len(accepted') = Len(accepted) + 1
      BY <3>1, AppendProperties DEF TypeOK
    <3>4. TypeOK' BY <3>1, <3>2, <3>3, <1>s, LenProperties DEF TypeOK
    <3>5. Conservation'
      <4>1. stranded = <<>> BY <3>2 DEF TaskShape
      <4>2. accepted = processed \o cur \o queue \o <<>> BY <4>1 DEF Conservation
      <4>3. accepted' = accepted \o <<e>> /\ queue' = queue \o <<e>>
        <5>1. accepted \in Seq(Env) BY DEF TypeOK
        <5>2. Append(accepted, e) = accepted \o <<e>> BY <5>1, AppendIsConcat
        <5>3. Append(queue, e) = queue \o <<e>> BY <1>t, AppendIsConcat
        <5> QED BY <3>1, <5>2, <5>3
      <4> DEFINE t == <<e>>
      <4>4. t \in Seq(Env) OBVIOUS
      <4>5. accepted' = accepted \o t /\ queue' = queue \o t BY <4>3
      <4> HIDE DEF t
      <4>6. accepted \o t = processed \o cur \o (queue \o t) \o <<>>
        BY <4>2, <4>4, <1>u
      <4> QED BY <4>1, <4>5, <4>6 DEF Conservation
    <3>6. TaskShape' BY <3>2 DEF TaskShape
    <3>7. ShutdownShape' BY <3>3, LenProperties DEF ShutdownShape, TypeOK, NoMark
    <3> QED BY <3>4, <3>5, <3>6, <3>7
  <2> QED BY <2>1, <2>2
<1>2. ASSUME Recv \/ Drain PROVE WorkerInv'
  <2> USE DEF Recv, Drain, emitVars, downVars, flushVars
  <2>1. CASE Pop
    <3>1. queue # <<>> /\ cur' = <<Head(queue)>> /\ queue' = Tail(queue)
          /\ wpc \in {"recv", "drain"} /\ wpc' \in {"deliver", "drain_deliver"}
          /\ (wpc' = "drain_deliver" => wpc = "drain")
      BY <1>2, <2>1 DEF Pop
    <3>2. Head(queue) \in Env /\ queue' \in Seq(Env) /\ Len(queue') = Len(queue) - 1
      BY <3>1, HeadTailProperties DEF TypeOK
    <3>3. cur' \in Seq(Env) BY <3>1, <3>2
    <3>4. TypeOK'
      <4>1. UNCHANGED <<emitVars, processed, unscrubbed, stranded, panicked, flushed,
                        downVars, flushVars>>
        BY <1>2
      <4>2. Len(queue') <= Slots BY <3>2, <1>s, LenProperties DEF TypeOK
      <4> QED BY <3>1, <3>2, <3>3, <4>1, <4>2 DEF TypeOK
    <3>5. Conservation'
      <4>1. cur = <<>> /\ stranded' = stranded /\ processed' = processed /\ accepted' = accepted
        BY <1>2, <3>1 DEF TaskShape
      <4>2. processed \in Seq(Env) /\ queue \in Seq(Env) /\ stranded \in Seq(Env)
        BY DEF TypeOK
      <4>3. processed \o <<>> \o queue \o stranded
            = processed \o <<Head(queue)>> \o Tail(queue) \o stranded
        BY <3>1, <4>2, PopConserves, Zenon
      <4>4. accepted = processed \o <<>> \o queue \o stranded
        BY <4>1 DEF Conservation
      <4> QED BY <3>1, <4>1, <4>3, <4>4, Zenon DEF Conservation
    <3>6. TaskShape' BY <1>2, <3>1, <3>2 DEF TaskShape
    <3>7. ShutdownShape' BY <1>2, <3>1 DEF ShutdownShape
    <3> QED BY <3>4, <3>5, <3>6, <3>7
  <2>2. CASE queue = <<>> /\ ~Pop
    <3>1. /\ UNCHANGED <<emitVars, queue, cur, processed, unscrubbed, stranded, panicked,
                         flushed, downVars, flushVars>>
          /\ \/ wpc = "recv" /\ ~sender /\ wpc' = "drain"
             \/ wpc = "drain" /\ wpc' = "flush"
      BY <1>2, <2>2
    <3>2. TypeOK' BY <3>1 DEF TypeOK
    <3>3. Conservation' BY <3>1 DEF Conservation
    <3>4. TaskShape' BY <3>1 DEF TaskShape
    <3>5. accepted = processed \/ wpc # "drain"
      <4>1. SUFFICES ASSUME wpc = "drain" PROVE accepted = processed OBVIOUS
      <4>2. cur = <<>> /\ stranded = <<>> BY <4>1 DEF TaskShape
      <4> QED BY <4>2, <2>2, NothingLeft DEF Conservation, TypeOK
    <3>6. ShutdownShape' BY <3>1, <3>5 DEF ShutdownShape
    <3> QED BY <3>2, <3>3, <3>4, <3>6
  <2> QED BY <1>2, <2>1, <2>2
<1>3. ASSUME NEW ok \in BOOLEAN, Deliver(ok) PROVE WorkerInv'
  <2> USE <1>3 DEF Deliver, emitVars, downVars, flushVars
  <2>1. PICK e \in Env : cur = <<e>> BY DEF TaskShape
  <2>2. cur[1] = e BY <2>1
  <2>3. processed' = Append(processed, e) /\ cur' = <<>> BY <2>2
  <2>4. processed' \in Seq(Env) /\ Len(processed') = Len(processed) + 1
    BY <2>3, AppendProperties DEF TypeOK
  <2>5. unscrubbed' \subseteq Env BY <2>2 DEF TypeOK
  <2>6. wpc # "done" /\ stranded = <<>> /\ ~panicked BY DEF TaskShape, ShutdownShape
  <2>7. processed \o <<e>> \o queue \o stranded
          = Append(processed, e) \o <<>> \o queue \o stranded
    BY <1>t, DeliverConserves
  <2>8. CASE UNCHANGED <<queue, stranded, panicked>> /\ wpc' \in {"check", "drain"}
             /\ (wpc' = "drain" => wpc = "drain_deliver")
    <3>1. TypeOK' BY <2>3, <2>4, <2>5, <2>8, <1>e DEF TypeOK
    <3>2. Conservation' BY <2>1, <2>3, <2>7, <2>8 DEF Conservation
    <3>3. TaskShape' BY <2>3, <2>8 DEF TaskShape
    <3>4. ShutdownShape' BY <2>4, <2>6, <2>8, LenProperties DEF ShutdownShape, TypeOK
    <3> QED BY <3>1, <3>2, <3>3, <3>4
  <2>9. CASE panicked' = TRUE /\ TaskEnds
    <3>1. stranded' = queue /\ queue' = <<>> /\ wpc' = "done" BY <2>9 DEF TaskEnds
    <3>2. TypeOK' BY <2>3, <2>4, <2>5, <2>9, <3>1, <1>e, <1>s DEF TypeOK
    <3>3. Conservation'
      <4>1. processed' \o <<>> \o queue \o <<>> = processed' \o <<>> \o <<>> \o queue
        BY <2>4, <1>t, ExitConserves
      <4>2. accepted = processed' \o <<>> \o queue \o <<>>
        BY <2>1, <2>3, <2>6, <2>7 DEF Conservation
      <4> QED BY <2>3, <3>1, <4>1, <4>2, Zenon DEF Conservation
    <3>4. TaskShape' BY <2>3, <3>1 DEF TaskShape
    <3>5. ShutdownShape' BY <2>9, <3>1 DEF ShutdownShape
    <3> QED BY <3>2, <3>3, <3>4, <3>5
  <2> QED BY <2>8, <2>9
<1>4. ASSUME Check PROVE WorkerInv'
  <2> USE <1>4 DEF Check, emitVars, downVars, flushVars
  <2>1. TypeOK' BY DEF TypeOK
  <2>2. Conservation' BY DEF Conservation
  <2>3. TaskShape' BY DEF TaskShape
  <2>4. ShutdownShape' BY DEF ShutdownShape
  <2> QED BY <2>1, <2>2, <2>3, <2>4
<1>5. ASSUME TaskFlush PROVE WorkerInv'
  <2> USE <1>5 DEF TaskFlush, emitVars, downVars, flushVars
  <2>1. Len(processed) \in Nat BY LenProperties DEF TypeOK
  <2>2. cur = <<>> /\ stranded = <<>> /\ ~panicked BY DEF TaskShape, ShutdownShape
  <2>3. CASE flushed' = Len(processed) /\ wpc' = "exit" /\ UNCHANGED <<queue, stranded, panicked>>
    <3>1. TypeOK' BY <2>1, <2>3 DEF TypeOK
    <3>2. Conservation' BY <2>3 DEF Conservation
    <3>3. TaskShape' BY <2>3 DEF TaskShape
    <3>4. ShutdownShape' BY <2>2, <2>3 DEF ShutdownShape
    <3> QED BY <3>1, <3>2, <3>3, <3>4
  <2>4. CASE panicked' = TRUE /\ TaskEnds /\ UNCHANGED flushed
    <3>1. stranded' = queue /\ queue' = <<>> /\ wpc' = "done" BY <2>4 DEF TaskEnds
    <3>2. TypeOK' BY <2>4, <3>1, <1>e, <1>s DEF TypeOK
    <3>3. Conservation' BY <2>2, <3>1, ExitConserves DEF Conservation, TypeOK
    <3>4. TaskShape' BY <2>2, <3>1 DEF TaskShape
    <3>5. ShutdownShape' BY <2>4, <3>1 DEF ShutdownShape
    <3> QED BY <3>2, <3>3, <3>4, <3>5
  <2> QED BY <2>3, <2>4
<1>6. ASSUME Exit PROVE WorkerInv'
  <2> USE <1>6 DEF Exit, TaskEnds, emitVars, downVars, flushVars
  <2>1. TypeOK' BY <1>e, <1>s DEF TypeOK
  <2>2. cur = <<>> /\ stranded = <<>> BY DEF TaskShape
  <2>3. Conservation' BY <2>2, ExitConserves DEF Conservation, TypeOK
  <2>4. TaskShape' BY <2>2 DEF TaskShape
  <2>5. ShutdownShape' BY DEF ShutdownShape
  <2> QED BY <2>1, <2>3, <2>4, <2>5
<1>7. ASSUME NEW c \in Callers, Shutdown(c) \/ Timeout(c) PROVE WorkerInv'
  <2> USE DEF emitVars, taskVars, flushVars
  <2>0. Len(accepted) \in Nat BY LenProperties DEF TypeOK
  <2>1. CASE StoreFlag(c)
    <3> USE <2>1 DEF StoreFlag
    <3>1. mark' \in Nat \union {NoMark} /\ mark' # NoMark /\ mark' <= Len(accepted)
      BY <2>0 DEF TypeOK, ShutdownShape, NoMark
    <3>2. TypeOK' BY <3>1 DEF TypeOK
    <3>3. ShutdownShape' BY <3>1, <2>0 DEF ShutdownShape, TypeOK, NoMark
    <3> QED BY <3>2, <3>3 DEF Conservation, TaskShape
  <2>2. CASE TakeSender(c)
    <3> USE <2>2 DEF TakeSender
    <3>1. flag BY DEF ShutdownShape
    <3> QED BY <3>1 DEF TypeOK, Conservation, TaskShape, ShutdownShape
  <2>3. CASE LockJoin(c)
    <3> USE <2>3 DEF LockJoin
    <3>1. TypeOK'
      <4>1. spc' \in [Callers -> {"idle", "take", "lock", "join", "sink", "done", "panicked", "cancelled"}]
        BY DEF TypeOK
      <4>2. holder' \in Callers \union {NoCaller} /\ join' \in BOOLEAN OBVIOUS
      <4> QED BY <4>1, <4>2 DEF TypeOK
    <3>2. ShutdownShape' BY DEF ShutdownShape, TypeOK
    <3> QED BY <3>1, <3>2 DEF Conservation, TaskShape
  <2>4. CASE Joined(c)
    BY <2>4 DEF Joined, TypeOK, Conservation, TaskShape, ShutdownShape
  <2>5. CASE SinkShutdown(c)
    BY <2>5 DEF SinkShutdown, TypeOK, Conservation, TaskShape, ShutdownShape
  <2>6. CASE Timeout(c)
    BY <2>6 DEF Timeout, TypeOK, Conservation, TaskShape, ShutdownShape
  <2> QED BY <1>7, <2>1, <2>2, <2>3, <2>4, <2>5, <2>6 DEF Shutdown
<1>8. ASSUME Flush PROVE WorkerInv'
  <2> USE DEF emitVars, taskVars, downVars
  <2>0. Len(accepted) \in Nat /\ Len(processed) \in Nat BY LenProperties DEF TypeOK
  <2>1. CASE FlushCall
    BY <2>0, <2>1 DEF FlushCall, TypeOK, Conservation, TaskShape, ShutdownShape
  <2>2. CASE FlushSink
    BY <2>0, <2>2 DEF FlushSink, TypeOK, Conservation, TaskShape, ShutdownShape
  <2> QED BY <1>8, <2>1, <2>2 DEF Flush
<1>9. CASE UNCHANGED vars
  BY <1>9 DEF vars, TypeOK, Conservation, TaskShape, ShutdownShape
<1> QED
  BY <1>1, <1>2, <1>3, <1>4, <1>5, <1>6, <1>7, <1>8, <1>9 DEF Next, Task

(* Type correctness of the worker: in particular the channel never holds   *)
(* more envelopes than its capacity, whatever the emit threads do.         *)
THEOREM TypeCorrect == Spec => []TypeOK
<1>1. Init => WorkerInv BY WorkerInit
<1>2. WorkerInv /\ [Next]_vars => WorkerInv' BY WorkerNext
<1>3. WorkerInv => TypeOK BY DEF WorkerInv
<1> QED BY <1>1, <1>2, <1>3, PTL DEF Spec

(* No accepted envelope is lost, duplicated or reordered between try_send  *)
(* and deliver_one, whatever the interleaving of emits, shutdowns and      *)
(* flushes.                                                                *)
THEOREM ConservationHolds == Spec => []Conservation
<1>1. Init => WorkerInv BY WorkerInit
<1>2. WorkerInv /\ [Next]_vars => WorkerInv' BY WorkerNext
<1>3. WorkerInv => Conservation BY DEF WorkerInv
<1> QED BY <1>1, <1>2, <1>3, PTL DEF Spec

(* When the drain task has ended and the sink did not panic on it,         *)
(* everything accepted before the shutdown request was delivered and then  *)
(* flushed, even if a call of shutdown() was cancelled by its timeout.     *)
THEOREM ExitIsCleanHolds == Spec => []ExitIsClean
<1>1. Init => WorkerInv BY WorkerInit
<1>2. WorkerInv /\ [Next]_vars => WorkerInv' BY WorkerNext
<1>3. WorkerInv => ExitIsClean BY DEF WorkerInv, ShutdownShape, ExitIsClean
<1> QED BY <1>1, <1>2, <1>3, PTL DEF Spec

-------------------------------------------------------------------------------
(* No call of shutdown() was cancelled by its timeout. *)
NoneCancelled == \A c \in Callers : spc[c] # "cancelled"

(* A cancelled call stays cancelled. *)
LEMMA CancelledStays == TypeOK /\ [Next]_vars /\ NoneCancelled' => NoneCancelled
<1> SUFFICES ASSUME TypeOK, [Next]_vars, NoneCancelled' PROVE NoneCancelled
  OBVIOUS
<1> USE DEF NoneCancelled
<1>1. ASSUME NEW e \in Env, TrySend(e) PROVE NoneCancelled
  BY <1>1 DEF TrySend, taskVars, downVars
<1>2. CASE Task
  <2>1. UNCHANGED downVars
    BY <1>2 DEF Task, Recv, Deliver, Check, Drain, TaskFlush, Exit, TaskEnds
  <2> QED BY <2>1 DEF downVars
<1>3. ASSUME NEW c \in Callers, Shutdown(c) \/ Timeout(c) PROVE NoneCancelled
  BY <1>3 DEF Shutdown, StoreFlag, TakeSender, LockJoin, Joined, SinkShutdown, Timeout,
              TypeOK
<1>4. CASE Flush
  BY <1>4 DEF Flush, FlushCall, FlushSink, taskVars, downVars
<1>5. CASE UNCHANGED vars BY <1>5 DEF vars
<1> QED BY <1>1, <1>2, <1>3, <1>4, <1>5 DEF Next

(* The join invariant is preserved by every step that cancels no call.     *)
LEMMA JoinNext == TypeOK /\ JoinInv /\ [Next]_vars /\ NoneCancelled' => JoinInv'
<1> SUFFICES ASSUME TypeOK, JoinInv, [Next]_vars, NoneCancelled' PROVE JoinInv'
  OBVIOUS
<1> USE CallersAssumption DEF JoinInv
<1>1. ASSUME NEW e \in Env, TrySend(e) PROVE JoinInv'
  BY <1>1 DEF TrySend, taskVars, downVars
<1>2. CASE Task
  <2>1. UNCHANGED downVars /\ (wpc = "done" => wpc' = "done")
    BY <1>2 DEF Task, Recv, Deliver, Check, Drain, TaskFlush, Exit, TaskEnds
  <2> QED BY <2>1 DEF downVars
<1>3. ASSUME NEW c \in Callers, Shutdown(c) \/ Timeout(c) PROVE JoinInv'
  <2> USE DEF taskVars, TypeOK
  <2>1. CASE StoreFlag(c) BY <2>1 DEF StoreFlag
  <2>2. CASE TakeSender(c) BY <2>2 DEF TakeSender
  <2>3. CASE LockJoin(c) BY <2>3 DEF LockJoin
  <2>4. CASE Joined(c) BY <2>4 DEF Joined
  <2>5. CASE SinkShutdown(c) BY <2>5 DEF SinkShutdown
  <2>6. CASE Timeout(c) BY <2>6 DEF Timeout, NoneCancelled
  <2> QED BY <1>3, <2>1, <2>2, <2>3, <2>4, <2>5, <2>6 DEF Shutdown
<1>4. CASE Flush
  BY <1>4 DEF Flush, FlushCall, FlushSink, taskVars, downVars
<1>5. CASE UNCHANGED vars BY <1>5 DEF vars
<1> QED BY <1>1, <1>2, <1>3, <1>4, <1>5 DEF Next

(* While no call of shutdown() has been cancelled by its timeout, the sink *)
(* is shut down only after the drain task has ended, for any number of     *)
(* concurrent calls.                                                       *)
THEOREM SinkOutlivesTaskHolds == Spec => []SinkOutlivesTaskUncancelled
<1> DEFINE Inv == NoneCancelled => JoinInv
<1>1. Init => Inv BY CallersAssumption DEF Init, JoinInv
<1>2. TypeOK /\ Inv /\ [Next]_vars => Inv' BY JoinNext, CancelledStays
<1>3. Inv => SinkOutlivesTaskUncancelled
  BY DEF JoinInv, NoneCancelled, SinkOutlivesTask, SinkOutlivesTaskUncancelled
<1>4. Spec => []TypeOK BY TypeCorrect
<1> QED BY <1>1, <1>2, <1>3, <1>4, PTL DEF Spec

-------------------------------------------------------------------------------
(* What try_send accepted was emitted, hence accepted once. *)
AcceptedEmitted == \A i \in DOMAIN accepted : accepted[i] \in emitted

LEMMA EmittedNext == TypeOK /\ AcceptedEmitted /\ [Next]_vars => AcceptedEmitted'
<1> SUFFICES ASSUME TypeOK, AcceptedEmitted, [Next]_vars PROVE AcceptedEmitted'
  OBVIOUS
<1>1. ASSUME NEW e \in Env, TrySend(e) PROVE AcceptedEmitted'
  <2>1. CASE accepted' = accepted
    BY <1>1, <2>1 DEF TrySend, AcceptedEmitted
  <2>2. CASE accepted' = Append(accepted, e)
    <3>1. accepted \in Seq(Env)
      BY DEF TypeOK
    <3>2. \A i \in DOMAIN accepted' : accepted'[i] = e \/ (i \in DOMAIN accepted /\ accepted'[i] = accepted[i])
      BY <2>2, <3>1, AppendIs
    <3>3. emitted' = emitted \union {e}
      BY <1>1 DEF TrySend
    <3> QED
      BY <3>2, <3>3 DEF AcceptedEmitted
  <2> QED
    BY <1>1, <2>1, <2>2 DEF TrySend
<1>2. CASE UNCHANGED <<emitted, accepted>>
  BY <1>2 DEF AcceptedEmitted
<1>3. ASSUME Task \/ (\E c \in Callers : Shutdown(c) \/ Timeout(c)) \/ Flush \/ UNCHANGED vars
      PROVE  UNCHANGED <<emitted, accepted>>
  BY <1>3 DEF Task, Recv, Deliver, Check, Drain, TaskFlush, Exit, TaskEnds, Shutdown, StoreFlag, TakeSender,
              LockJoin, Joined, SinkShutdown, Timeout, Flush, FlushCall, FlushSink, emitVars, vars
<1> QED
  BY <1>1, <1>2, <1>3 DEF Next

(* Where the next envelope to deliver is, and how many wait. *)
LEMMA ConcatIs ==
    ASSUME NEW S, NEW p \in Seq(S), NEW c \in Seq(S), NEW q \in Seq(S), NEW r \in Seq(S)
    PROVE  /\ Len(p \o c \o q \o r) = Len(p) + Len(c) + Len(q) + Len(r)
           /\ Len(c) = 1 => (p \o c \o q \o r)[Len(p) + 1] = c[1]
<1>1. /\ p \o c \in Seq(S) /\ Len(p \o c) = Len(p) + Len(c)
      /\ Len(c) = 1 => (p \o c)[Len(p) + 1] = c[1]
  OBVIOUS
<1>2. PICK d : d = p \o c
  OBVIOUS
<1>3. /\ d \o q \in Seq(S) /\ Len(d \o q) = Len(d) + Len(q)
      /\ \A i \in 1..Len(d) : (d \o q)[i] = d[i]
  BY <1>1, <1>2
<1>4. PICK f : f = d \o q
  OBVIOUS
<1>5. /\ Len(f \o r) = Len(f) + Len(r) /\ \A i \in 1..Len(f) : (f \o r)[i] = f[i]
  BY <1>3, <1>4
<1>6. Len(p) \in Nat /\ Len(c) \in Nat /\ Len(q) \in Nat /\ Len(r) \in Nat
  OBVIOUS
<1>7. PICK a, b, g, h, u, v : /\ a = Len(p) /\ b = Len(c) /\ g = Len(q) /\ h = Len(r) /\ u = Len(d) /\ v = Len(f)
  OBVIOUS
<1>8. a \in Nat /\ b \in Nat /\ g \in Nat /\ h \in Nat /\ u = a + b /\ v = u + g
  BY <1>1, <1>2, <1>3, <1>4, <1>6, <1>7
<1>9. v + h = a + b + g + h /\ (b = 1 => a + 1 \in 1..u /\ a + 1 \in 1..v)
  BY ONLY <1>8
<1>10. p \o c \o q \o r = f \o r
  BY <1>2, <1>4
<1>11. Len(f \o r) = Len(p) + Len(c) + Len(q) + Len(r)
  BY ONLY <1>5, <1>7, <1>9
<1>12. Len(c) = 1 => (f \o r)[Len(p) + 1] = c[1]
  BY <1>1, <1>2, <1>3, <1>4, <1>5, <1>7, <1>9
<1> QED
  BY <1>10, <1>11, <1>12

LEMMA Waiting ==
    ASSUME WorkerInv
    PROVE  /\ Len(accepted) \in Nat /\ Len(processed) \in Nat
           /\ wpc # "done" => Len(accepted) <= Len(processed) + 1 + Len(queue)
           /\ wpc \in {"deliver", "drain_deliver"} =>
                Len(processed) < Len(accepted) /\ accepted[Len(processed) + 1] = cur[1]
<1>1. processed \in Seq(Env) /\ cur \in Seq(Env) /\ queue \in Seq(Env) /\ stranded \in Seq(Env)
      /\ accepted \in Seq(Env) /\ accepted = processed \o cur \o queue \o stranded
  BY DEF WorkerInv, TypeOK, Conservation
<1>2. /\ Len(accepted) = Len(processed) + Len(cur) + Len(queue) + Len(stranded)
      /\ Len(cur) = 1 => accepted[Len(processed) + 1] = cur[1]
  BY <1>1, ConcatIs
<1>3. /\ Len(accepted) \in Nat /\ Len(processed) \in Nat /\ Len(queue) \in Nat /\ Len(stranded) \in Nat
  BY <1>1
<1>4. wpc # "done" => Len(stranded) = 0
  BY DEF WorkerInv, TaskShape
<1>5. /\ wpc \in {"deliver", "drain_deliver"} => Len(cur) = 1
      /\ Len(cur) \in {0, 1}
  BY DEF WorkerInv, TaskShape
<1>6. /\ wpc # "done" => Len(accepted) <= Len(processed) + 1 + Len(queue)
      /\ Len(cur) = 1 => Len(processed) < Len(accepted)
  <2>1. PICK a, p, c, q, g \in Nat : /\ a = Len(accepted) /\ p = Len(processed) /\ c = Len(cur)
                                     /\ q = Len(queue) /\ g = Len(stranded)
    BY <1>1, <1>3
  <2>2. a = p + c + q + g /\ c \in {0, 1} /\ (wpc # "done" => g = 0)
    BY <1>2, <1>4, <1>5, <2>1
  <2>3. a = p + c + q + g /\ c <= 1
    BY <2>2
  <2>4. (g = 0 => a <= p + 1 + q) /\ (c = 1 => p < a)
    BY ONLY <2>3, a \in Nat, p \in Nat, c \in Nat, q \in Nat, g \in Nat
  <2> QED
    BY <2>1, <2>2, <2>4
<1>7. wpc \in {"deliver", "drain_deliver"} =>
        Len(processed) < Len(accepted) /\ accepted[Len(processed) + 1] = cur[1]
  BY <1>2, <1>5, <1>6
<1> QED
  BY <1>3, <1>6, <1>7

LEMMA FifoStep ==
    ASSUME WorkerInv, AcceptedEmitted, [Next]_vars
    PROVE  [Fifo!Next]_(Fifo!fifoVars)
<1> USE DEF Fifo!Next, Fifo!fifoVars
<1> DEFINE Rest == UNCHANGED <<accepted, processed, flushed, mark>> /\ UNCHANGED panicked
                  /\ (wpc' = "done") = (wpc = "done")
<1>0. Rest => [Fifo!Next]_(Fifo!fifoVars)
  OBVIOUS
<1>1. ASSUME NEW e \in Env, TrySend(e) PROVE [Fifo!Next]_(Fifo!fifoVars)
  <2>1. UNCHANGED <<processed, flushed, mark, wpc, panicked>>
    BY <1>1 DEF TrySend, taskVars, downVars
  <2>2. CASE Refused
    BY <1>0, <1>1, <2>1, <2>2 DEF TrySend
  <2>3. CASE ~Refused
    <3>1. accepted' = Append(accepted, e) /\ e \notin emitted /\ wpc # "done" /\ ~(Len(queue) >= Slots)
      BY <1>1, <2>3 DEF TrySend, Refused
    <3>2. e \notin {accepted[i] : i \in DOMAIN accepted}
      BY <3>1 DEF AcceptedEmitted
    <3>3. Len(accepted) - Len(processed) < Slots + 1
      <4>1. Slots \in Nat /\ Len(queue) \in Nat
        BY CapacityAssumption DEF Slots, WorkerInv, TypeOK
      <4> QED
        BY <3>1, <4>1, Waiting
    <3>4. Fifo!Send(e)
      BY <2>1, <3>1, <3>2, <3>3 DEF Fifo!Send
    <3> QED
      BY <3>4
  <2> QED
    BY <2>2, <2>3
<1>2. ASSUME NEW ok \in BOOLEAN, Deliver(ok) PROVE [Fifo!Next]_(Fifo!fifoVars)
  <2>1. /\ wpc \in {"deliver", "drain_deliver"}
        /\ processed' = Append(processed, cur[1]) /\ UNCHANGED <<accepted, flushed, mark>>
        /\ \/ wpc' \in {"check", "drain"} /\ UNCHANGED panicked
           \/ wpc' = "done" /\ panicked' = TRUE
    BY <1>2 DEF Deliver, TaskEnds, emitVars, downVars
  <2>2. Len(processed) < Len(accepted) /\ accepted[Len(processed) + 1] = cur[1]
    BY <2>1, Waiting
  <2>3. Fifo!HandOn
    BY <2>1, <2>2 DEF Fifo!HandOn
  <2>4. CASE wpc' \in {"check", "drain"} /\ UNCHANGED panicked
    <3>1. Fifo!Receive
      BY <2>1, <2>3, <2>4 DEF Fifo!Receive
    <3> QED
      BY <3>1
  <2>5. CASE wpc' = "done" /\ panicked' = TRUE
    <3>1. Fifo!Break
      BY <2>1, <2>3, <2>5 DEF Fifo!Break
    <3> QED
      BY <3>1
  <2> QED
    BY <2>1, <2>4, <2>5
<1>3. CASE Recv \/ Check \/ Drain
  <2>1. UNCHANGED <<accepted, processed, flushed, mark, panicked>> /\ wpc # "done" /\ wpc' # "done"
    BY <1>3 DEF Recv, Check, Drain, Pop, emitVars, downVars
  <2> QED
    BY <1>0, <2>1
<1>4. CASE TaskFlush
  <2>1. /\ wpc = "flush" /\ UNCHANGED <<accepted, processed, mark>>
        /\ \/ wpc' = "exit" /\ flushed' = Len(processed) /\ UNCHANGED panicked
           \/ wpc' = "done" /\ panicked' = TRUE /\ UNCHANGED flushed
    BY <1>4 DEF TaskFlush, TaskEnds, emitVars, downVars
  <2>2. CASE wpc' = "exit" /\ flushed' = Len(processed) /\ UNCHANGED panicked
    <3>1. Fifo!Sync
      BY <2>1, <2>2 DEF Fifo!Sync
    <3> QED
      BY <3>1
  <2>3. CASE wpc' = "done" /\ panicked' = TRUE /\ UNCHANGED flushed
    <3>1. mark # NoMark /\ mark <= Len(processed)
      BY <2>1 DEF WorkerInv, ShutdownShape
    <3>2. Fifo!Break
      BY <2>1, <2>3, <3>1 DEF Fifo!Break, Fifo!MayStop
    <3> QED
      BY <3>2
  <2> QED
    BY <2>1, <2>2, <2>3
<1>5. CASE Exit
  <2>1. wpc = "exit" /\ wpc' = "done" /\ UNCHANGED <<accepted, processed, flushed, mark, panicked>>
    BY <1>5 DEF Exit, TaskEnds, emitVars, downVars
  <2>2. mark # NoMark /\ mark <= Len(processed) /\ flushed = Len(processed)
    BY <2>1 DEF WorkerInv, ShutdownShape
  <2>3. Fifo!Close
    BY <2>1, <2>2 DEF Fifo!Close, Fifo!MayStop
  <2> QED
    BY <2>3
<1>6. ASSUME NEW c \in Callers, Shutdown(c) \/ Timeout(c) PROVE [Fifo!Next]_(Fifo!fifoVars)
  <2>1. UNCHANGED <<accepted, processed, flushed, wpc, panicked>>
    BY <1>6 DEF Shutdown, StoreFlag, TakeSender, LockJoin, Joined, SinkShutdown, Timeout, emitVars, taskVars
  <2>2. mark' = mark \/ (mark = NoMark /\ mark' = Len(accepted))
    BY <1>6 DEF Shutdown, StoreFlag, TakeSender, LockJoin, Joined, SinkShutdown, Timeout, WorkerInv, ShutdownShape
  <2>3. CASE mark' = mark
    BY <1>0, <2>1, <2>3
  <2>4. CASE mark = NoMark /\ mark' = Len(accepted)
    <3>1. Fifo!Ask
      BY <2>1, <2>4 DEF Fifo!Ask
    <3> QED
      BY <3>1
  <2> QED
    BY <2>2, <2>3, <2>4
<1>7. CASE FlushCall
  BY <1>0, <1>7 DEF FlushCall, emitVars, taskVars, downVars
<1>8. CASE FlushSink
  <2>1. UNCHANGED <<accepted, processed, mark, wpc, panicked>>
        /\ flushed' \in {flushed, Len(processed)}
    BY <1>8 DEF FlushSink, emitVars, taskVars, downVars
  <2>2. CASE flushed' = flushed
    BY <1>0, <2>1, <2>2
  <2>3. CASE flushed' = Len(processed)
    <3>1. Fifo!Sync
      BY <2>1, <2>3 DEF Fifo!Sync
    <3> QED
      BY <3>1
  <2> QED
    BY <2>1, <2>2, <2>3
<1>9. CASE UNCHANGED vars
  BY <1>0, <1>9 DEF vars
<1> QED
  BY <1>1, <1>2, <1>3, <1>4, <1>5, <1>6, <1>7, <1>8, <1>9 DEF Next, Task, Flush

(* The worker of a tier implements BoundedFifo, for any capacity, any        *)
(* envelopes and any number of concurrent calls of shutdown() and flush():   *)
(* deliver_one gets what try_send accepted, once and in order, and the task  *)
(* stops after a request only, with what came before it delivered and        *)
(* flushed, or by a panic of the sink.                                       *)
THEOREM WorkerIsFifo == Spec => FifoHolds
<1> DEFINE Inv == WorkerInv /\ AcceptedEmitted
<1>1. Init => Inv
  BY WorkerInit DEF Init, AcceptedEmitted
<1>2. Inv /\ [Next]_vars => Inv'
  BY WorkerNext, EmittedNext DEF WorkerInv
<1>3. Init => Fifo!Init
  BY DEF Init, Fifo!Init
<1>4. Inv /\ [Next]_vars => [Fifo!Next]_(Fifo!fifoVars)
  BY FifoStep
<1> QED
  BY <1>1, <1>2, <1>3, <1>4, PTL DEF Spec, FifoHolds, Fifo!Spec

-------------------------------------------------------------------------------
(* What a sink is shown: declarations and field tables. *)

LEMMA FieldsAre ==
    ASSUME NEW d, Declaration(d)
    PROVE  /\ d.fields \in Seq(Field) /\ Len(d.fields) \in Nat /\ DOMAIN d.fields = 1..Len(d.fields)
           /\ \A i \in DOMAIN d.fields : d.fields[i] \in Field
           /\ d.path \in {"derive", "proto"}
<1>1. d.fields \in Seq(Field) /\ d.path \in {"derive", "proto"}
  BY DEF Declaration
<1> QED
  BY ONLY <1>1

(* The number of every field is in its table, in the order of declaration. *)
LEMMA MetasAre ==
    ASSUME NEW d, Declaration(d)
    PROVE  /\ FieldMetas(d) \in Seq(Range(FieldMetas(d))) /\ DOMAIN FieldMetas(d) = DOMAIN d.fields
           /\ \A i \in DOMAIN d.fields :
                FieldMetas(d)[i] = [name |-> d.fields[i].name, number |-> FieldNumber(d, i),
                                    role |-> FieldRolePath(Kind(d, d.fields[i])),
                                    card |-> Card(d, d.fields[i]), class |-> Class(d, d.fields[i])]
<1> DEFINE M(i) == [name |-> d.fields[i].name, number |-> FieldNumber(d, i),
                    role |-> FieldRolePath(Kind(d, d.fields[i])),
                    card |-> Card(d, d.fields[i]), class |-> Class(d, d.fields[i])]
           n == Len(d.fields)
           S == Range(FieldMetas(d))
<1>1. n \in Nat /\ DOMAIN d.fields = 1..n
  BY FieldsAre
<1>2. FieldMetas(d) = [i \in 1..n |-> M(i)]
  BY <1>1 DEF FieldMetas
<1> HIDE DEF M, n
<1>3. FieldMetas(d) \in [1..n -> S]
  BY <1>2 DEF Range
<1> HIDE DEF S
<1>4. FieldMetas(d) \in Seq(S)
  BY <1>1, <1>3
<1>5. DOMAIN FieldMetas(d) = 1..n /\ \A i \in 1..n : FieldMetas(d)[i] = M(i)
  BY <1>2
<1> QED
  BY <1>1, <1>4, <1>5 DEF M, S

LEMMA MetaIs ==
    ASSUME NEW d, Declaration(d), NEW k \in DOMAIN d.fields
    PROVE  /\ FieldMetas(d)[k].number = FieldNumber(d, k) /\ FieldMetas(d)[k].name = d.fields[k].name
           /\ FieldMetas(d)[k].class = Class(d, d.fields[k])
           /\ FieldMetas(d)[k].role = FieldRolePath(Kind(d, d.fields[k]))
<1>1. PICK r, name, number, role, card, class :
        /\ r = FieldMetas(d)[k] /\ name = d.fields[k].name /\ number = FieldNumber(d, k)
        /\ role = FieldRolePath(Kind(d, d.fields[k])) /\ card = Card(d, d.fields[k])
        /\ class = Class(d, d.fields[k])
  OBVIOUS
<1>2. r = [name |-> name, number |-> number, role |-> role, card |-> card, class |-> class]
  BY <1>1, MetasAre
<1>3. r.name = name /\ r.number = number /\ r.role = role /\ r.class = class
  BY ONLY <1>2
<1> QED
  BY ONLY <1>1, <1>3

(* find: the first field with the number. *)
LEMMA MetaOfIs ==
    ASSUME NEW S, NEW metas \in Seq(S), NEW n
    PROVE  \/ MetaOf(metas, n) = <<>> /\ \A k \in DOMAIN metas : metas[k].number # n
           \/ \E k \in DOMAIN metas : MetaOf(metas, n) = <<metas[k]>> /\ metas[k].number = n
<1> DEFINE I == {i \in 1..Len(metas) : metas[i].number = n}
           s == SelectInSeq(metas, LAMBDA m : m.number = n)
<1>1. DOMAIN metas = 1..Len(metas) /\ I \subseteq Nat /\ Len(metas) \in Nat
  OBVIOUS
<1>2. s = IF I # {} THEN Min(I) ELSE 0
  BY DEF SelectInSeq
<1>3. MetaOf(metas, n) = IF s = 0 THEN <<>> ELSE <<metas[s]>>
  BY DEF MetaOf
<1>4. \A i : i \in I <=> i \in DOMAIN metas /\ metas[i].number = n
  BY <1>1
<1>5. 0 \notin I
  BY <1>1
<1> HIDE DEF I, s
<1>6. CASE I = {}
  BY <1>2, <1>3, <1>4, <1>6
<1>7. CASE I # {}
  <2>1. Min(I) \in I
    BY <1>1, <1>7, MinIsIn
  <2>2. s \in I /\ s # 0
    BY <1>2, <1>5, <1>7, <2>1
  <2> QED
    BY <1>3, <1>4, <2>2
<1> QED
  BY <1>6, <1>7

(* The same, of a field table. *)
LEMMA FieldFound ==
    ASSUME NEW d, Declaration(d), NEW n
    PROVE  \/ MetaOf(FieldMetas(d), n) = <<>> /\ \A k \in DOMAIN d.fields : FieldNumber(d, k) # n
           \/ \E k \in DOMAIN d.fields :
                /\ FieldNumber(d, k) = n /\ MetaOf(FieldMetas(d), n) = <<FieldMetas(d)[k]>>
                /\ MetaOf(FieldMetas(d), n) # <<>> /\ MetaOf(FieldMetas(d), n)[1] = FieldMetas(d)[k]
                /\ FieldMetas(d)[k].number = n /\ FieldMetas(d)[k].name = d.fields[k].name
                /\ FieldMetas(d)[k].class = Class(d, d.fields[k])
                /\ FieldMetas(d)[k].role = FieldRolePath(Kind(d, d.fields[k]))
<1>1. /\ FieldMetas(d) \in Seq(Range(FieldMetas(d))) /\ DOMAIN FieldMetas(d) = DOMAIN d.fields
      /\ \A k \in DOMAIN d.fields : /\ FieldMetas(d)[k].number = FieldNumber(d, k)
                                    /\ FieldMetas(d)[k].name = d.fields[k].name
                                    /\ FieldMetas(d)[k].class = Class(d, d.fields[k])
                                    /\ FieldMetas(d)[k].role = FieldRolePath(Kind(d, d.fields[k]))
  <2>1. FieldMetas(d) \in Seq(Range(FieldMetas(d))) /\ DOMAIN FieldMetas(d) = DOMAIN d.fields
    BY MetasAre
  <2> QED
    BY <2>1, MetaIs
<1>2. \A x : <<x>> # <<>> /\ <<x>>[1] = x
  OBVIOUS
<1> DEFINE metas == FieldMetas(d)
<1> HIDE DEF metas
<1>3. \/ MetaOf(metas, n) = <<>> /\ \A k \in DOMAIN metas : metas[k].number # n
      \/ \E k \in DOMAIN metas : MetaOf(metas, n) = <<metas[k]>> /\ metas[k].number = n
  BY <1>1, MetaOfIs DEF metas
<1> QED
  BY <1>1, <1>2, <1>3 DEF metas

LEMMA ClassifiedAs ==
    ASSUME NEW d, NEW f, f.class \in Classified
    PROVE  Class(d, f) = f.class
BY DEF Class, DecodeClassification, ParseClassification, Decode, Classified

LEMMA HashNames == \A d : HashInput(d).name = d.name
BY DEF HashInput, ProtoHashInput, DeriveHashInput

(* lookup: by hash, then by name. *)
LEMMA LookupIs ==
    ASSUME NEW S, NEW linked \in Seq(S), NEW hash, NEW h, NEW name
    PROVE  \/ /\ Lookup(linked, hash, h, name) = <<>>
              /\ \A k \in DOMAIN linked : hash[linked[k]] # h /\ linked[k].name # name
           \/ \E k \in DOMAIN linked :
                /\ Lookup(linked, hash, h, name) = <<linked[k]>>
                /\ \/ hash[linked[k]] = h
                   \/ linked[k].name = name /\ \A j \in DOMAIN linked : hash[linked[j]] # h
<1> DEFINE n == Len(linked)
           H == {i \in 1..n : hash[linked[i]] = h}
           N == {i \in 1..n : linked[i].name = name}
           byHash == SelectInSeq(linked, LAMBDA d : hash[d] = h)
           byName == SelectLastInSeq(linked, LAMBDA d : d.name = name)
<1>1. n \in Nat /\ DOMAIN linked = 1..n
  OBVIOUS
<1>2. byHash = IF H # {} THEN Min(H) ELSE 0
  BY DEF SelectInSeq
<1>3. byName = IF N # {} THEN Max(N) ELSE 0
  BY DEF SelectLastInSeq
<1>4. Lookup(linked, hash, h, name) =
        IF byHash # 0 THEN <<linked[byHash]>> ELSE IF byName # 0 THEN <<linked[byName]>> ELSE <<>>
  BY DEF Lookup
<1>5. H \in SUBSET Nat /\ N \in SUBSET (1..n) /\ 0 \notin H /\ 0 \notin N
  BY <1>1
<1>6. (\A i : i \in H <=> i \in DOMAIN linked /\ hash[linked[i]] = h)
      /\ \A i : i \in N <=> i \in DOMAIN linked /\ linked[i].name = name
  BY <1>1
<1> HIDE DEF n, H, N, byHash, byName
<1>7. H # {} => byHash \in H /\ byHash # 0
  BY <1>2, <1>5, MinIsIn
<1>8. N # {} => byName \in N /\ byName # 0
  BY <1>1, <1>3, <1>5, MaxIsIn
<1>9. CASE H # {}
  BY <1>4, <1>6, <1>7, <1>9
<1>10. CASE H = {} /\ N # {}
  BY <1>2, <1>4, <1>6, <1>8, <1>10
<1>11. CASE H = {} /\ N = {}
  BY <1>2, <1>3, <1>4, <1>6, <1>11
<1> QED
  BY <1>9, <1>10, <1>11

(* The two languages agree on a field whose words leave nothing out. *)
LEMMA SameWords ==
    ASSUME NEW d, NEW e, NEW f \in Field, f.kind \notin {"", "bogus"}, f.card \notin {"", "bogus"},
           f.class \notin {"", "bogus"}, f.type # "secret"
    PROVE  /\ Kind(d, f) = f.kind /\ Card(d, f) = f.card /\ Class(d, f) = f.class
           /\ DecodeFieldKind(f.kind) = f.kind /\ DecodeCardinality(f.card) = f.card
           /\ DecodeClassification(f.class) = f.class /\ LintType(d, f) = LintType(e, f)
<1>1. f.kind \in FieldKinds /\ f.card \in CardinalityWords /\ f.class \in {"internal"} \cup Classified
  BY DEF Field
<1>2. DecodeFieldKind(f.kind) = f.kind /\ ParseFieldKind(f.kind) = f.kind
  BY <1>1 DEF DecodeFieldKind, ParseFieldKind, Decode
<1>3. DecodeCardinality(f.card) = f.card /\ ParseCardinality(f.card) = f.card
  BY <1>1 DEF DecodeCardinality, ParseCardinality, Decode
<1>4. DecodeClassification(f.class) = f.class /\ ParseClassification(f.class) = f.class
  BY <1>1 DEF DecodeClassification, ParseClassification, Decode
<1>5. LintType(d, f) = LintType(e, f)
  <2>1. MapKindToLintType(f.type) = FromRustToken(f.type)
    BY DEF MapKindToLintType, FromRustToken
  <2> QED
    BY <2>1 DEF LintType
<1> QED
  BY <1>2, <1>3, <1>4, <1>5 DEF Kind, Card, Class

Twin(d) == [d EXCEPT !.path = IF @ = "proto" THEN "derive" ELSE "proto"]

(* The first part of PathsAgree. *)
LEMMA TwinAgrees ==
    ASSUME NEW d, Declaration(d), FullyAnnotated(d)
    PROVE  /\ EmitLints(d) = EmitLints(Twin(d)) /\ FieldMetas(d) = FieldMetas(Twin(d))
           /\ HashInput(d) = HashInput(Twin(d))
<1>1. PICK e : e = Twin(d)
  OBVIOUS
<1>2. /\ e.name = d.name /\ e.prefixed = d.prefixed /\ e.tier = d.tier /\ e.sev = d.sev /\ e.fields = d.fields
      /\ e.path \in {"derive", "proto"} /\ d.path \in {"derive", "proto"} /\ e.path # d.path
  BY <1>1 DEF Twin, Declaration
<1>3. \A i \in DOMAIN d.fields :
        /\ d.fields[i] \in Field /\ d.fields[i].kind \notin {"", "bogus"} /\ d.fields[i].card \notin {"", "bogus"}
        /\ d.fields[i].class \notin {"", "bogus"} /\ d.fields[i].type # "secret" /\ d.fields[i].number # 0
  BY FieldsAre DEF FullyAnnotated
<1>4. ASSUME NEW i \in DOMAIN d.fields
      PROVE  /\ Kind(d, d.fields[i]) = Kind(e, d.fields[i]) /\ Card(d, d.fields[i]) = Card(e, d.fields[i])
             /\ Class(d, d.fields[i]) = Class(e, d.fields[i]) /\ LintType(d, d.fields[i]) = LintType(e, d.fields[i])
             /\ FieldNumber(d, i) = FieldNumber(e, i)
             /\ DecodeFieldKind(d.fields[i].kind) = d.fields[i].kind
             /\ DecodeCardinality(d.fields[i].card) = d.fields[i].card
             /\ DecodeClassification(d.fields[i].class) = d.fields[i].class
  <2>1. FieldNumber(d, i) = FieldNumber(e, i)
    BY <1>2, <1>3 DEF FieldNumber
  <2>2. PICK f : f = d.fields[i]
    OBVIOUS
  <2>3. /\ f \in Field /\ f.kind \notin {"", "bogus"} /\ f.card \notin {"", "bogus"}
        /\ f.class \notin {"", "bogus"} /\ f.type # "secret"
    BY <1>3, <2>2
  <2>4. \A x, y : /\ Kind(x, f) = f.kind /\ Card(x, f) = f.card /\ Class(x, f) = f.class
                 /\ DecodeFieldKind(f.kind) = f.kind /\ DecodeCardinality(f.card) = f.card
                 /\ DecodeClassification(f.class) = f.class /\ LintType(x, f) = LintType(y, f)
    BY ONLY <2>3, SameWords
  <2> QED
    BY <2>1, <2>2, <2>4
<1>5. /\ TierOf(d) = d.tier /\ TierOf(e) = d.tier /\ SevOf(d) = d.sev /\ SevOf(e) = d.sev
      /\ DecodeTier(d.tier) = d.tier /\ d.tier # "" /\ d.sev # ""
  <2>1. d.tier \in TierWords /\ d.sev \in SeverityWords /\ d.tier # "" /\ d.sev # ""
    BY DEF Declaration, FullyAnnotated
  <2> QED
    BY <1>2, <2>1 DEF TierOf, SevOf, DecodeTier, ParseTier, DecodeSeverity, Decode
<1>6. EmitLints(d) = EmitLints(e)
  <2>1. BuildLintInput(d) = BuildLintInput(e)
    BY <1>2, <1>4, <1>5 DEF BuildLintInput
  <2> QED
    BY <2>1 DEF EmitLints
<1>7. FieldMetas(d) = FieldMetas(e)
  BY <1>2, <1>4 DEF FieldMetas
<1>8. ProtoHashInput(d) = ProtoHashInput(e) /\ DeriveHashInput(d) = DeriveHashInput(e)
      /\ ProtoHashInput(d) = DeriveHashInput(d)
  BY <1>2, <1>4, <1>5 DEF ProtoHashInput, DeriveHashInput
<1>9. HashInput(d) = HashInput(e)
  BY <1>8 DEF HashInput
<1> QED
  BY <1>1, <1>6, <1>7, <1>9

(* What a compiled declaration makes a label. *)
LEMMA LabelsPass ==
    ASSUME NEW d, Declaration(d), Compiles(d), NEW f, NEW i \in DOMAIN d.fields, f = d.fields[i],
           Kind(d, f) = "label", f.class \in Classified
    PROVE  f.class = "secret" /\ TierOf(d) \notin {"log", "audit"}
<1>1. PICK in : in = BuildLintInput(d)
  OBVIOUS
<1>2. PICK g : g = in.fields[i]
  OBVIOUS
<1>3. /\ in.tier = TierOf(d) /\ DOMAIN in.fields = DOMAIN d.fields
      /\ g.kind = Kind(d, f) /\ g.class = Class(d, f)
  BY <1>1, <1>2 DEF BuildLintInput
<1>4. CheckPerField(in, g) = {}
  BY <1>1, <1>2, <1>3 DEF Compiles, EmitLints
<1>5. Class(d, f) = f.class
  BY ClassifiedAs
<1>6. ~(g.kind = "label" /\ g.class = "pii")
  BY <1>4 DEF CheckPerField
<1>7. ~(g.class = "secret" /\ in.tier \in {"log", "audit"})
  BY <1>4 DEF CheckPerField
<1> QED
  BY <1>3, <1>5, <1>6, <1>7 DEF Classified

-------------------------------------------------------------------------------
(* The way of an envelope from the emitter to the sinks. *)

Entry(d) ==
    [number : Nat, wire : {"varint", "fixed", "bytes", "group", "cut"},
     of : {d.fields[i].name : i \in DOMAIN d.fields} \cup {"foreign"}, marked : BOOLEAN]

(* A value in a payload is a field's, under its number, or a foreign one. *)
Carries(d, x) ==
    /\ x \in Entry(d)
    /\ x.of # "foreign" => \E i \in DOMAIN d.fields : x.of = d.fields[i].name /\ x.number = FieldNumber(d, i)

EnvOk(d, e) ==
    /\ \A p \in DOMAIN e.payload : Carries(d, e.payload[p]) /\ ~e.payload[p].marked
    /\ \/ /\ e.name = d.name /\ e.hash = HashOf(d) /\ e.labels = Project(d, {"label"})
          /\ \A p \in DOMAIN e.payload : e.payload[p].wire # "cut"
       \/ /\ e.hash = HashInput(Elsewhere) /\ e.labels = {}
          /\ e.name = d.name \/ (e.name = "elsewhere" /\ \A p \in DOMAIN e.payload : e.payload[p].of = "foreign")

(* A value under the name of a classified field is let through only when     *)
(* another field has its number.                                             *)
Harmless(name) == \A f \in Author(name) : f.class \in Classified => SharedNumber(f)

ScrubOk(d, e, p, s) ==
    /\ \A q \in DOMAIN p : /\ q \in DOMAIN e.payload /\ p[q].number = e.payload[q].number
                           /\ Carries(d, p[q]) /\ (p[q].marked => p[q].wire = "bytes")
                           /\ e.name = d.name => p[q].wire # "cut"
    /\ ~collide => s \in {<<>>, <<d>>} /\ \A q \in DOMAIN p : ~p[q].marked => Harmless(p[q].of)

LinkOk == \E d \in Declarations : decls \in {<<Neighbour, d>>, <<d, Neighbour>>}

PointsOk ==
    \A p \in DOMAIN points : points[p].of \notin {"", "foreign"} /\ ~collide =>
        \E m \in TypedMetrics(Event) : m[1] = points[p].name

RowsOk == \A c \in DOMAIN decls : (\E S : rows[c] \in Seq(S)) /\ (~repeats => Aligned(rows[c]))

FlowInv ==
    /\ LinkOk
    /\ stage \in {"linked", "emitted", "scrubbed"} => Compiles(Event)
    /\ stage \in {"emitted", "scrubbed"} => EnvOk(Event, env)
    /\ stage = "scrubbed" => ScrubOk(Event, env, payload, schema)
    /\ RowsOk /\ RowsAligned /\ ClassifiedIsRedacted /\ PointsOk

LEMMA EventIs ==
    ASSUME LinkOk
    PROVE  /\ Event \in Declarations /\ Declaration(Event) /\ Declaration(Neighbour)
           /\ Event.name # Neighbour.name /\ Event.name # "elsewhere" /\ Neighbour.name # "elsewhere"
           /\ \A i \in DOMAIN Event.fields : Event.fields[i].name \notin {"", "foreign"}
           /\ decls \in Seq({Event, Neighbour}) /\ DOMAIN decls = 1..2
           /\ \A k \in DOMAIN decls : decls[k] \in {Event, Neighbour}
           /\ \E k \in DOMAIN decls : decls[k] = Event
           /\ Elsewhere.name = "elsewhere"
<1>1. PICK d \in Declarations : decls \in {<<Neighbour, d>>, <<d, Neighbour>>}
  BY DEF LinkOk
<1>2. d # Neighbour /\ d.name \notin {Neighbour.name, "elsewhere"} /\ Neighbour.name # "elsewhere"
      /\ Declaration(d) /\ Declaration(Neighbour)
      /\ \A i \in DOMAIN d.fields : d.fields[i].name \notin {"", "foreign"}
  BY DeclarationAssumption
<1>3. Event = d /\ decls \in Seq({d, Neighbour}) /\ DOMAIN decls = 1..2
      /\ decls[1] \in {d, Neighbour} /\ decls[2] \in {d, Neighbour} /\ (decls[1] = d \/ decls[2] = d)
  <2>1. CASE decls = <<Neighbour, d>>
    <3>1. decls[1] = Neighbour /\ decls[2] = d /\ DOMAIN decls = 1..2
      BY <2>1
    <3>2. <<Neighbour, d>> \in Seq({d, Neighbour})
      OBVIOUS
    <3> QED
      BY <2>1, <3>1, <3>2 DEF Event
  <2>2. CASE decls = <<d, Neighbour>>
    <3>1. decls[1] = d /\ decls[2] = Neighbour /\ DOMAIN decls = 1..2
      BY <2>2
    <3>2. <<d, Neighbour>> \in Seq({d, Neighbour})
      OBVIOUS
    <3> QED
      BY <1>2, <2>2, <3>1, <3>2 DEF Event
  <2> QED
    BY <1>1, <2>1, <2>2
<1>5. Elsewhere.name = "elsewhere"
  BY <1>2 DEF Elsewhere, Declaration
<1>6. \A k \in 1..2 : k = 1 \/ k = 2
  OBVIOUS
<1>7. 1 \in 1..2 /\ 2 \in 1..2
  OBVIOUS
<1> QED
  BY <1>1, <1>2, <1>3, <1>5, <1>6, <1>7

(* A field has its name for itself, and a foreign value is no field's. *)
LEMMA AuthorIs ==
    ASSUME LinkOk
    PROVE  /\ Author("foreign") = {} /\ Author("") = {}
           /\ \A i \in DOMAIN Event.fields : \A f \in Author(Event.fields[i].name) : f = Event.fields[i]
<1>1. \A i \in DOMAIN Event.fields : Event.fields[i].name \notin {"", "foreign"}
  BY EventIs
<1>2. \A i, j \in DOMAIN Event.fields : i # j => Event.fields[i].name # Event.fields[j].name
  BY EventIs DEF Declaration
<1> QED
  BY <1>1, <1>2 DEF Author

LEMMA EncodedIs ==
    ASSUME NEW d, Declaration(d), NEW set \in SUBSET DOMAIN d.fields
    PROVE  \A p \in DOMAIN EncodePayload(d, set) :
             /\ Carries(d, EncodePayload(d, set)[p]) /\ ~EncodePayload(d, set)[p].marked
             /\ EncodePayload(d, set)[p].wire # "cut"
<1> SUFFICES ASSUME NEW p \in DOMAIN EncodePayload(d, set)
             PROVE  /\ Carries(d, EncodePayload(d, set)[p]) /\ ~EncodePayload(d, set)[p].marked
                    /\ EncodePayload(d, set)[p].wire # "cut"
  OBVIOUS
<1>1. PICK x : x = EncodePayload(d, set)[p]
  OBVIOUS
<1>2. PICK i : i = CHOOSE j \in set : Place(d, j) = p
  OBVIOUS
<1>3. p \in {Place(d, j) : j \in set}
      /\ x = [number |-> FieldNumber(d, i), wire |-> Wire(d.fields[i].type), of |-> d.fields[i].name, marked |-> FALSE]
  BY <1>1, <1>2 DEF EncodePayload
<1>4. i \in set
  BY <1>2, <1>3
<1>5. i \in DOMAIN d.fields /\ FieldNumber(d, i) \in Nat
  <2>1. i \in DOMAIN d.fields /\ d.fields[i] \in Field /\ i \in Nat
    BY <1>4, FieldsAre
  <2>2. d.fields[i].number \in Nat
    BY <2>1 DEF Field
  <2> QED
    BY <2>1, <2>2 DEF FieldNumber
<1>6. Wire(d.fields[i].type) \in {"varint", "fixed", "bytes"}
  BY DEF Wire
<1>7. x \in Entry(d) /\ ~x.marked /\ x.wire # "cut" /\ x.of = d.fields[i].name /\ x.number = FieldNumber(d, i)
  BY <1>3, <1>5, <1>6 DEF Entry
<1> QED
  BY <1>1, <1>5, <1>7 DEF Carries

LEMMA FollowedIs ==
    ASSUME NEW p, NEW tail
    PROVE  \A q \in DOMAIN Followed(p, tail) :
             \/ Followed(p, tail)[q] = [number |-> tail[2], wire |-> tail[1], of |-> "foreign", marked |-> FALSE]
             \/ q \in DOMAIN p /\ Followed(p, tail)[q] = p[q]
BY DEF Followed

LEMMA EmitIsOk ==
    ASSUME LinkOk, Emit \/ EmitForeign
    PROVE  EnvOk(Event, env')
<1> DEFINE d == Event
<1>1. CASE Emit
  <2>1. PICK set \in SUBSET DOMAIN d.fields :
          env' = [name |-> d.name, hash |-> HashOf(d), payload |-> EncodePayload(d, set),
                  labels |-> Project(d, {"label"}), slots |-> Project(d, Correlations)]
    BY <1>1 DEF Emit, Send
  <2>2. \A p \in DOMAIN EncodePayload(d, set) :
          /\ Carries(d, EncodePayload(d, set)[p]) /\ ~EncodePayload(d, set)[p].marked
          /\ EncodePayload(d, set)[p].wire # "cut"
    BY EventIs, EncodedIs
  <2> HIDE DEF d
  <2>3. /\ env'.name = d.name /\ env'.hash = HashOf(d) /\ env'.labels = Project(d, {"label"})
        /\ env'.payload = EncodePayload(d, set)
    BY <2>1
  <2> QED
    BY <2>2, <2>3 DEF EnvOk, d
<1>2. CASE EmitForeign
  <2>1. PICK tail \in {<<"bytes", 9>>, <<"group", 9>>, <<"cut", 9>>, <<"varint", 1>>},
             name \in {d.name, "elsewhere"} :
          env' = [name |-> name, hash |-> HashInput(Elsewhere),
                  payload |-> Followed(IF name = "elsewhere" THEN <<>> ELSE EncodePayload(d, DOMAIN d.fields), tail),
                  labels |-> {}, slots |-> {}]
    BY <1>2 DEF EmitForeign, Send
  <2>b. PICK b : b = IF name = "elsewhere" THEN <<>> ELSE EncodePayload(d, DOMAIN d.fields)
    OBVIOUS
  <2>2. PICK x : x = [number |-> tail[2], wire |-> tail[1], of |-> "foreign", marked |-> FALSE]
    OBVIOUS
  <2>3. tail[2] \in Nat /\ tail[1] \in {"bytes", "group", "cut", "varint"}
    OBVIOUS
  <2>4. Carries(d, x) /\ ~x.marked /\ x.of = "foreign"
    BY <2>2, <2>3 DEF Carries, Entry
  <2>5. \A p \in DOMAIN b : Carries(d, b[p]) /\ ~b[p].marked
    <3>1. CASE name = "elsewhere"
      BY <2>b, <3>1
    <3>2. CASE name # "elsewhere"
      <4>1. b = EncodePayload(d, DOMAIN d.fields)
        BY <2>b, <3>2
      <4> QED
        BY <4>1, EventIs, EncodedIs
    <3> QED
      BY <3>1, <3>2
  <2>6. name = "elsewhere" => DOMAIN b = {}
    BY <2>b
  <2>7. d.name # "elsewhere"
    BY EventIs
  <2> HIDE DEF d
  <2>8. /\ env'.name = name /\ env'.hash = HashInput(Elsewhere) /\ env'.labels = {}
        /\ env'.payload = Followed(b, tail)
    BY <2>1, <2>b
  <2>9. \A q \in DOMAIN env'.payload : env'.payload[q] = x \/ (q \in DOMAIN b /\ env'.payload[q] = b[q])
    BY <2>2, <2>8, FollowedIs
  <2> QED
    BY <2>1, <2>4, <2>5, <2>6, <2>7, <2>8, <2>9 DEF EnvOk, d
<1> QED
  BY <1>1, <1>2

LEMMA ScrubbedIs ==
    ASSUME NEW d, NEW metas, NEW p, NEW r, r = ScrubPayload(p, metas),
           \A q \in DOMAIN p : Carries(d, p[q]) /\ ~p[q].marked
    PROVE  \A q \in DOMAIN r :
             /\ q \in DOMAIN p /\ Carries(d, r[q]) /\ r[q].number = p[q].number /\ r[q].of = p[q].of
             /\ r[q].wire = p[q].wire /\ (r[q].marked => r[q].wire = "bytes")
             /\ ~r[q].marked => ~IsClassified(metas, p[q])
<1> SUFFICES ASSUME NEW q \in DOMAIN r
             PROVE  /\ q \in DOMAIN p /\ Carries(d, r[q]) /\ r[q].number = p[q].number /\ r[q].of = p[q].of
                    /\ r[q].wire = p[q].wire /\ (r[q].marked => r[q].wire = "bytes")
                    /\ ~r[q].marked => ~IsClassified(metas, p[q])
  OBVIOUS
<1>1. /\ q \in DOMAIN p /\ (~IsClassified(metas, p[q]) \/ p[q].wire = "bytes")
      /\ r[q] = [p[q] EXCEPT !.marked = @ \/ IsClassified(metas, p[q])]
  BY DEF ScrubPayload
<1>2. p[q] \in Entry(d) /\ ~p[q].marked /\ Carries(d, p[q])
  BY <1>1 DEF Carries
<1>3. PICK b \in BOOLEAN : b <=> IsClassified(metas, p[q])
  OBVIOUS
<1>4. PICK x, y : x = p[q] /\ y = r[q]
  OBVIOUS
<1>5. y = [x EXCEPT !.marked = b]
  <2>1. (x.marked \/ IsClassified(metas, x)) = b
    BY <1>2, <1>3, <1>4 DEF Entry, IsClassified
  <2> QED
    BY <1>1, <1>4, <2>1
<1>6. y \in Entry(d) /\ y.number = x.number /\ y.of = x.of /\ y.wire = x.wire /\ y.marked = b
  BY <1>2, <1>4, <1>5 DEF Entry
<1> QED
  BY <1>1, <1>2, <1>3, <1>4, <1>6 DEF Carries

LEMMA ScrubIsOk ==
    ASSUME LinkOk, EnvOk(Event, env), Scrub, stage' = "scrubbed", stage = "emitted"
    PROVE  ScrubOk(Event, env, payload', schema')
<1>1. PICK d, sch, pay : d = Event /\ sch = schema' /\ pay = payload'
  OBVIOUS
<1>2. /\ Declaration(d) /\ d.name # Neighbour.name /\ d.name # "elsewhere" /\ Neighbour.name # "elsewhere"
      /\ decls \in Seq({d, Neighbour}) /\ (\A k \in DOMAIN decls : decls[k] \in {d, Neighbour})
      /\ (\E k \in DOMAIN decls : decls[k] = d) /\ Elsewhere.name = "elsewhere"
  BY <1>1, EventIs
<1>3. /\ sch = Lookup(decls, Hashes, env.hash, env.name)
      /\ IF sch = <<>> THEN pay = env.payload
         ELSE ~ScrubFails(env.payload) /\ pay = ScrubPayload(env.payload, FieldMetas(sch[1]))
  <2>1. sch = Lookup(decls, Hashes, env.hash, env.name)
    BY <1>1 DEF Scrub
  <2>2. CASE sch = <<>>
    BY <1>1, <2>1, <2>2 DEF Scrub
  <2>3. CASE sch # <<>>
    BY <1>1, <2>1, <2>3 DEF Scrub
  <2> QED
    BY <2>1, <2>2, <2>3
<1>4. EnvOk(d, env)
  BY <1>1
<1>5. \A k \in DOMAIN decls : Hashes[decls[k]] = HashOf(decls[k])
  BY ToSetIsRange DEF Hashes, Range
<1>6. \/ sch = <<>> /\ \A k \in DOMAIN decls : decls[k].name # env.name
      \/ \E k \in DOMAIN decls : sch = <<decls[k]>> /\ (HashOf(decls[k]) = env.hash \/ decls[k].name = env.name)
  <2>1. \/ sch = <<>> /\ \A k \in DOMAIN decls : decls[k].name # env.name
        \/ \E k \in DOMAIN decls : sch = <<decls[k]>> /\ (Hashes[decls[k]] = env.hash \/ decls[k].name = env.name)
    BY <1>2, <1>3, LookupIs
  <2> QED
    BY <1>5, <2>1
<1>7. ~collide => sch \in {<<>>, <<d>>}
  <2> SUFFICES ASSUME ~collide, NEW k \in DOMAIN decls, sch = <<decls[k]>>,
                      HashOf(decls[k]) = env.hash \/ decls[k].name = env.name
               PROVE  decls[k] = d
    BY <1>6
  <2>1. HashOf(decls[k]).name = decls[k].name /\ HashOf(d).name = d.name /\ HashInput(Elsewhere).name = "elsewhere"
    BY <1>2, HashNames DEF HashOf
  <2>2. decls[k].name = d.name \/ decls[k].name = "elsewhere"
    BY <1>4, <2>1 DEF EnvOk
  <2> QED
    BY <1>2, <2>2
<1>8. CASE sch = <<>>
  <2>1. pay = env.payload /\ env.name # d.name
    BY <1>2, <1>3, <1>6, <1>8
  <2>2. \A p \in DOMAIN pay : pay[p].of = "foreign" /\ Carries(d, pay[p]) /\ ~pay[p].marked
    BY <1>4, <2>1 DEF EnvOk
  <2>3. Harmless("foreign")
    BY AuthorIs DEF Harmless
  <2> QED
    BY <1>1, <1>7, <2>1, <2>2, <2>3 DEF ScrubOk
<1>9. CASE sch # <<>>
  <2>1. ~ScrubFails(env.payload) /\ pay = ScrubPayload(env.payload, FieldMetas(sch[1]))
    BY <1>3, <1>9
  <2>2. \A p \in DOMAIN env.payload : Carries(d, env.payload[p]) /\ ~env.payload[p].marked /\ env.payload[p].wire # "cut"
    BY <1>4, <2>1 DEF EnvOk, ScrubFails
  <2>3. \A q \in DOMAIN pay :
          /\ q \in DOMAIN env.payload /\ Carries(d, pay[q]) /\ pay[q].number = env.payload[q].number
          /\ pay[q].of = env.payload[q].of
          /\ pay[q].wire = env.payload[q].wire /\ (pay[q].marked => pay[q].wire = "bytes")
          /\ ~pay[q].marked => ~IsClassified(FieldMetas(sch[1]), env.payload[q])
    <3>1. PICK old, metas : old = env.payload /\ metas = FieldMetas(sch[1])
      OBVIOUS
    <3>2. pay = ScrubPayload(old, metas) /\ \A p \in DOMAIN old : Carries(d, old[p]) /\ ~old[p].marked
      BY <2>1, <2>2, <3>1
    <3>3. \A q \in DOMAIN pay :
            /\ q \in DOMAIN old /\ Carries(d, pay[q]) /\ pay[q].number = old[q].number /\ pay[q].of = old[q].of
            /\ pay[q].wire = old[q].wire /\ (pay[q].marked => pay[q].wire = "bytes")
            /\ ~pay[q].marked => ~IsClassified(metas, old[q])
      BY <3>2, ScrubbedIs
    <3> QED
      BY <3>1, <3>3
  <2>4. ASSUME ~collide, NEW q \in DOMAIN pay, ~pay[q].marked PROVE Harmless(pay[q].of)
    <3>1. sch[1] = d
      BY <1>7, <1>9, <2>4
    <3>2. ~IsClassified(FieldMetas(d), env.payload[q]) /\ Carries(d, env.payload[q])
      BY <2>2, <2>3, <2>4, <3>1
    <3>3. CASE pay[q].of = "foreign"
      BY <3>3, AuthorIs DEF Harmless
    <3>4. CASE pay[q].of # "foreign"
      <4>1. PICK i \in DOMAIN d.fields : pay[q].of = d.fields[i].name /\ env.payload[q].number = FieldNumber(d, i)
        BY <2>3, <3>2, <3>4 DEF Carries
      <4>2. PICK k \in DOMAIN d.fields : FieldNumber(d, k) = FieldNumber(d, i)
                                         /\ Class(d, d.fields[k]) \notin Classified
        <5>1. PICK n : n = env.payload[q].number
          OBVIOUS
        <5>2. ~(MetaOf(FieldMetas(d), n) # <<>> /\ MetaOf(FieldMetas(d), n)[1].class \in Classified)
          BY <3>2, <5>1 DEF IsClassified
        <5>3. PICK k \in DOMAIN d.fields :
                /\ FieldNumber(d, k) = n /\ MetaOf(FieldMetas(d), n) # <<>>
                /\ MetaOf(FieldMetas(d), n)[1] = FieldMetas(d)[k]
                /\ FieldMetas(d)[k].class = Class(d, d.fields[k])
          BY <1>2, <4>1, <5>1, FieldFound
        <5> QED
          BY <4>1, <5>1, <5>2, <5>3
      <4>3. ASSUME NEW f \in Author(pay[q].of), f.class \in Classified PROVE SharedNumber(f)
        <5>1. f = d.fields[i]
          BY <1>1, <4>1, AuthorIs
        <5>2. i # k
          BY <4>2, <4>3, <5>1, ClassifiedAs
        <5> QED
          BY <1>1, <4>2, <5>1, <5>2 DEF SharedNumber
      <4> QED
        BY <4>3 DEF Harmless
    <3> QED
      BY <3>3, <3>4
  <2> QED
    BY <1>1, <1>7, <2>2, <2>3, <2>4 DEF ScrubOk
<1> QED
  BY <1>8, <1>9

(* Whatever a sink behind the scrubber shows is a label, a slot, or a value  *)
(* of the scrubbed payload; and it keeps the marker.                         *)
FromPayload(x) == \E q \in DOMAIN payload : x.of = payload[q].of /\ (payload[q].marked => x.marked)

LEMMA CellsAre ==
    ASSUME NEW metas, NEW i \in DOMAIN metas, NEW v \in DecodeToArrow(payload, metas)[i], v.to = "value"
    PROVE  FromPayload(v)
<1> DEFINE seen == Declared(payload, metas)
           Given(m) == {[why |-> "entry", at |-> p, to |-> AppendValue(InferLeafType(m), payload[p], m.role),
                         of |-> payload[p].of, marked |-> payload[p].marked \/ IsClassified(metas, payload[p])] :
                            p \in {q \in seen : MetaAt(payload, metas, q).name = m.name}}
           Unset(m) == IF \E p \in seen : payload[p].number = m.number THEN {} ELSE {Null("unset")}
<1>1. DecodeToArrow(payload, metas)[i] = Given(metas[i]) \cup Unset(metas[i])
  BY DEF DecodeToArrow
<1>2. v \notin Unset(metas[i])
  <2>1. Null("unset").to # "value"
    BY DEF Null
  <2>2. v # Null("unset")
    BY <2>1
  <2> QED
    BY <2>2
<1> HIDE DEF Unset
<1>3. v \in Given(metas[i])
  BY <1>1, <1>2
<1>4. PICK p \in seen :
        v = [why |-> "entry", at |-> p, to |-> AppendValue(InferLeafType(metas[i]), payload[p], metas[i].role),
             of |-> payload[p].of, marked |-> payload[p].marked \/ IsClassified(metas, payload[p])]
  BY <1>3
<1>5. p \in DOMAIN payload
  BY DEF Declared, Readable
<1>6. v.of = payload[p].of /\ v.marked = (payload[p].marked \/ IsClassified(metas, payload[p]))
  BY <1>4
<1> QED
  BY <1>5, <1>6 DEF FromPayload

LEMMA RowCells ==
    ASSUME NEW d, NEW i \in DOMAIN RowFor(d), NEW v \in RowFor(d)[i], v.to = "value"
    PROVE  FromPayload(v)
<1> DEFINE metas == FieldMetas(d)
           row == DecodeToArrow(payload, metas)
<1>1. DOMAIN row = DOMAIN metas /\ \A why : Null(why).to # "value"
  BY DEF DecodeToArrow, Null
<1>2. \A j \in DOMAIN metas : \A u \in row[j] : u.to = "value" => FromPayload(u)
  BY CellsAre
<1>3. RowFor(d) = IF d.name = env.name
                    THEN IF DecodeFails(payload) THEN [j \in DOMAIN row |-> row[j] \cup AppendUnmatched(metas)[j]]
                                                 ELSE FinishMatchedRow(row)
                    ELSE AppendUnmatched(metas)
  BY DEF RowFor, MatchedRow
<1> HIDE DEF row, metas
<1>4. DOMAIN RowFor(d) = DOMAIN metas
  BY <1>1, <1>3 DEF FinishMatchedRow, AppendUnmatched
<1>5. AppendUnmatched(metas)[i] = {Null("unmatched")} /\ FinishMatchedRow(row)[i] \in {{Null("untouched")}, row[i]}
  BY <1>1, <1>4 DEF AppendUnmatched, FinishMatchedRow
<1>6. v \in row[i] \/ \E why : v = Null(why)
  BY <1>1, <1>3, <1>4, <1>5
<1> QED
  BY <1>1, <1>2, <1>4, <1>6

LEMMA ShownIs ==
    ASSUME \A q \in DOMAIN payload : payload[q].marked => payload[q].wire = "bytes",
           NEW s \in Sinks \ {"live_tail", "batch"}, NEW x \in View(s)
    PROVE  (x.where = "label" /\ x.of \in env.labels) \/ x.where = "slot" \/ FromPayload(x)
<1> DEFINE Shows(y) == (y.where = "label" /\ y.of \in env.labels) \/ y.where = "slot" \/ FromPayload(y)
<1>1. \A y \in Named("label", env.labels) : Shows(y)
  BY DEF Named
<1>2. \A names : \A y \in Named("slot", names) : Shows(y)
  BY DEF Named
<1>3. \A y \in Bytes(payload) : Shows(y)
  BY DEF Bytes, FromPayload
<1>4. \A y \in PointValues : Shows(y)
  <2> SUFFICES ASSUME NEW y \in PointValues PROVE FromPayload(y)
    OBVIOUS
  <2>1. PICK p \in DOMAIN Points : y = [where |-> "point", of |-> Points[p].of, marked |-> FALSE]
    BY DEF PointValues
  <2>2. Points # <<>> => Points = ProjectMetrics(payload, Metas)
    BY DEF Points
  <2>3. p \in DOMAIN payload /\ payload[p].wire # "bytes" /\ Points[p].of = payload[p].of
    BY <2>1, <2>2 DEF ProjectMetrics, Declared, Readable
  <2> QED
    BY <2>1, <2>3 DEF FromPayload
<1>5. \A v \in RenderJson(payload, Metas) : FromPayload(v)
  <2> SUFFICES ASSUME NEW v \in RenderJson(payload, Metas) PROVE FromPayload(v)
    OBVIOUS
  <2>1. PICK q \in Declared(payload, Metas) :
          v = [name |-> MetaAt(payload, Metas, q).name, of |-> payload[q].of,
               marked |-> payload[q].marked \/ IsClassified(Metas, payload[q])]
    BY DEF RenderJson
  <2>2. q \in DOMAIN payload
    BY DEF Declared, Readable
  <2>3. v.of = payload[q].of /\ v.marked = (payload[q].marked \/ IsClassified(Metas, payload[q]))
    BY <2>1
  <2> QED
    BY <2>2, <2>3 DEF FromPayload
<1>6. \A y : FromPayload(y) => FromPayload([where |-> "field", of |-> y.of, marked |-> y.marked])
  BY DEF FromPayload
<1>7. \A y \in RenderEnvelope : Shows(y)
  BY <1>1, <1>2 DEF RenderEnvelope
<1>8. \A y \in RenderNdjson : Shows(y)
  BY <1>5, <1>6, <1>7 DEF RenderNdjson
<1>9. \A y \in ParquetRow : Shows(y)
  <2>1. \A d : \A v \in Cells(RowFor(d)) : v.to = "value" => FromPayload(v)
    BY RowCells DEF Cells
  <2> QED
    BY <1>3, <1>6, <1>7, <2>1 DEF ParquetRow
<1>10. \A y \in RenderCompact \cup RenderFull \cup RenderPretty : Shows(y)
  BY <1>1, <1>2 DEF RenderCompact, RenderFull, RenderPretty
<1>11. \A y \in ProjectLog \cup SerializeRow \cup ProjectSpan : Shows(y)
  BY <1>3, <1>7 DEF ProjectLog, SerializeRow, ProjectSpan
<1>12. \A y \in ProjectMetricPoints \cup PromDeliver : Shows(y)
  BY <1>1, <1>4 DEF ProjectMetricPoints, PromDeliver
<1> HIDE DEF Shows
<1>13. x \in RenderCompact \cup RenderFull \cup RenderPretty \cup RenderEnvelope \cup RenderNdjson \cup ProjectLog
             \cup ProjectMetricPoints \cup ProjectSpan \cup PromDeliver \cup ParquetRow \cup SerializeRow
  BY DEF View, Sinks, Styles
<1>14. Shows(x)
  BY <1>7, <1>8, <1>9, <1>10, <1>11, <1>12, <1>13
<1> QED
  BY <1>14 DEF Shows

(* What the worker delivers may be shown. *)
LEMMA DeliveredIsOk ==
    ASSUME LinkOk, Compiles(Event), EnvOk(Event, env), ScrubOk(Event, env, payload, schema),
           NEW s \in Sinks \ {"live_tail", "batch"}, NEW x \in View(s), ~x.marked,
           NEW f \in Author(x.of), f.class \in Classified
    PROVE  Exempt(x, f)
<1> SUFFICES ASSUME ~collide, x.where # "slot" PROVE Exempt(x, f)
  BY DEF Exempt
<1>1. PICK d : d = Event
  OBVIOUS
<1>2. (x.where = "label" /\ x.of \in env.labels) \/ FromPayload(x)
  <2>1. \A q \in DOMAIN payload : payload[q].marked => payload[q].wire = "bytes"
    BY DEF ScrubOk
  <2> QED
    BY <2>1, ShownIs
<1>3. CASE x.where = "label" /\ x.of \in env.labels
  <2>1. x.of \in Project(d, {"label"})
    BY <1>1, <1>3 DEF EnvOk
  <2>2. PICK i \in DOMAIN d.fields : x.of = d.fields[i].name /\ Kind(d, d.fields[i]) = "label"
    BY <2>1 DEF Project
  <2>3. f = d.fields[i]
    BY <1>1, <2>2, AuthorIs
  <2>4. f.class = "secret" /\ TierOf(d) \notin {"log", "audit"}
    BY <1>1, <2>2, <2>3, LabelsPass, EventIs
  <2> QED
    BY <1>1, <1>3, <2>4 DEF Exempt
<1>4. CASE FromPayload(x)
  <2>1. PICK q \in DOMAIN payload : x.of = payload[q].of /\ ~payload[q].marked
    BY <1>4 DEF FromPayload
  <2>2. Harmless(x.of)
    BY <2>1 DEF ScrubOk
  <2> QED
    BY <2>2 DEF Harmless, Exempt
<1> QED
  BY <1>2, <1>3, <1>4

LEMMA OneTuple == \A r, p : p \in DOMAIN <<r>> => <<r>>[p] = r
OBVIOUS

LEMMA NoPlace == \A p : p \notin DOMAIN <<>>
OBVIOUS

LEMMA PointsFollow ==
    ASSUME LinkOk, ScrubOk(Event, env, payload, schema), ~collide, NEW p \in DOMAIN MetricPoints,
           MetricPoints[p].of # ""
    PROVE  \E m \in TypedMetrics(Event) : m[1] = MetricPoints[p].name
<1>1. PICK d : d = Event
  OBVIOUS
<1>2. MetricPoints = Points /\ p \in DOMAIN Points
  <2>1. DOMAIN Points # {}
    <3> SUFFICES ASSUME DOMAIN Points = {} PROVE FALSE
      OBVIOUS
    <3>1. PICK r : r = [name |-> "count", of |-> "", kind |-> "counter"]
      OBVIOUS
    <3>2. MetricPoints = <<r>> /\ r.of = ""
      BY <3>1 DEF MetricPoints
    <3>3. p \in DOMAIN <<r>>
      BY <3>2
    <3>4. <<r>>[p] = r
      BY ONLY <3>3, OneTuple
    <3> QED
      BY <3>2, <3>4
  <2> QED
    BY <2>1 DEF MetricPoints
<1>3. schema = <<d>>
  <2>1. schema # <<>>
    <3>1. Points # <<>>
      BY <1>2, NoPlace
    <3> QED
      BY <3>1 DEF Points
  <2> QED
    BY <1>1, <2>1 DEF ScrubOk
<1>4. Points = ProjectMetrics(payload, FieldMetas(d))
  BY <1>3 DEF Points, Metas
<1>5. PICK n, meta : n = payload[p].number /\ meta = MetaOf(FieldMetas(d), n)
  OBVIOUS
<1>6. meta # <<>> /\ meta[1].role = "measurement" /\ Points[p].name = meta[1].name
  BY <1>2, <1>4, <1>5 DEF ProjectMetrics, Declared, MetaAt
<1>7. PICK k \in DOMAIN d.fields : /\ meta[1] = FieldMetas(d)[k] /\ FieldMetas(d)[k].name = d.fields[k].name
                                   /\ FieldMetas(d)[k].role = FieldRolePath(Kind(d, d.fields[k]))
  <2>1. Declaration(d)
    BY <1>1, EventIs
  <2>2. MetaOf(FieldMetas(d), n) # <<>>
    BY <1>5, <1>6
  <2>3. \E k \in DOMAIN d.fields :
          /\ MetaOf(FieldMetas(d), n)[1] = FieldMetas(d)[k] /\ FieldMetas(d)[k].name = d.fields[k].name
          /\ FieldMetas(d)[k].role = FieldRolePath(Kind(d, d.fields[k]))
    <3>1. \/ MetaOf(FieldMetas(d), n) = <<>>
          \/ \E k \in DOMAIN d.fields :
               /\ MetaOf(FieldMetas(d), n)[1] = FieldMetas(d)[k] /\ FieldMetas(d)[k].name = d.fields[k].name
               /\ FieldMetas(d)[k].role = FieldRolePath(Kind(d, d.fields[k]))
      BY ONLY <2>1, FieldFound
    <3> QED
      BY ONLY <2>2, <3>1
  <2> QED
    BY <1>5, <2>3
<1>8. Kind(d, d.fields[k]) = "measurement" /\ Points[p].name = d.fields[k].name
  BY <1>6, <1>7 DEF FieldRolePath
<1>9. <<d.fields[k].name, DecodeMetricKind(d.fields[k].metric)>> \in TypedMetrics(d)
  BY <1>8 DEF TypedMetrics
<1> QED
  BY <1>1, <1>2, <1>8, <1>9

LEMMA RowIsAligned ==
    ASSUME LinkOk, EnvOk(Event, env), ScrubOk(Event, env, payload, schema), ~Repeats(env.payload),
           NEW d \in {Event, Neighbour}, NEW i \in DOMAIN RowFor(d)
    PROVE  \E cell \in RowFor(d)[i] : RowFor(d)[i] = {cell}
<1>1. CASE d.name # env.name
  <2>1. RowFor(d) = AppendUnmatched(FieldMetas(d))
    BY <1>1 DEF RowFor
  <2> QED
    BY <2>1 DEF AppendUnmatched
<1>2. CASE d.name = env.name
  <2> DEFINE metas == FieldMetas(d)
             seen == Declared(payload, metas)
             row == DecodeToArrow(payload, metas)
             Given(m) == {[why |-> "entry", at |-> p, to |-> AppendValue(InferLeafType(m), payload[p], m.role),
                           of |-> payload[p].of, marked |-> payload[p].marked \/ IsClassified(metas, payload[p])] :
                              p \in {q \in seen : MetaAt(payload, metas, q).name = m.name}}
             Unset(m) == IF \E p \in seen : payload[p].number = m.number THEN {} ELSE {Null("unset")}
  <2>1. d = Event /\ Declaration(d)
    BY <1>2, EventIs DEF EnvOk
  <2>2. ~DecodeFails(payload)
    BY <1>2, <2>1 DEF ScrubOk, DecodeFails
  <2>3. RowFor(d) = FinishMatchedRow(row) /\ DOMAIN row = DOMAIN metas
    BY <1>2, <2>2 DEF RowFor, MatchedRow, DecodeToArrow
  <2>4. i \in DOMAIN metas /\ row[i] = Given(metas[i]) \cup Unset(metas[i])
        /\ RowFor(d)[i] = IF row[i] = {} THEN {Null("untouched")} ELSE row[i]
    <3>1. i \in DOMAIN metas /\ RowFor(d)[i] = IF row[i] = {} THEN {Null("untouched")} ELSE row[i]
      BY <2>3 DEF FinishMatchedRow
    <3>2. row[i] = Given(metas[i]) \cup Unset(metas[i])
      BY <3>1 DEF DecodeToArrow
    <3> QED
      BY <3>1, <3>2
  <2>5. \A p \in seen : MetaAt(payload, metas, p).name = metas[i].name => payload[p].number = metas[i].number
    <3> SUFFICES ASSUME NEW p \in seen, MetaAt(payload, metas, p).name = metas[i].name
                 PROVE  payload[p].number = metas[i].number
      OBVIOUS
    <3>1. PICK n : n = payload[p].number
      OBVIOUS
    <3>2. MetaOf(metas, n) # <<>> /\ MetaOf(metas, n)[1].name = metas[i].name
      BY <3>1 DEF Declared, MetaAt
    <3>3. PICK k \in DOMAIN d.fields : /\ MetaOf(metas, n)[1] = metas[k] /\ metas[k].number = n
                                       /\ metas[k].name = d.fields[k].name
      BY <2>1, <3>2, FieldFound
    <3>4. i \in DOMAIN d.fields /\ metas[i].name = d.fields[i].name
      <4>1. i \in DOMAIN d.fields
        BY <2>1, <2>4, MetasAre
      <4> QED
        BY <2>1, <4>1, MetaIs
    <3>5. k = i
      <4>1. \A a, b \in DOMAIN d.fields : a # b => d.fields[a].name # d.fields[b].name
        BY <2>1 DEF Declaration
      <4> QED
        BY <3>2, <3>3, <3>4, <4>1
    <3> QED
      BY <3>1, <3>3, <3>5
  <2>6. \A p, q \in seen : payload[p].number = payload[q].number => p = q
    BY DEF Declared, Readable, ScrubOk, Repeats
  <2>7. \A a, b \in Given(metas[i]) : a = b
    BY <2>5, <2>6
  <2>8. Given(metas[i]) # {} => Unset(metas[i]) = {}
    BY <2>5
  <2>9. Unset(metas[i]) \in {{}, {Null("unset")}}
    OBVIOUS
  <2> HIDE DEF Given, Unset, row
  <2>10. \A a, b \in row[i] : a = b
    BY <2>4, <2>7, <2>8, <2>9
  <2> QED
    BY <2>4, <2>10
<1> QED
  BY <1>1, <1>2

(* Encoding a batch: a row more leaves the batch aligned when it is. *)
LEMMA RowsGrow ==
    ASSUME NEW S, NEW s \in Seq(S), NEW row
    PROVE  /\ \E T : Append(s, row) \in Seq(T)
           /\ Aligned(s) /\ (\A i \in DOMAIN row : \E cell \in row[i] : row[i] = {cell}) => Aligned(Append(s, row))
<1> DEFINE T == S \cup {row}
           t == Append(s, row)
<1>1. s \in Seq(T) /\ row \in T
  OBVIOUS
<1> HIDE DEF T
<1>2. /\ t \in Seq(T) /\ Len(t) = Len(s) + 1 /\ t[Len(s) + 1] = row
      /\ \A i \in 1..Len(s) : t[i] = s[i]
      /\ \A i \in 1..(Len(s) + 1) : i = Len(s) + 1 \/ i \in 1..Len(s)
  BY <1>1, AppendIs
<1>3. DOMAIN t = 1..(Len(s) + 1) /\ DOMAIN s = 1..Len(s)
  BY <1>1, <1>2
<1> HIDE DEF t
<1>4. \A r \in DOMAIN t : t[r] = row \/ (r \in DOMAIN s /\ t[r] = s[r])
  BY <1>2, <1>3
<1>5. ASSUME Aligned(s), \A i \in DOMAIN row : \E cell \in row[i] : row[i] = {cell}
      PROVE  Aligned(t)
  <2> SUFFICES ASSUME NEW r \in DOMAIN t, NEW i \in DOMAIN t[r]
               PROVE  \E cell \in t[r][i] : t[r][i] = {cell}
    BY DEF Aligned
  <2>1. CASE t[r] = row
    BY <1>5, <2>1
  <2>2. CASE r \in DOMAIN s /\ t[r] = s[r]
    BY <1>5, <2>2 DEF Aligned
  <2> QED
    BY <1>4, <2>1, <2>2
<1> QED
  BY <1>2, <1>5 DEF t

LEMMA NoneAligned == Aligned(<<>>)
BY NoPlace DEF Aligned

LEMMA FlowStarts == FlowInit => FlowInv
<1> SUFFICES ASSUME FlowInit PROVE FlowInv
  OBVIOUS
<1>1. LinkOk
  BY DEF FlowInit, LinkOk
<1>2. stage = "written" /\ encoded = "none"
  BY DEF FlowInit
<1>3. RowsOk
  <2>1. \A c \in DOMAIN decls : rows[c] = <<>>
    BY DEF FlowInit
  <2>2. <<>> \in Seq({})
    OBVIOUS
  <2> QED
    BY <2>1, <2>2, NoneAligned DEF RowsOk
<1>4. ClassifiedIsRedacted
  BY DEF FlowInit, ClassifiedIsRedacted
<1>5. PointsOk
  BY NoPlace DEF FlowInit, PointsOk
<1> QED
  BY <1>1, <1>2, <1>3, <1>4, <1>5 DEF FlowInv, RowsAligned

(* What a step of the emitter or the worker before the sinks leaves alone. *)
LEMMA SinksStay ==
    ASSUME FlowInv, UNCHANGED <<decls, collide, shown, points, rows, encoded, repeats>>
    PROVE  /\ LinkOk' /\ RowsOk' /\ RowsAligned' /\ ClassifiedIsRedacted' /\ PointsOk'
           /\ Event' = Event /\ \A d : HashOf(d)' = HashOf(d)
<1>1. LinkOk' /\ Event' = Event /\ \A d : HashOf(d)' = HashOf(d)
  BY DEF FlowInv, LinkOk, Event, HashOf
<1>2. RowsOk' /\ RowsAligned'
  BY DEF FlowInv, RowsOk, RowsAligned
<1>3. PointsOk'
  BY <1>1 DEF FlowInv, PointsOk
<1>4. ClassifiedIsRedacted'
  BY <1>1 DEF FlowInv, ClassifiedIsRedacted, Author, Exempt, SharedNumber
<1> QED
  BY <1>1, <1>2, <1>3, <1>4

LEMMA BuildStep == FlowInv /\ Build => FlowInv'
<1> SUFFICES ASSUME FlowInv, Build PROVE FlowInv'
  OBVIOUS
<1>1. UNCHANGED <<decls, collide, shown, points, rows, encoded, repeats>>
  BY DEF Build
<1>2. /\ LinkOk' /\ RowsOk' /\ RowsAligned' /\ ClassifiedIsRedacted' /\ PointsOk'
      /\ Event' = Event
  BY <1>1, SinksStay
<1>3. stage' \in {"linked", "rejected"} /\ (stage' = "linked" => \A i \in DOMAIN decls : Compiles(decls[i]))
  BY DEF Build
<1>4. \E k \in DOMAIN decls : decls[k] = Event
  BY EventIs DEF FlowInv
<1>5. stage' = "linked" => Compiles(Event)
  BY <1>3, <1>4
<1> QED
  BY <1>2, <1>3, <1>5 DEF FlowInv

LEMMA EmitStep == FlowInv /\ (Emit \/ EmitForeign) => FlowInv'
<1> SUFFICES ASSUME FlowInv, Emit \/ EmitForeign PROVE FlowInv'
  OBVIOUS
<1>1. /\ UNCHANGED <<decls, collide, shown, points, rows, encoded, repeats>>
      /\ stage = "linked" /\ stage' = "emitted"
  BY DEF Emit, EmitForeign, Send
<1>2. /\ LinkOk' /\ RowsOk' /\ RowsAligned' /\ ClassifiedIsRedacted' /\ PointsOk'
      /\ Event' = Event /\ \A d : HashOf(d)' = HashOf(d)
  BY <1>1, SinksStay
<1>3. Compiles(Event)
  BY <1>1 DEF FlowInv
<1>4. EnvOk(Event, env')
  BY EmitIsOk DEF FlowInv
<1>5. EnvOk(Event, env)'
  BY <1>2, <1>4 DEF EnvOk
<1> QED
  BY <1>1, <1>2, <1>3, <1>5 DEF FlowInv

LEMMA ScrubStep == FlowInv /\ Scrub => FlowInv'
<1> SUFFICES ASSUME FlowInv, Scrub PROVE FlowInv'
  OBVIOUS
<1>1. /\ UNCHANGED <<decls, collide, shown, points, rows, encoded, repeats>>
      /\ UNCHANGED env /\ stage = "emitted" /\ stage' \in {"scrubbed", "linked"}
  BY DEF Scrub
<1>2. /\ LinkOk' /\ RowsOk' /\ RowsAligned' /\ ClassifiedIsRedacted' /\ PointsOk'
      /\ Event' = Event /\ \A d : HashOf(d)' = HashOf(d)
  BY <1>1, SinksStay
<1>3. Compiles(Event) /\ EnvOk(Event, env) /\ LinkOk
  BY <1>1 DEF FlowInv
<1>4. EnvOk(Event, env)'
  BY <1>1, <1>2, <1>3 DEF EnvOk
<1>5. ASSUME stage' = "scrubbed" PROVE ScrubOk(Event, env, payload, schema)'
  <2>1. ScrubOk(Event, env, payload', schema')
    BY <1>1, <1>3, <1>5, ScrubIsOk
  <2>2. \A name : Harmless(name)' = Harmless(name)
    BY <1>2 DEF Harmless, Author, SharedNumber
  <2> QED
    BY <1>1, <1>2, <2>1, <2>2 DEF ScrubOk
<1> QED
  BY <1>1, <1>2, <1>3, <1>4, <1>5 DEF FlowInv

LEMMA DeliverStep == FlowInv /\ DeliverToSinks => FlowInv'
<1> SUFFICES ASSUME FlowInv, DeliverToSinks PROVE FlowInv'
  OBVIOUS
<1>1. /\ UNCHANGED <<decls, collide, env, payload, schema, encoded>>
      /\ stage = "scrubbed" /\ stage' = "linked"
      /\ repeats' = (repeats \/ Repeats(env.payload))
  BY DEF DeliverToSinks
<1>2. LinkOk /\ Compiles(Event) /\ EnvOk(Event, env) /\ ScrubOk(Event, env, payload, schema)
  BY <1>1 DEF FlowInv
<1>3. LinkOk' /\ Event' = Event
  BY <1>1, <1>2 DEF LinkOk, Event
<1>4. ClassifiedIsRedacted'
  <2>1. \A s \in Sinks : shown'[s] = View(s)
    BY DEF DeliverToSinks
  <2>2. ASSUME NEW s \in Sinks \ {"live_tail", "batch"}, NEW x \in shown'[s], ~x.marked,
               NEW f \in Author(x.of), f.class \in Classified
        PROVE  Exempt(x, f)
    BY <1>2, <2>1, <2>2, DeliveredIsOk
  <2>3. \A name : Author(name)' = Author(name)
    BY <1>3 DEF Author
  <2>4. \A x, f : Exempt(x, f)' = Exempt(x, f)
    BY <1>1, <1>3 DEF Exempt, SharedNumber
  <2> QED
    BY <2>2, <2>3, <2>4 DEF ClassifiedIsRedacted
<1>5. PointsOk'
  <2>1. points' = MetricPoints
    BY DEF DeliverToSinks
  <2>2. ASSUME NEW p \in DOMAIN MetricPoints, MetricPoints[p].of # "", ~collide
        PROVE  \E m \in TypedMetrics(Event) : m[1] = MetricPoints[p].name
    BY <1>2, <2>2, PointsFollow
  <2> QED
    BY <1>1, <1>3, <2>1, <2>2 DEF PointsOk
<1>6. RowsOk'
  <2> SUFFICES ASSUME NEW c \in DOMAIN decls
               PROVE  (\E S : rows'[c] \in Seq(S)) /\ (~repeats' => Aligned(rows'[c]))
    BY <1>1 DEF RowsOk
  <2>1. rows'[c] = Append(rows[c], RowFor(decls[c]))
    BY DEF DeliverToSinks
  <2>2. PICK S : rows[c] \in Seq(S)
    BY DEF FlowInv, RowsOk
  <2>3. \E T : rows'[c] \in Seq(T)
    BY <2>1, <2>2, RowsGrow
  <2>4. ASSUME ~repeats' PROVE Aligned(rows'[c])
    <3>1. Aligned(rows[c]) /\ ~Repeats(env.payload)
      BY <1>1, <2>4 DEF FlowInv, RowsOk
    <3>2. PICK d \in {Event, Neighbour} : d = decls[c]
      BY <1>2, EventIs
    <3>3. \A i \in DOMAIN RowFor(d) : \E cell \in RowFor(d)[i] : RowFor(d)[i] = {cell}
      BY <1>2, <3>1, RowIsAligned
    <3>4. PICK row, s : row = RowFor(d) /\ s = rows[c]
      OBVIOUS
    <3>5. s \in Seq(S) /\ Aligned(s) /\ \A i \in DOMAIN row : \E cell \in row[i] : row[i] = {cell}
      BY <2>2, <3>1, <3>3, <3>4
    <3>6. Aligned(Append(s, row))
      BY ONLY <3>5, RowsGrow
    <3> QED
      BY <2>1, <3>2, <3>4, <3>6
  <2> QED
    BY <2>3, <2>4
<1>7. RowsAligned'
  BY <1>1 DEF FlowInv, RowsAligned
<1> QED
  BY <1>1, <1>2, <1>3, <1>4, <1>5, <1>6, <1>7 DEF FlowInv

LEMMA BatchStep == FlowInv /\ BuildRecordBatch => FlowInv'
<1> SUFFICES ASSUME FlowInv, BuildRecordBatch PROVE FlowInv'
  OBVIOUS
<1>1. /\ UNCHANGED <<decls, collide, stage, shown, points, rows, repeats>> /\ stage = "linked"
      /\ encoded' = IF \A c \in DOMAIN decls : Aligned(rows[c]) THEN "file" ELSE "failed"
  BY DEF BuildRecordBatch
<1>2. LinkOk' /\ Event' = Event
  BY <1>1 DEF FlowInv, LinkOk, Event
<1>3. RowsOk' /\ RowsAligned'
  BY <1>1 DEF FlowInv, RowsOk, RowsAligned
<1>4. PointsOk'
  BY <1>1, <1>2 DEF FlowInv, PointsOk
<1>5. ClassifiedIsRedacted'
  BY <1>1, <1>2 DEF FlowInv, ClassifiedIsRedacted, Author, Exempt, SharedNumber
<1> QED
  BY <1>1, <1>2, <1>3, <1>4, <1>5 DEF FlowInv

LEMMA FlowRests == FlowInv /\ UNCHANGED flowVars => FlowInv'
<1> SUFFICES ASSUME FlowInv, UNCHANGED flowVars PROVE FlowInv'
  OBVIOUS
<1>1. /\ LinkOk' /\ RowsOk' /\ RowsAligned' /\ ClassifiedIsRedacted' /\ PointsOk'
      /\ Event' = Event /\ \A d : HashOf(d)' = HashOf(d)
  BY SinksStay DEF flowVars
<1>2. UNCHANGED <<stage, env, payload, schema, collide>>
  BY DEF flowVars
<1>3. \A name : Harmless(name)' = Harmless(name)
  BY <1>1 DEF Harmless, Author, SharedNumber
<1>4. stage \in {"emitted", "scrubbed"} => EnvOk(Event, env)'
  BY <1>1, <1>2 DEF FlowInv, EnvOk
<1>5. stage = "scrubbed" => ScrubOk(Event, env, payload, schema)'
  BY <1>1, <1>2, <1>3 DEF FlowInv, ScrubOk
<1> QED
  BY <1>1, <1>2, <1>4, <1>5 DEF FlowInv

LEMMA FlowInvHolds == FlowSpec => []FlowInv
<1>1. FlowInv /\ [FlowNext]_flowVars => FlowInv'
  BY BuildStep, EmitStep, ScrubStep, DeliverStep, BatchStep, FlowRests DEF FlowNext
<1> QED
  BY <1>1, FlowStarts, PTL DEF FlowSpec

(* Whatever events are declared and in whatever order they are linked, no    *)
(* sink behind ScrubbedEnvelope::scrub is shown the value of a field that is *)
(* declared PII or SECRET, but for what Exempt names.                        *)
THEOREM ClassifiedIsRedactedHolds == FlowSpec => []ClassifiedIsRedacted
<1>1. FlowInv => ClassifiedIsRedacted
  BY DEF FlowInv
<1> QED
  BY <1>1, FlowInvHolds, PTL

(* A declaration without defaults has the same lints, field table and schema *)
(* hash in both languages, and the metric points that the OTLP sink derives  *)
(* from a field table are those of measurements of the declaration.          *)
THEOREM PathsAgreeHolds == FlowSpec => []PathsAgree
<1>1. FlowInv => PathsAgree
  <2> SUFFICES ASSUME FlowInv PROVE PathsAgree
    OBVIOUS
  <2>1. PICK d : d = Event
    OBVIOUS
  <2>2. Declaration(d)
    BY <2>1, EventIs DEF FlowInv
  <2>3. FullyAnnotated(d) =>
          EmitLints(d) = EmitLints(Twin(d)) /\ FieldMetas(d) = FieldMetas(Twin(d)) /\ HashInput(d) = HashInput(Twin(d))
    BY <2>2, TwinAgrees
  <2>4. PointsOk
    BY DEF FlowInv
  <2> QED
    BY <2>1, <2>3, <2>4 DEF PathsAgree, PointsOk, Twin
<1> QED
  BY <1>1, FlowInvHolds, PTL

(* build_record_batch encodes every batch of scrubbed payloads in which no   *)
(* payload held a field number twice.                                        *)
THEOREM RowsAlignedHolds == FlowSpec => []RowsAligned
<1>1. FlowInv => RowsAligned
  BY DEF FlowInv
<1> QED
  BY <1>1, FlowInvHolds, PTL
================================================================================
