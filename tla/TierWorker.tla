------------------------------ MODULE TierWorker ------------------------------
(***************************************************************************)
(* One per-tier worker of the standard observer                            *)
(* (crates/obs-core/src/observer/workers.rs).                              *)
(*                                                                         *)
(* Emit threads hand envelopes to a bounded tokio mpsc channel through     *)
(* TierWorker::try_send; a single drain task scrubs each one and delivers  *)
(* it to the tier's sink; shutdown() raises a flag, drops the sender,      *)
(* joins the task and shuts the sink down.  shutdown() may run more than   *)
(* once (the panic hook, the InitGuard, the application) and, through      *)
(* shutdown_blocking, under a timeout that cancels it at any .await.       *)
(*                                                                         *)
(* The sink runs on the drain task.  Handle::block_on panics on a thread   *)
(* of the runtime, and the ClickHouse sink's back-off and the OTLP sink's  *)
(* gRPC export call it: a delivery, a flush or a shutdown of the sink may  *)
(* panic.  A panic ends the task, which drops the receiver; shutdown()     *)
(* discards the join error.                                                *)
(*                                                                         *)
(* Every step below is atomic in the code: a critical section of the       *)
(* sender's mutex, one atomic load or store, one poll of the receiver.     *)
(* The check `shutdown.load() && rx.is_empty()` is two loads, but the flag *)
(* only ever goes up, so its value is that of one evaluation at the moment *)
(* of the decisive load.                                                   *)
(***************************************************************************)
EXTENDS Integers, Sequences

CONSTANTS
    Env,          \* the envelopes that can be emitted, each at most once
    Capacity,     \* queues.<tier> of the configuration
    Callers,      \* the calls of TierWorker::shutdown
    MayTimeout    \* TRUE: shutdown_blocking may time a call out

ASSUME CapacityAssumption == Capacity \in Nat
ASSUME TimeoutAssumption == MayTimeout \in BOOLEAN

VARIABLES
    emitted,      \* the envelopes whose try_send has been called
    accepted,     \* the envelopes for which try_send returned Ok, in order
    channel_full, \* WorkerCounters::channel_full_<tier>
    queue,        \* what the channel holds
    cur,          \* the envelope the drain task has popped: <<>> or <<env>>
    processed,    \* the envelopes deliver_one has been called with, in order
    unscrubbed,   \* those deliver_one dropped because the scrubber failed
    stranded,     \* what the channel held when the receiver was dropped
    flushed,      \* how many of processed the last Sink::flush covered
    wpc,          \* where the drain task is
    panicked,     \* TRUE: the sink has panicked on the drain task
    flag,         \* TierWorker::shutdown
    sender,       \* TRUE while TierWorker::sender is Some
    mark,         \* Len(accepted) when the flag was first raised, or NoMark
    spc,          \* where each call of shutdown() is
    holder,       \* the call that holds the join mutex, or NoCaller
    join,         \* TRUE while TierWorker::join is Some
    sink_down,    \* TRUE once Sink::shutdown has been called
    fpc           \* where the call of flush() is

emitVars == <<emitted, accepted, channel_full>>
taskVars == <<cur, processed, unscrubbed, stranded, wpc, panicked>>
downVars == <<flag, sender, mark, spc, holder, join, sink_down>>
flushVars == <<fpc>>
vars == <<emitted, accepted, channel_full, queue, cur, processed, unscrubbed,
          stranded, flushed, wpc, panicked, flag, sender, mark, spc, holder, join,
          sink_down, fpc>>

NoMark == -1
NoCaller == "nobody"
ASSUME CallersAssumption == NoCaller \notin Callers

(* mpsc::channel(capacity.max(1)) *)
Slots == IF Capacity < 1 THEN 1 ELSE Capacity

Init ==
    /\ emitted = {}
    /\ accepted = <<>>
    /\ channel_full = 0
    /\ queue = <<>>
    /\ cur = <<>>
    /\ processed = <<>>
    /\ unscrubbed = {}
    /\ stranded = <<>>
    /\ flushed = 0
    /\ wpc = "recv"
    /\ panicked = FALSE
    /\ flag = FALSE
    /\ sender = TRUE
    /\ mark = NoMark
    /\ spc = [c \in Callers |-> "idle"]
    /\ holder = NoCaller
    /\ join = TRUE
    /\ sink_down = FALSE
    /\ fpc = "idle"

-------------------------------------------------------------------------------
(* Emit threads: dispatch_async of a non-AUDIT tier.                       *)

(* The sender is gone, the receiver is gone, or the channel is full. *)
Refused == ~sender \/ wpc = "done" \/ Len(queue) >= Slots

(* Mutant of TrySend: a full channel makes room by dropping its oldest envelope. *)
TrySendEvicting(env) ==
    /\ env \notin emitted
    /\ sender /\ wpc # "done"
    /\ emitted' = emitted \union {env}
    /\ accepted' = Append(accepted, env)
    /\ queue' = Append(IF Len(queue) >= Slots THEN Tail(queue) ELSE queue, env)
    /\ UNCHANGED <<channel_full, taskVars, downVars, flushVars, flushed>>

TrySend(env) ==
    /\ env \notin emitted
    /\ emitted' = emitted \union {env}
    /\ IF Refused
         THEN /\ channel_full' = channel_full + 1
              /\ UNCHANGED <<accepted, queue>>
         ELSE /\ accepted' = Append(accepted, env)
              /\ queue' = Append(queue, env)
              /\ UNCHANGED channel_full
    /\ UNCHANGED <<taskVars, downVars, flushVars, flushed>>

-------------------------------------------------------------------------------
(* The drain task.                                                         *)

Pop ==
    /\ queue # <<>>
    /\ cur' = <<Head(queue)>>
    /\ queue' = Tail(queue)

(* Mutant of Recv: an empty channel is taken for a closed one (try_recv).  *)
RecvNonBlocking ==
    /\ wpc = "recv"
    /\ \/ Pop /\ wpc' = "deliver"
       \/ queue = <<>> /\ wpc' = "drain" /\ UNCHANGED <<queue, cur>>
    /\ UNCHANGED <<emitVars, processed, unscrubbed, stranded, panicked, flushed,
                   downVars, flushVars>>

(* rx.recv() yields an envelope, or None once the sender is dropped and    *)
(* the channel is empty.                                                   *)
Recv ==
    /\ wpc = "recv"
    /\ \/ Pop /\ wpc' = "deliver"
       \/ queue = <<>> /\ ~sender /\ wpc' = "drain" /\ UNCHANGED <<queue, cur>>
    /\ UNCHANGED <<emitVars, processed, unscrubbed, stranded, panicked, flushed,
                   downVars, flushVars>>

(* The receiver is dropped with whatever the channel holds.                *)
TaskEnds ==
    /\ stranded' = queue
    /\ queue' = <<>>
    /\ wpc' = "done"

(* deliver_one: an envelope the scrubber rejects never reaches the sink,   *)
(* and the sink may panic.                                                 *)
Deliver(scrub_ok) ==
    /\ wpc \in {"deliver", "drain_deliver"}
    /\ processed' = Append(processed, cur[1])
    /\ unscrubbed' = IF scrub_ok THEN unscrubbed ELSE unscrubbed \union {cur[1]}
    /\ cur' = <<>>
    /\ \/ /\ wpc' = IF wpc = "deliver" THEN "check" ELSE "drain"
          /\ UNCHANGED <<queue, stranded, panicked>>
       \/ scrub_ok /\ panicked' = TRUE /\ TaskEnds
    /\ UNCHANGED <<emitVars, flushed, downVars, flushVars>>

Check ==
    /\ wpc = "check"
    /\ wpc' = IF flag /\ queue = <<>> THEN "drain" ELSE "recv"
    /\ UNCHANGED <<emitVars, queue, cur, processed, unscrubbed, stranded, panicked,
                   flushed, downVars, flushVars>>

(* The final try_recv loop. *)
Drain ==
    /\ wpc = "drain"
    /\ \/ Pop /\ wpc' = "drain_deliver"
       \/ queue = <<>> /\ wpc' = "flush" /\ UNCHANGED <<queue, cur>>
    /\ UNCHANGED <<emitVars, processed, unscrubbed, stranded, panicked, flushed,
                   downVars, flushVars>>

(* Mutant of TaskFlush: the task ends without flushing the sink. *)
TaskFlushSkipped ==
    /\ wpc = "flush"
    /\ wpc' = "exit"
    /\ UNCHANGED <<emitVars, queue, cur, processed, unscrubbed, stranded, panicked,
                   flushed, downVars, flushVars>>

(* sink.flush().await, which may panic in the sink's export. *)
TaskFlush ==
    /\ wpc = "flush"
    /\ \/ /\ flushed' = Len(processed)
          /\ wpc' = "exit"
          /\ UNCHANGED <<queue, stranded, panicked>>
       \/ panicked' = TRUE /\ TaskEnds /\ UNCHANGED flushed
    /\ UNCHANGED <<emitVars, cur, processed, unscrubbed, downVars, flushVars>>

Exit ==
    /\ wpc = "exit"
    /\ TaskEnds
    /\ UNCHANGED <<emitVars, cur, processed, unscrubbed, panicked, flushed, downVars,
                   flushVars>>

Task == Recv \/ (\E ok \in BOOLEAN : Deliver(ok)) \/ Check \/ Drain \/ TaskFlush \/ Exit

-------------------------------------------------------------------------------
(* TierWorker::shutdown.                                                   *)

StoreFlag(c) ==
    /\ spc[c] = "idle"
    /\ flag' = TRUE
    /\ mark' = IF flag THEN mark ELSE Len(accepted)
    /\ spc' = [spc EXCEPT ![c] = "take"]
    /\ UNCHANGED <<emitVars, queue, taskVars, flushed, sender, holder, join,
                   sink_down, flushVars>>

(* Mutant of TakeSender: the sender is not dropped, only the flag is set. *)
TakeSenderForgotten(c) ==
    /\ spc[c] = "take"
    /\ spc' = [spc EXCEPT ![c] = "lock"]
    /\ UNCHANGED <<emitVars, queue, taskVars, flushed, flag, sender, mark, holder, join,
                   sink_down, flushVars>>

TakeSender(c) ==
    /\ spc[c] = "take"
    /\ sender' = FALSE
    /\ spc' = [spc EXCEPT ![c] = "lock"]
    /\ UNCHANGED <<emitVars, queue, taskVars, flushed, flag, mark, holder, join,
                   sink_down, flushVars>>

(* Mutant of LockJoin: the guard is dropped before the handle is awaited.  *)
LockJoinShort(c) ==
    /\ spc[c] = "lock"
    /\ holder = NoCaller
    /\ join' = FALSE
    /\ spc' = [spc EXCEPT ![c] = IF join THEN "join" ELSE "sink"]
    /\ UNCHANGED <<emitVars, queue, taskVars, flushed, flag, sender, mark, holder,
                   sink_down, flushVars>>

(* self.join.lock().await, then guard.take(): only the first call to get   *)
(* the mutex has a handle to wait for.                                     *)
LockJoin(c) ==
    /\ spc[c] = "lock"
    /\ holder = NoCaller
    /\ holder' = c
    /\ join' = FALSE
    /\ spc' = [spc EXCEPT ![c] = IF join THEN "join" ELSE "sink"]
    /\ UNCHANGED <<emitVars, queue, taskVars, flushed, flag, sender, mark, sink_down,
                   flushVars>>

Joined(c) ==
    /\ spc[c] = "join"
    /\ wpc = "done"
    /\ spc' = [spc EXCEPT ![c] = "sink"]
    /\ UNCHANGED <<emitVars, queue, taskVars, flushed, flag, sender, mark, holder, join,
                   sink_down, flushVars>>

(* sink.shutdown().await, and the guard of the join mutex is dropped, also *)
(* when the sink panics in the caller.                                     *)
SinkShutdown(c) ==
    /\ spc[c] = "sink"
    /\ sink_down' = TRUE
    /\ holder' = NoCaller
    /\ \E result \in {"done", "panicked"} : spc' = [spc EXCEPT ![c] = result]
    /\ UNCHANGED <<emitVars, queue, taskVars, flushed, flag, sender, mark, join,
                   flushVars>>

(* tokio::time::timeout drops the shutdown future at an await point: a     *)
(* join handle it had taken is dropped too, which detaches the task.       *)
Timeout(c) ==
    /\ MayTimeout
    /\ spc[c] \in {"lock", "join", "sink"}
    /\ spc' = [spc EXCEPT ![c] = "cancelled"]
    /\ holder' = IF holder = c THEN NoCaller ELSE holder
    /\ UNCHANGED <<emitVars, queue, taskVars, flushed, flag, sender, mark, join,
                   sink_down, flushVars>>

Shutdown(c) ==
    StoreFlag(c) \/ TakeSender(c) \/ LockJoin(c) \/ Joined(c) \/ SinkShutdown(c)

-------------------------------------------------------------------------------
(* TierWorker::flush: yield once, then flush the sink.                     *)

FlushCall ==
    /\ fpc \in {"idle", "returned"}
    /\ fpc' = "yielded"
    /\ UNCHANGED <<emitVars, queue, taskVars, flushed, downVars>>

(* A sink that panics here panics in the caller of flush(). *)
FlushSink ==
    /\ fpc = "yielded"
    /\ fpc' = "returned"
    /\ flushed' \in {flushed, Len(processed)}
    /\ UNCHANGED <<emitVars, queue, taskVars, downVars>>

Flush == FlushCall \/ FlushSink

-------------------------------------------------------------------------------
Next ==
    \/ \E env \in Env : TrySend(env)
    \/ Task
    \/ \E c \in Callers : Shutdown(c) \/ Timeout(c)
    \/ Flush

Spec == Init /\ [][Next]_vars

(* tokio polls a ready task again and again, and the thread that calls     *)
(* shutdown() is run until it returns.  Nobody has to emit, flush, start a *)
(* shutdown or time one out.                                               *)
Continue(c) == TakeSender(c) \/ LockJoin(c) \/ Joined(c) \/ SinkShutdown(c)

FairSpec ==
    /\ Spec
    /\ WF_vars(Task)
    /\ \A c \in Callers : WF_vars(Continue(c))

-------------------------------------------------------------------------------
(* The type invariant; the channel never holds more than its capacity. *)
TypeOK ==
    /\ emitted \subseteq Env
    /\ accepted \in Seq(Env)
    /\ channel_full \in Nat
    /\ queue \in Seq(Env) /\ Len(queue) <= Slots
    /\ cur \in Seq(Env)
    /\ processed \in Seq(Env)
    /\ unscrubbed \subseteq Env
    /\ stranded \in Seq(Env)
    /\ flushed \in Nat
    /\ wpc \in {"recv", "deliver", "check", "drain", "drain_deliver", "flush",
                "exit", "done"}
    /\ panicked \in BOOLEAN
    /\ flag \in BOOLEAN
    /\ sender \in BOOLEAN
    /\ mark \in Nat \union {NoMark}
    /\ spc \in [Callers -> {"idle", "take", "lock", "join", "sink", "done",
                            "panicked", "cancelled"}]
    /\ holder \in Callers \union {NoCaller}
    /\ join \in BOOLEAN
    /\ sink_down \in BOOLEAN
    /\ fpc \in {"idle", "yielded", "returned"}

(* An accepted envelope is never lost, duplicated or overtaken inside the  *)
(* worker: at every moment the accepted ones are, in the order try_send    *)
(* accepted them, the ones already passed to deliver_one, the one in the   *)
(* drain task's hand, the ones in the channel and the ones that were in    *)
(* the channel when the receiver was dropped.                              *)
Conservation == accepted = processed \o cur \o queue \o stranded

(* When the drain task has ended and the sink did not panic on it, a       *)
(* shutdown had been asked for, every envelope accepted before that        *)
(* request has been handed to deliver_one, and the sink has been flushed   *)
(* after the last delivery: the recv loop's early break and the try_recv   *)
(* loop lose nothing that was in flight.                                   *)
ExitIsClean ==
    wpc = "done" /\ ~panicked => /\ mark # NoMark
                                 /\ mark <= Len(processed)
                                 /\ flushed = Len(processed)

(* The worker implements a bounded FIFO with an orderly stop: envelopes    *)
(* reach deliver_one once, in the order of try_send, with no more than the *)
(* channel's capacity and one in hand waiting; and the drain task ends     *)
(* after a request only, with what was accepted before it delivered and    *)
(* flushed, so the recv loop's early break loses nothing, or by a panic of *)
(* the sink in a delivery or in that last flush.                           *)
Fifo == INSTANCE BoundedFifo WITH
    Items <- Env, Bound <- Slots + 1, None <- NoMark,
    sent <- accepted, received <- processed, synced <- flushed, asked <- mark,
    closed <- (wpc = "done"), broken <- panicked
FifoHolds == Fifo!Spec

(* TierWorker::shutdown shuts the sink down only when the drain task has   *)
(* ended, so the sink never sees a delivery after its shutdown.            *)
SinkOutlivesTask == sink_down => wpc = "done"

(* As long as no call of shutdown() was cancelled by its timeout, that     *)
(* holds for any number of concurrent calls: the join mutex makes the ones *)
(* that find no handle wait for the one that awaits it.                    *)
SinkOutlivesTaskUncancelled ==
    (\A c \in Callers : spc[c] # "cancelled") => SinkOutlivesTask

(* A call of shutdown() that was begun returns (or panics in the sink, or  *)
(* is cancelled by its timeout): the join mutex, the drain task, be it     *)
(* ended by a panic, and the emit threads that keep sending never block it *)
(* for ever.                                                               *)
ShutdownReturns ==
    \A c \in Callers :
        (spc[c] = "take") ~> (spc[c] \in {"done", "panicked", "cancelled"})

(* Every envelope accepted before a shutdown is asked for is eventually    *)
(* passed to deliver_one, whatever the emit threads, the calls of flush()  *)
(* and the calls of shutdown() do afterwards, unless the sink panics on    *)
(* the drain task.                                                         *)
AcceptedIsDelivered ==
    \A env \in Env :
        (~flag /\ \E i \in DOMAIN accepted : accepted[i] = env)
            ~> (panicked \/ \E i \in DOMAIN processed : processed[i] = env)
===============================================================================
