-------------------------- MODULE NonBlockingWriter ---------------------------
(* NonBlockingWriter (sink/writer.rs): per-batch handles that buffer lines *)
(* and hand them to a bounded channel, the background thread that writes   *)
(* them, and the WorkerGuard that stops it.                                *)
EXTENDS Integers, Sequences, FiniteSets, SequencesExt

CONSTANTS
    Handle,       \* NonBlockingHandles in use
    NbCapacity,   \* of the channel
    MaxLines,     \* bound on the lines written to handles
    MaxBatch      \* bound on the lines a handle buffers

ASSUME NonBlockingAssumption ==
    NbCapacity \in Nat \ {0} /\ MaxLines \in Nat /\ MaxBatch \in Nat \ {0}

VARIABLES
    buf,          \* NonBlockingHandle::buf, per handle
    chan,         \* the buffers in the sync_channel
    shutdown,     \* the flag the guard stores
    thread,       \* run_loop: "recv", "write", "drain", "rewrite", "done"
    hand,         \* the buffer run_loop writes
    guard,        \* WorkerGuard: "live", "joining", "gone"
    drops,        \* the counter
    lines,        \* lines written to handles; a line is its number
    output,       \* ghost: lines written by the inner writer
    unwritten,    \* ghost: lines whose write returned an error, which is ignored
    refused,      \* ghost: lines of buffers that were counted as drops
    stranded,     \* ghost: lines in the channel when the receiver was dropped
    mark          \* ghost: lines under way when the guard is dropped

nbVars == <<buf, chan, shutdown, thread, hand, guard, drops, lines, output, unwritten, refused, stranded, mark>>

NbInit ==
    /\ buf = [h \in Handle |-> <<>>] /\ chan = <<>>
    /\ shutdown = FALSE /\ thread = "recv" /\ hand = <<>>
    /\ guard = "live" /\ drops = 0 /\ lines = 0
    /\ output = <<>> /\ unwritten = {} /\ refused = {} /\ stranded = {} /\ mark = {}

Lines(c) == UNION {Range(c[i]) : i \in DOMAIN c}

-------------------------------------------------------------------------------
(* The handles.                                                            *)

BufferLine(h) ==
    /\ lines < MaxLines /\ Len(buf[h]) < MaxBatch
    /\ lines' = lines + 1
    /\ buf' = [buf EXCEPT ![h] = Append(@, lines + 1)]
    /\ UNCHANGED <<chan, shutdown, thread, hand, guard, drops, output, unwritten, refused, stranded, mark>>

(* Mutant of FlushHandle: only a full channel is counted. *)
FlushUncounted(h) ==
    LET fits == Len(chan) < NbCapacity /\ thread # "done"
    IN /\ buf[h] # <<>>
       /\ buf' = [buf EXCEPT ![h] = <<>>]
       /\ chan' = IF fits THEN Append(chan, buf[h]) ELSE chan
       /\ drops' = IF fits \/ thread = "done" THEN drops ELSE drops + 1
       /\ refused' = IF fits THEN refused ELSE refused \union Range(buf[h])
       /\ UNCHANGED <<shutdown, thread, hand, guard, lines, output, unwritten, stranded, mark>>

(* flush(), also from Drop: try_send, or the buffer is dropped and counted. *)
FlushHandle(h) ==
    LET fits == Len(chan) < NbCapacity /\ thread # "done"
    IN /\ buf[h] # <<>>
       /\ buf' = [buf EXCEPT ![h] = <<>>]
       /\ chan' = IF fits THEN Append(chan, buf[h]) ELSE chan
       /\ drops' = IF fits THEN drops ELSE drops + 1
       /\ refused' = IF fits THEN refused ELSE refused \union Range(buf[h])
       /\ UNCHANGED <<shutdown, thread, hand, guard, lines, output, unwritten, stranded, mark>>

-------------------------------------------------------------------------------
(* run_loop.                                                               *)

Take(at) ==
    /\ chan # <<>>
    /\ hand' = Head(chan) /\ chan' = Tail(chan)
    /\ thread' = at
    /\ UNCHANGED <<buf, shutdown, guard, drops, lines, output, unwritten, refused, stranded, mark>>

RecvBuffer == thread = "recv" /\ Take("write")

(* 200 ms pass with nothing in the channel: recv_timeout's error ends the loop. *)
RecvTimeout ==
    /\ thread = "recv" /\ chan = <<>>
    /\ thread' = "drain"
    /\ UNCHANGED <<buf, chan, shutdown, hand, guard, drops, lines, output, unwritten, refused, stranded, mark>>

(* The inner writer writes the buffer; its error is ignored. *)
InnerWrite ==
    /\ hand' = <<>>
    /\ \/ output' = output \o hand /\ UNCHANGED unwritten
       \/ unwritten' = unwritten \union Range(hand) /\ UNCHANGED output

(* The buffer is written, and the flag decides whether the loop goes on. *)
BufferWritten ==
    /\ thread = "write"
    /\ InnerWrite
    /\ thread' = IF shutdown THEN "drain" ELSE "recv"
    /\ UNCHANGED <<buf, chan, shutdown, guard, drops, lines, refused, stranded, mark>>

(* Mutant of Drain: a blocking receive that nothing wakes. *)
DrainStuck == FALSE

Drain == thread = "drain" /\ Take("rewrite")

Rewritten ==
    /\ thread = "rewrite"
    /\ InnerWrite
    /\ thread' = "drain"
    /\ UNCHANGED <<buf, chan, shutdown, guard, drops, lines, refused, stranded, mark>>

(* try_recv has found nothing. *)
Empty ==
    /\ thread = "drain" /\ chan = <<>>
    /\ thread' = "leave"
    /\ UNCHANGED <<buf, chan, shutdown, hand, guard, drops, lines, output, unwritten, refused, stranded, mark>>

(* The receiver is dropped with whatever has been sent since. *)
Leave ==
    /\ thread = "leave"
    /\ thread' = "done"
    /\ stranded' = Lines(chan) /\ chan' = <<>>
    /\ UNCHANGED <<buf, shutdown, hand, guard, drops, lines, output, unwritten, refused, mark>>

WriterThread == RecvBuffer \/ RecvTimeout \/ BufferWritten \/ Drain \/ Rewritten \/ Empty \/ Leave

-------------------------------------------------------------------------------
(* WorkerGuard::drop: store the flag, join the thread.                     *)

DropWorkerGuard ==
    /\ guard = "live"
    /\ guard' = "joining" /\ shutdown' = TRUE
    /\ mark' = IF thread \in {"leave", "done"} THEN {} ELSE Lines(chan) \union Range(hand)
    /\ UNCHANGED <<buf, chan, thread, hand, drops, lines, output, unwritten, refused, stranded>>

Joined ==
    /\ guard = "joining" /\ thread = "done"
    /\ guard' = "gone"
    /\ UNCHANGED <<buf, chan, shutdown, thread, hand, drops, lines, output, unwritten, refused, stranded, mark>>

NbNext ==
    \/ \E h \in Handle : BufferLine(h) \/ FlushHandle(h)
    \/ WriterThread
    \/ DropWorkerGuard \/ Joined

-------------------------------------------------------------------------------
(* Every line that left a handle is written or its write failed, in hand, *)
(* queued, refused, or was stranded when the thread left; none is repeated. *)
(* The counter moves whenever lines are refused, once for a buffer of      *)
(* several, and when the guard's drop has returned the lines that were     *)
(* under way are written, unless the thread had already left its loops.    *)
LinesAccounted ==
    LET parts == <<Range(output), unwritten, Range(hand), Lines(chan), refused, stranded,
                   UNION {Range(buf[h]) : h \in Handle}>>
    IN /\ UNION Range(parts) = 1..lines
       /\ \A i, j \in DOMAIN parts : i # j => parts[i] \cap parts[j] = {}
       /\ Len(output) = Cardinality(Range(output))
       /\ drops > 0 <=> refused # {}
       /\ drops <= Cardinality(refused) /\ Cardinality(refused) <= drops * MaxBatch
       /\ guard = "gone" => mark \subseteq Range(output) \union unwritten

(* A queued line is written or stranded, also without a guard's drop. *)
Drains ==
    \A l \in 1..MaxLines :
      (l \in Lines(chan)) ~> (l \in Range(output) \union unwritten \union stranded)

(* Overflow, and nothing else, drops a line while the guard lives. *)
DropsOnlyAtOverflow ==
    [][drops' > drops /\ guard = "live" => Len(chan) = NbCapacity]_nbVars
===============================================================================
