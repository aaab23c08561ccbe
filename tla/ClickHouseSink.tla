--------------------------- MODULE ClickHouseSink ---------------------------
(* The ClickHouse sink (obs-clickhouse): one buffer, a synchronous INSERT    *)
(* with a bounded number of attempts, and the transport whose answer may be  *)
(* lost after the server applied the batch.                                  *)
EXTENDS SinkCalls

CONSTANTS
    BatchSize,      \* batch_size
    RetryAttempts   \* retry_attempts

VARIABLES
    rows,           \* BufferState::rows
    table,          \* the server's table: how often it stored each envelope
    acked,          \* envelopes of batches insert_batch answered Ok for
    dropped,        \* ClickHouseSink::dropped
    failed,         \* ClickHouseSink::failures
    givenUp,        \* envelopes of batches that were abandoned
    ambiguous,      \* how many INSERTs of an envelope were applied, then failed
    cDelivered,     \* envelopes handed to deliver()
    runtime,        \* the callers run on a tokio runtime
    cWork           \* where each caller is

cVars == <<runtime, rows, table, acked, dropped, failed, givenUp, ambiguous, cDelivered, cWork>>

NoBatch == [batch |-> <<>>, attempt |-> 0]

ClickHouseInit ==
    /\ rows = <<>> /\ table = [e \in Envs |-> 0] /\ acked = {}
    /\ dropped = 0 /\ failed = 0 /\ givenUp = {}
    /\ ambiguous = [e \in Envs |-> 0] /\ cDelivered = {}
    /\ runtime \in BOOLEAN /\ cWork = [p \in Procs |-> NoBatch]

(* deliver(): the batch leaves when full or when the interval has passed.    *)
DeliverRow(p, e, aged) ==
    LET all == Append(rows, e)
        ready == Len(all) >= BatchSize \/ aged IN
    /\ cWork[p] = NoBatch /\ e \notin cDelivered
    /\ rows' = IF ready THEN <<>> ELSE all
    /\ cWork' = [cWork EXCEPT ![p].batch = IF ready THEN all ELSE <<>>]
    /\ cDelivered' = cDelivered \cup {e}
    /\ UNCHANGED <<table, acked, dropped, failed, givenUp, ambiguous, runtime>>

(* drain_now(), for flush() and shutdown(); an empty batch is not sent.      *)
DrainNow(p) ==
    /\ cWork[p] = NoBatch
    /\ cWork' = [cWork EXCEPT ![p].batch = rows]
    /\ rows' = <<>>
    /\ UNCHANGED <<table, acked, dropped, failed, givenUp, ambiguous, cDelivered, runtime>>

Plus(f, S) == [e \in Envs |-> f[e] + IF e \in S THEN 1 ELSE 0]

(* insert_batch() answers Ok.                                                *)
InsertOk(p) ==
    LET S == ToSet(cWork[p].batch) IN
    /\ S # {}
    /\ table' = Plus(table, S) /\ acked' = acked \cup S
    /\ cWork' = [cWork EXCEPT ![p] = NoBatch]
    /\ UNCHANGED <<rows, dropped, failed, givenUp, ambiguous, cDelivered, runtime>>

(* insert_batch() fails; a read timeout or a truncated answer fails after    *)
(* the server applied the batch.  The same body is sent again until the      *)
(* attempts are used up; then the batch is dropped and counted.              *)
GiveUpRequeues(p, S) ==
    /\ rows' = cWork[p].batch \o rows
    /\ dropped' = dropped + Len(cWork[p].batch) /\ failed' = failed + 1
    /\ givenUp' = givenUp \cup S

GiveUp(p, S) ==
    /\ dropped' = dropped + Len(cWork[p].batch) /\ failed' = failed + 1
    /\ givenUp' = givenUp \cup S
    /\ rows' = rows

(* The pause between two attempts: on a runtime, Handle::block_on panics     *)
(* inside an async task, and the batch dies with the unwinding call.         *)
BackoffPanics(p, S) ==
    /\ cWork' = [cWork EXCEPT ![p] = NoBatch]
    /\ givenUp' = givenUp \cup S
    /\ UNCHANGED <<rows, dropped, failed>>

InsertFails(p, applied) ==
    LET S == ToSet(cWork[p].batch)
        last == cWork[p].attempt + 1 = RetryAttempts IN
    /\ S # {}
    /\ table' = IF applied THEN Plus(table, S) ELSE table
    /\ ambiguous' = IF applied THEN Plus(ambiguous, S) ELSE ambiguous
    /\ \/ /\ last /\ GiveUp(p, S)
          /\ cWork' = [cWork EXCEPT ![p] = NoBatch]
       \/ /\ ~last /\ ~runtime
          /\ cWork' = [cWork EXCEPT ![p].attempt = @ + 1]
          /\ UNCHANGED <<rows, dropped, failed, givenUp>>
       \/ /\ ~last /\ runtime /\ BackoffPanics(p, S)
    /\ UNCHANGED <<acked, cDelivered, runtime>>

ClickHouseNext == \E p \in Procs :
    \/ \E e \in Envs, aged \in BOOLEAN : DeliverRow(p, e, aged)
    \/ DrainNow(p) \/ InsertOk(p)
    \/ \E applied \in BOOLEAN : InsertFails(p, applied)

-----------------------------------------------------------------------------
(* The refinement mapping to DeliveryLedger: exported means acknowledged.    *)
ClickHouseLedger == [e \in Envs |->
    IF e \notin cDelivered THEN "new"
    ELSE IF e \in acked THEN "sent"
    ELSE IF e \in givenUp THEN "lost" ELSE "held"]

ClickHouseTracked == \A e \in Envs : ClickHouseLedger[e] = "held" =>
    e \in ToSet(rows) \/ \E p \in Procs : e \in ToSet(cWork[p].batch)

(* A row is in the table once if it was acknowledged, and again only for an  *)
(* INSERT whose answer was lost.                                             *)
ClickHouseOnce == \A e \in Envs :
    table[e] = ambiguous[e] + IF e \in acked THEN 1 ELSE 0

(* Without a runtime drop_count() is the number of rows given up.            *)
ClickHouseCounts == ~runtime => dropped = Cardinality(givenUp)
=============================================================================
