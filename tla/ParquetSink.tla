----------------------------- MODULE ParquetSink -----------------------------
(* The Parquet sink (obs-parquet): one buffer per partition, rolled into a    *)
(* file when it is large or old, written to a temporary file and renamed; a   *)
(* crash at any point, and the sweep of temporary files at the next start.    *)
(* The map's lock is held for a whole roll, so `pLock` is its holder.          *)
EXTENDS SinkCalls

CONSTANTS
    PartOf,         \* [Envs -> partition keys]: service, date and hour
    SizeOf,         \* [Envs -> Nat]: payload length + 256, in units
    RollBytes,      \* roll_max_bytes, in the same units
    MaxCrashes,     \* bound on process crashes
    MaxRolls        \* bound on the rolls between two starts

VARIABLES
    bufs,           \* batches: [keys -> sequence of envelopes]
    bytes_estimate, \* PartitionBuf::bytes_estimate, per key
    files,          \* finished files: a set of [id, key, rows]
    tmps,           \* temporary files on disk: a set of ids
    counter,        \* <<crashes so far, batch_counter>>: what next_batch_id hashes
    failures,       \* encode_failures
    reported,       \* temporary files reported as ObsAnalyticsPartialDropped
    lostAtCrash,    \* envelopes that were in memory at a crash
    stuck,          \* keys whose last roll failed
    pDelivered,     \* envelopes handed to deliver()
    pWork           \* where each caller is

pVars == <<bufs, bytes_estimate, files, tmps, counter, failures, reported, lostAtCrash, stuck,
           pDelivered, pWork>>

Keys == {PartOf[e] : e \in Envs}
Rest == [pc |-> "idle"]
(* Only one caller is inside a roll: the lock of `batches` is held.           *)
Unlocked == \A p \in Procs : pWork[p].pc \notin {"write", "rename"}

ParquetInit ==
    /\ bufs = [k \in Keys |-> <<>>] /\ bytes_estimate = [k \in Keys |-> 0] /\ files = {} /\ tmps = {}
    /\ counter = <<0, 1>> /\ failures = 0 /\ reported = {}
    /\ lostAtCrash = {} /\ stuck = {} /\ pDelivered = {}
    /\ pWork = [p \in Procs |-> Rest]

(* deliver(): append under the lock, then maybe_flush_partition under the     *)
(* lock again.                                                                *)
AppendToPartition(p, e) ==
    /\ pWork[p] = Rest /\ Unlocked /\ e \notin pDelivered
    /\ bufs' = [bufs EXCEPT ![PartOf[e]] = Append(@, e)]
    /\ bytes_estimate' = [bytes_estimate EXCEPT ![PartOf[e]] = @ + SizeOf[e]]
    /\ pDelivered' = pDelivered \cup {e}
    /\ pWork' = [pWork EXCEPT ![p] = [pc |-> "check", key |-> PartOf[e]]]
    /\ UNCHANGED <<files, tmps, counter, failures, reported, lostAtCrash, stuck>>

(* flush_one_locked(): an empty buffer is left alone; otherwise the record     *)
(* batch is built, which may fail, and a temporary file is created.            *)
StartRoll(p, k, todo) ==
    \/ /\ bufs[k] = <<>>
       /\ pWork' = [pWork EXCEPT ![p] = todo]
       /\ UNCHANGED <<tmps, counter, failures, stuck>>
    \/ /\ bufs[k] # <<>> /\ counter[2] <= MaxRolls
       /\ counter' = <<counter[1], counter[2] + 1>>
       /\ tmps' = tmps \cup {counter}
       /\ pWork' = [pWork EXCEPT ![p] = [pc |-> "write", key |-> k, id |-> counter, then |-> todo]]
       /\ UNCHANGED <<failures, stuck>>
    \/ /\ bufs[k] # <<>> /\ counter[2] <= MaxRolls    \* encoding or File::create fails
       /\ counter' = <<counter[1], counter[2] + 1>>
       /\ failures' = failures + IF todo.pc = "drain" THEN 1 ELSE 0
       /\ stuck' = stuck \cup {k}
       /\ pWork' = [pWork EXCEPT ![p] = todo]
       /\ UNCHANGED tmps

MaybeFlushLate(p, aged) ==
    /\ pWork[p].pc = "check" /\ Unlocked
    /\ IF bytes_estimate[pWork[p].key] > RollBytes \/ aged
       THEN StartRoll(p, pWork[p].key, Rest)
       ELSE pWork' = [pWork EXCEPT ![p] = Rest] /\ UNCHANGED <<tmps, counter, failures, stuck>>
    /\ UNCHANGED <<bufs, bytes_estimate, files, reported, lostAtCrash, pDelivered>>

MaybeFlush(p, aged) ==
    /\ pWork[p].pc = "check" /\ Unlocked
    /\ IF bytes_estimate[pWork[p].key] >= RollBytes \/ aged
       THEN StartRoll(p, pWork[p].key, Rest)
       ELSE pWork' = [pWork EXCEPT ![p] = Rest] /\ UNCHANGED <<tmps, counter, failures, stuck>>
    /\ UNCHANGED <<bufs, bytes_estimate, files, reported, lostAtCrash, pDelivered>>

(* drain_all(), for flush() and shutdown(): the keys are listed first, then    *)
(* each is rolled in its own critical section.                                 *)
DrainAll(p) ==
    /\ pWork[p] = Rest /\ Unlocked
    /\ pWork' = [pWork EXCEPT ![p] = [pc |-> "drain", keys |-> {k \in Keys : bufs[k] # <<>>}]]
    /\ UNCHANGED <<bufs, bytes_estimate, files, tmps, counter, failures, reported, lostAtCrash, stuck, pDelivered>>

DrainNext(p, k) ==
    /\ pWork[p].pc = "drain" /\ k \in pWork[p].keys /\ Unlocked
    /\ StartRoll(p, k, [pWork[p] EXCEPT !.keys = @ \ {k}])
    /\ UNCHANGED <<bufs, bytes_estimate, files, reported, lostAtCrash, pDelivered>>

Drained(p) ==
    /\ pWork[p].pc = "drain" /\ pWork[p].keys = {}
    /\ pWork' = [pWork EXCEPT ![p] = Rest]
    /\ UNCHANGED <<bufs, bytes_estimate, files, tmps, counter, failures, reported, lostAtCrash, stuck, pDelivered>>

(* write_parquet_atomic(): write, flush and fsync; the rename publishes the    *)
(* file and the buffer is cleared.  A failure keeps buffer and temporary file. *)
WriteTmp(p) ==
    /\ pWork[p].pc = "write"
    /\ pWork' = [pWork EXCEPT ![p].pc = "rename"]
    /\ UNCHANGED <<bufs, bytes_estimate, files, tmps, counter, failures, reported, lostAtCrash, stuck, pDelivered>>

RenameKeeps(p) ==
    LET w == pWork[p] IN
    /\ w.pc = "rename"
    /\ files' = files \cup {[id |-> w.id, key |-> w.key, rows |-> bufs[w.key]]}
    /\ tmps' = tmps \ {w.id}
    /\ UNCHANGED <<bufs, bytes_estimate>>
    /\ stuck' = stuck \ {w.key}
    /\ pWork' = [pWork EXCEPT ![p] = w.then]
    /\ UNCHANGED <<counter, failures, reported, lostAtCrash, pDelivered>>

RenameTmp(p) ==
    LET w == pWork[p] IN
    /\ w.pc = "rename"
    /\ files' = files \cup {[id |-> w.id, key |-> w.key, rows |-> bufs[w.key]]}
    /\ tmps' = tmps \ {w.id}
    /\ bufs' = [bufs EXCEPT ![w.key] = <<>>]
    /\ bytes_estimate' = [bytes_estimate EXCEPT ![w.key] = 0]
    /\ stuck' = stuck \ {w.key}
    /\ pWork' = [pWork EXCEPT ![p] = w.then]
    /\ UNCHANGED <<counter, failures, reported, lostAtCrash, pDelivered>>

RollFails(p) ==
    LET w == pWork[p] IN
    /\ w.pc \in {"write", "rename"}
    /\ failures' = failures + IF w.then.pc = "drain" THEN 1 ELSE 0
    /\ stuck' = stuck \cup {w.key}
    /\ pWork' = [pWork EXCEPT ![p] = w.then]
    /\ UNCHANGED <<bufs, bytes_estimate, files, tmps, counter, reported, lostAtCrash, pDelivered>>

(* The process dies and the sink is built again: sweep_tmp_files removes and   *)
(* reports the temporary files, the counter and the buffers start over.        *)
Restart ==
    /\ counter[1] < MaxCrashes
    /\ counter' = <<counter[1] + 1, 1>>
    /\ reported' = reported \cup tmps /\ tmps' = {}
    /\ lostAtCrash' = lostAtCrash \cup UNION {ToSet(bufs[k]) : k \in Keys}
    /\ bufs' = [k \in Keys |-> <<>>] /\ bytes_estimate' = [k \in Keys |-> 0] /\ stuck' = {} /\ failures' = 0
    /\ pWork' = [p \in Procs |-> Rest]
    /\ UNCHANGED <<files, pDelivered>>

ParquetNext ==
    \/ \E p \in Procs :
         \/ \E e \in Envs : AppendToPartition(p, e)
         \/ \E aged \in BOOLEAN : MaybeFlush(p, aged)
         \/ DrainAll(p) \/ Drained(p) \/ \E k \in Keys : DrainNext(p, k)
         \/ WriteTmp(p) \/ RenameTmp(p) \/ RollFails(p)
    \/ Restart

-----------------------------------------------------------------------------
Stored(e) == {f \in files : e \in ToSet(f.rows)}

(* The refinement mapping to DeliveryLedger.                                  *)
ParquetLedger == [e \in Envs |->
    IF e \notin pDelivered THEN "new"
    ELSE IF Stored(e) # {} THEN "sent"
    ELSE IF e \in lostAtCrash THEN "lost" ELSE "held"]

(* What is held is in the buffer of its own partition.                        *)
ParquetTracked == \A e \in Envs :
    ParquetLedger[e] = "held" => e \in ToSet(bufs[PartOf[e]])

(* An envelope is in one file of its partition, once, and no longer in memory.*)
ParquetOnce == \A e \in Envs :
    /\ Cardinality(Stored(e)) <= 1
    /\ \A f \in Stored(e) : /\ f.key = PartOf[e]
                            /\ Cardinality({i \in DOMAIN f.rows : f.rows[i] = e}) = 1
                            /\ e \notin ToSet(bufs[PartOf[e]])

(* Rows at or over the roll size have a caller about to look at them, or their*)
(* last roll failed.                                                          *)
ParquetRolls == \A k \in Keys :
    bufs[k] # <<>> /\ bytes_estimate[k] >= RollBytes =>
        \/ k \in stuck
        \/ \E p \in Procs : pWork[p].pc \in {"check", "write", "rename"} /\ pWork[p].key = k
=============================================================================
