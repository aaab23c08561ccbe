------------------------------ MODULE BatchSink -------------------------------
(* BatchingSink<B> of obs-sink-batch: deliver() puts envelopes into a       *)
(* bounded ingress channel; one worker task groups them by partition key,  *)
(* uploads a partition when a trigger fires, retries, falls back to a disk *)
(* spool, and re-ships the spool on a timer.  The worker handles one thing  *)
(* at a time: while it uploads or re-ships, nobody reads the channel.      *)
EXTENDS Integers, Sequences, FiniteSets, SequencesExt

CONSTANTS
    Env,              \* envelopes handed to deliver(), each once
    Key, NoKey,       \* partition keys; backend.partition_key() may be None
    Loads,            \* what may be delivered: each envelope's key and length
    FrameMax,         \* the u32 frame limit of a spool file
    IngressCapacity,  \* config.ingress_capacity
    MaxEvents,        \* triggers.max_events
    MaxBytes,         \* triggers.max_bytes
    MaxAttempts,      \* retry.max_attempts
    SpoolMax,         \* spool.max_bytes
    MaxFails,         \* bound: answers of the backend other than Ok and
                      \* I/O errors of the spool's disk, together
    MaxBoots          \* bound: processes started one after the other

Keys == Key \union {NoKey}

ASSUME BatchAssumption ==
    /\ NoKey \notin Key
    /\ Loads \subseteq [Env -> [key : Keys, size : Nat \ {0}]]
    /\ {FrameMax, IngressCapacity, MaxEvents, MaxBytes} \subseteq Nat \ {0}
    /\ {MaxAttempts, SpoolMax, MaxFails, MaxBoots} \subseteq Nat

VARIABLES
    life,       \* the worker: "down", "run", "drain" (shutting down), "exited"
    boots, fails,
    load,       \* the key and the length of each envelope
    handle,     \* the Arc<BatchingSink>: "held", "shutdown", "dropping", "dropped"
    sent,       \* what deliver() did with an envelope
    ingress,    \* the mpsc channel
    parts,      \* Worker.partitions: the buffered envelopes of a key
    opened,     \* the keys of partitions, in the order they were opened
    todo,       \* keys flush_aged() has still to flush
    unread,     \* files list() has still to read
    recs,       \* records a retry tick has still to re-ship
    batch,      \* the batch in flush_partition or try_reship
    spool,      \* the files under the spool root, oldest first
    failed,     \* the files under failed/
    stored,     \* how often the backend has stored an envelope, per key
    redo,       \* ghost: stores whose answer or whose clean-up was lost
    lost        \* ghost: accepted envelopes that are gone, by cause

bufVars  == <<ingress, parts, opened>>
workVars == <<todo, unread, recs, batch>>
diskVars == <<spool, failed>>
backVars == <<fails, stored, redo>>
callVars == <<handle, sent>>
vars == <<life, boots, load, bufVars, workVars, diskVars, backVars, callVars, lost>>

(* An accepted envelope may be gone because it exceeds a frame; the ring    *)
(* was full; the spool write failed; the spool's cap evicted it; its file  *)
(* could not be read back and was removed as corrupt; the worker stopped   *)
(* with it in the channel; the process was killed.                         *)
Causes == {"too_large", "ring", "write", "evicted", "unreadable", "stopped", "killed"}

(* backend.partition_key and encoded_len. *)
KeyOf(e) == load[e].key

Size(e) == load[e].size

NoBatch == [stage |-> "none"]

(* A file on disk: the batch it was written for, how many whole frames it  *)
(* holds and whether a torn frame follows them.                            *)
OnDisk(envs, n, torn) == [envs |-> envs, n |-> n, torn |-> torn]

(* read_file decodes a file to its end or not at all. *)
Held(f) == IF f.torn THEN {} ELSE {f.envs[i] : i \in 1..f.n}

Bytes(envs) == FoldSeq(LAMBDA e, acc : Size(e) + acc, 0, envs)

SizeBytes(files) == FoldSeq(LAMBDA f, acc : Bytes(SubSeq(f.envs, 1, f.n)) + acc, 0, files)

Fail == fails < MaxFails /\ fails' = fails + 1

Lose(c, envs) == lost' = [lost EXCEPT ![c] = @ \union envs]

Init ==
    /\ life = "down"
    /\ boots = 0 /\ fails = 0
    /\ load \in Loads
    /\ handle = "held"
    /\ sent = [e \in Env |-> "idle"]
    /\ ingress = <<>>
    /\ parts = [k \in Keys |-> <<>>]
    /\ opened = <<>>
    /\ todo = {}
    /\ unread = <<>>
    /\ recs = <<>>
    /\ batch = NoBatch
    /\ spool = <<>>
    /\ failed = {}
    /\ stored = [k \in Keys |-> [e \in Env |-> 0]]
    /\ redo = 0
    /\ lost = [c \in Causes |-> {}]

(* BatchingSink::new: the spool directory is opened, the worker spawned. *)
New ==
    /\ life \in {"down", "exited"}
    /\ boots < MaxBoots
    /\ boots' = boots + 1
    /\ life' = "run"
    /\ handle' = "held"
    /\ UNCHANGED <<load, bufVars, workVars, diskVars, backVars, sent, lost>>

-------------------------------------------------------------------------------
(* The Sink trait: calls of the tier workers.                              *)

(* deliver(): try_send, counted as ingress_dropped when full or closed. *)
Deliver(e) ==
    /\ sent[e] = "idle"
    /\ handle \in {"held", "shutdown"}
    /\ life # "down"
    /\ IF life = "exited"
         THEN sent' = [sent EXCEPT ![e] = "closed"] /\ UNCHANGED ingress
         ELSE IF Len(ingress) >= IngressCapacity
           THEN sent' = [sent EXCEPT ![e] = "full"] /\ UNCHANGED ingress
           ELSE /\ sent' = [sent EXCEPT ![e] = "accepted"]
                /\ ingress' = Append(ingress, e)
    /\ UNCHANGED <<life, boots, load, parts, opened, workVars, diskVars, backVars,
                   handle, lost>>

(* shutdown() sends the signal, then waits for the worker to exit. *)
Shutdown ==
    /\ handle = "held"
    /\ life = "run"
    /\ handle' = "shutdown"
    /\ UNCHANGED <<life, boots, load, bufVars, workVars, diskVars, backVars, sent, lost>>

(* The sink is dropped: first its ingress sender, then its shutdown_tx,    *)
(* which completes the worker's receiver exactly as a signal would.        *)
DropSink ==
    /\ life # "down"
    /\ \/ handle = "held" /\ handle' = "dropping"
       \/ handle = "dropping" /\ handle' = "dropped"
    /\ UNCHANGED <<life, boots, load, bufVars, workVars, diskVars, backVars, sent, lost>>

-------------------------------------------------------------------------------
(* Worker::run: the branches of its biased select!.                        *)

Signalled == handle \in {"shutdown", "dropped"}

(* The worker is back at the select!. *)
AtSelect ==
    /\ life = "run" /\ batch = NoBatch
    /\ todo = {} /\ unread = <<>> /\ recs = <<>>

(* Mutant of BeginDrain: an idle worker exits without draining. *)
BeginDrainSkips ==
    /\ AtSelect
    /\ \/ Signalled
       \/ handle = "dropping" /\ ingress = <<>>
    /\ life' = "drain"
    /\ parts' = [k \in Keys |-> <<>>]
    /\ opened' = <<>>
    /\ UNCHANGED <<boots, load, ingress, workVars, diskVars, backVars, callVars, lost>>

(* First branch, the shutdown signal; or recv() returns None because the   *)
(* channel is closed and empty.                                            *)
BeginDrain ==
    /\ AtSelect
    /\ \/ Signalled
       \/ handle = "dropping" /\ ingress = <<>>
    /\ life' = "drain"
    /\ UNCHANGED <<boots, load, bufVars, workVars, diskVars, backVars, callVars, lost>>

RingCap == IF 2 * MaxEvents > 4 THEN 2 * MaxEvents ELSE 4

Triggered(envs) == Len(envs) >= MaxEvents \/ Bytes(envs) >= MaxBytes

(* The partition taken out of the map, as flush_partition receives it. *)
Fresh(k, stage) == [stage |-> stage, key |-> k, envs |-> parts[k], attempt |-> 0,
                    file |-> <<>>]

(* Second branch, recv() returned an envelope: admit(). *)
Admit ==
    /\ AtSelect /\ ~Signalled
    /\ ingress # <<>>
    /\ ingress' = Tail(ingress)
    /\ LET e == Head(ingress)
           k == KeyOf(e)
           evict == Len(parts[k]) >= RingCap
           full == Append(IF evict THEN Tail(parts[k]) ELSE parts[k], e) IN
         IF Size(e) > FrameMax
           THEN Lose("too_large", {e}) /\ UNCHANGED <<parts, opened, batch>>
           ELSE /\ IF evict THEN Lose("ring", {Head(parts[k])}) ELSE UNCHANGED lost
                /\ IF Triggered(full)
                     THEN /\ batch' = [Fresh(k, "encode") EXCEPT !.envs = full]
                          /\ parts' = [parts EXCEPT ![k] = <<>>]
                          /\ opened' = SelectSeq(opened, LAMBDA o : o # k)
                     ELSE /\ parts' = [parts EXCEPT ![k] = full]
                          /\ opened' = IF parts[k] = <<>> THEN Append(opened, k)
                                                          ELSE opened
                          /\ UNCHANGED batch
    /\ UNCHANGED <<life, boots, load, todo, unread, recs, diskVars, backVars, callVars>>

(* The timers are polled only when recv() has nothing. *)
Quiet == AtSelect /\ ~Signalled /\ ingress = <<>>

(* Mutant of FlushAged: the deadline is the youngest partition's. *)
FlushAgedYoungest ==
    /\ Quiet
    /\ Len(opened) > 1
    /\ todo' = Range(opened)
    /\ UNCHANGED <<life, boots, load, bufVars, unread, recs, batch, diskVars, backVars, callVars,
                   lost>>

(* Third branch, the oldest partition reached max_age: flush_aged() takes  *)
(* all that have, the ones opened first.                                   *)
FlushAged ==
    /\ Quiet
    /\ \E n \in 1..Len(opened) : todo' = {opened[i] : i \in 1..n}
    /\ UNCHANGED <<life, boots, load, bufVars, unread, recs, batch, diskVars, backVars, callVars,
                   lost>>

(* The next aged partition is taken out of the map and flushed. *)
FlushNext(k) ==
    /\ batch = NoBatch
    /\ k \in todo
    /\ todo' = todo \ {k}
    /\ batch' = Fresh(k, "encode")
    /\ parts' = [parts EXCEPT ![k] = <<>>]
    /\ opened' = SelectSeq(opened, LAMBDA o : o # k)
    /\ UNCHANGED <<life, boots, load, ingress, unread, recs, diskVars, backVars, callVars, lost>>

Without(files, f) == RemoveFirst(files, f)

(* Fourth branch, the retry tick (the first one runs recover_spool, the    *)
(* others drive_spool_retry, to the same effect): list() collects the      *)
(* entries, oldest first...                                                *)
RetryTick ==
    /\ Quiet
    /\ spool # <<>>
    /\ unread' = spool
    /\ UNCHANGED <<life, boots, load, bufVars, todo, recs, batch, diskVars, backVars, callVars,
                   lost>>

(* ... and reads them one by one.  A file it cannot decode is deleted, and *)
(* so is an intact one whose open() or read() fails; an error of the       *)
(* deletion is ignored and the file is read again at the next tick.        *)
ReadNext ==
    /\ unread # <<>>
    /\ unread' = Tail(unread)
    /\ LET f == Head(unread) IN
         \/ ~f.torn /\ recs' = Append(recs, f) /\ UNCHANGED <<spool, fails, lost>>
         \/ /\ IF f.torn THEN UNCHANGED fails ELSE Fail
            /\ spool' = Without(spool, f)
            /\ Lose("unreadable", Held(f))
            /\ UNCHANGED recs
         \/ Fail /\ UNCHANGED <<spool, recs, lost>>
    /\ UNCHANGED <<life, boots, load, bufVars, todo, batch, failed, stored, redo, callVars>>

(* Mutant of ReshipNext: the walk over the records ends one too early. *)
ReshipNextShort ==
    /\ batch = NoBatch /\ unread = <<>>
    /\ recs # <<>>
    /\ recs' = Tail(recs)
    /\ batch' = IF Len(recs) = 1 THEN NoBatch
                ELSE [stage |-> "encode", key |-> KeyOf(Head(recs).envs[1]),
                      envs |-> Head(recs).envs, attempt |-> 0, file |-> <<Head(recs)>>]
    /\ UNCHANGED <<life, boots, load, bufVars, todo, unread, diskVars, backVars, callVars, lost>>

(* try_reship: an empty file is removed, one without a key is left alone,  *)
(* any other is encoded again.                                             *)
ReshipNext ==
    /\ batch = NoBatch /\ unread = <<>>
    /\ recs # <<>>
    /\ recs' = Tail(recs)
    /\ LET f == Head(recs)
           envs == SubSeq(f.envs, 1, f.n) IN
         /\ spool' = IF envs = <<>> THEN Without(spool, f) ELSE spool
         /\ batch' = IF envs = <<>> \/ KeyOf(Head(envs)) = NoKey
                       THEN NoBatch
                       ELSE [stage |-> "encode", key |-> KeyOf(Head(envs)), envs |-> envs,
                             attempt |-> 0, file |-> <<f>>]
    /\ UNCHANGED <<life, boots, load, bufVars, todo, unread, failed, backVars, callVars, lost>>

-------------------------------------------------------------------------------
(* flush_partition and try_reship: one batch.                              *)

IsFresh == batch.file = <<>>

(* The batch cannot be uploaded now: a fresh one is spooled, a spooled one *)
(* stays where it is unless it is old enough to be moved to failed/.       *)
GiveUp(why, attempt) ==
    batch' = [batch EXCEPT !.stage = IF IsFresh THEN "spool" ELSE why, !.attempt = attempt]

(* The partition key is missing, encode_batch fails, or the body is ready. *)
Encode ==
    /\ batch.stage = "encode"
    /\ \/ batch.key = NoKey /\ GiveUp("spool", 0) /\ UNCHANGED fails
       \/ batch.key # NoKey /\ Fail /\ GiveUp("fatal", 0)
       \/ /\ batch.key # NoKey
          /\ IF MaxAttempts = 0 THEN GiveUp("exhausted", 0)
                                ELSE batch' = [batch EXCEPT !.stage = "upload"]
          /\ UNCHANGED fails
    /\ UNCHANGED <<life, boots, load, bufVars, todo, unread, recs, diskVars, stored, redo,
                   callVars, lost>>

Store == stored' = [stored EXCEPT ![batch.key] =
                      [e \in Env |-> @[e] + (IF e \in Range(batch.envs) THEN 1 ELSE 0)]]

(* upload() returns Ok: a fresh batch is done, a spooled one is removed. *)
UploadOk ==
    /\ batch.stage = "upload"
    /\ Store
    /\ batch' = IF IsFresh THEN NoBatch ELSE [batch EXCEPT !.stage = "remove"]
    /\ UNCHANGED <<life, boots, load, bufVars, todo, unread, recs, diskVars, fails, redo,
                   callVars, lost>>

(* upload() returns Fatal. *)
UploadFatal ==
    /\ batch.stage = "upload"
    /\ Fail
    /\ GiveUp("fatal", batch.attempt + 1)
    /\ UNCHANGED <<life, boots, load, bufVars, todo, unread, recs, diskVars, stored, redo,
                   callVars, lost>>

(* upload() returns Retry, whether or not the backend applied the request  *)
(* before its answer was lost: another attempt after the backoff, or the   *)
(* attempts are exhausted.                                                 *)
UploadRetry(applied) ==
    /\ batch.stage = "upload"
    /\ Fail
    /\ IF applied THEN Store /\ redo' = redo + 1 ELSE UNCHANGED <<stored, redo>>
    /\ IF batch.attempt + 1 < MaxAttempts
         THEN batch' = [batch EXCEPT !.attempt = @ + 1]
         ELSE GiveUp("exhausted", batch.attempt + 1)
    /\ UNCHANGED <<life, boots, load, bufVars, todo, unread, recs, diskVars, callVars, lost>>

(* evict_to_cap: the n oldest files are removed from the spool, no more    *)
(* than it takes; the one just written may be among them.                  *)
Evicted(files, n) ==
    /\ SizeBytes(SubSeq(files, n + 1, Len(files))) <= SpoolMax
    /\ \A j \in 0..(n - 1) : SizeBytes(SubSeq(files, j + 1, Len(files))) > SpoolMax

(* Spool::write succeeds and makes room; the batch counts as spooled. *)
WriteOk ==
    /\ batch.stage = "spool"
    /\ LET files == Append(spool, OnDisk(batch.envs, Len(batch.envs), FALSE)) IN
         \E n \in 0..Len(files) :
           /\ Evicted(files, n)
           /\ spool' = SubSeq(files, n + 1, Len(files))
           /\ Lose("evicted", UNION {Held(files[i]) : i \in 1..n})
    /\ batch' = NoBatch
    /\ UNCHANGED <<life, boots, load, bufVars, todo, unread, recs, failed, backVars, callVars>>

(* What an incomplete write leaves: no file, or a file with only some of   *)
(* the frames, the last one torn or not.                                   *)
Partial(envs) ==
    {<<>>} \union
    {<<OnDisk(envs, n, torn)>> : n \in 0..(Len(envs) - 1), torn \in BOOLEAN}

(* Spool::write fails, or the write that tokio::fs::File::write_all left   *)
(* running in the background fails unseen: what is not on disk is lost.    *)
WriteFails ==
    /\ batch.stage = "spool"
    /\ Fail
    /\ \E left \in Partial(batch.envs) :
         /\ spool' = spool \o left
         /\ Lose("write", Range(batch.envs) \ (UNION {Held(f) : f \in Range(left)}))
    /\ batch' = NoBatch
    /\ UNCHANGED <<life, boots, load, bufVars, todo, unread, recs, failed, stored, redo, callVars>>

(* The file is written, but evict_to_cap fails; its error is ignored. *)
WriteUnevicted ==
    /\ batch.stage = "spool"
    /\ Fail
    /\ spool' = Append(spool, OnDisk(batch.envs, Len(batch.envs), FALSE))
    /\ batch' = NoBatch
    /\ UNCHANGED <<life, boots, load, bufVars, todo, unread, recs, failed, stored, redo, callVars, lost>>

(* Mutant of RemoveShipped: the shipped file is left for the next tick. *)
RemoveShippedKeeps ==
    /\ batch.stage = "remove"
    /\ \/ spool' = spool /\ UNCHANGED <<fails, redo>>
       \/ Fail /\ redo' = redo + 1 /\ UNCHANGED spool
    /\ batch' = NoBatch
    /\ UNCHANGED <<life, boots, load, bufVars, todo, unread, recs, failed, stored, callVars, lost>>

(* A re-shipped record is removed; an error of remove() is ignored. *)
RemoveShipped ==
    /\ batch.stage = "remove"
    /\ \/ spool' = Without(spool, batch.file[1]) /\ UNCHANGED <<fails, redo>>
       \/ Fail /\ redo' = redo + 1 /\ UNCHANGED spool
    /\ batch' = NoBatch
    /\ UNCHANGED <<life, boots, load, bufVars, todo, unread, recs, failed, stored, callVars, lost>>

(* escalate_if_stuck: a record older than escalate_after moves to failed/; *)
(* a younger one, or one whose move fails, stays in the spool.             *)
EscalateIfStuck(old) ==
    /\ batch.stage \in {"fatal", "exhausted"}
    /\ IF old THEN /\ spool' = Without(spool, batch.file[1])
                   /\ failed' = failed \union {batch.file[1]}
              ELSE UNCHANGED diskVars
    /\ batch' = NoBatch
    /\ UNCHANGED <<life, boots, load, bufVars, todo, unread, recs, backVars, callVars, lost>>

-------------------------------------------------------------------------------
(* drain_on_shutdown and the end of the worker.                            *)

(* A still-buffered partition goes straight to the spool. *)
DrainNext(k) ==
    /\ life = "drain" /\ batch = NoBatch
    /\ parts[k] # <<>>
    /\ batch' = Fresh(k, "spool")
    /\ parts' = [parts EXCEPT ![k] = <<>>]
    /\ opened' = SelectSeq(opened, LAMBDA o : o # k)
    /\ UNCHANGED <<life, boots, load, ingress, todo, unread, recs, diskVars, backVars, callVars,
                   lost>>

(* The loop breaks and the receiver is dropped with what is in it. *)
WorkerExit ==
    /\ life = "drain" /\ batch = NoBatch
    /\ \A k \in Keys : parts[k] = <<>>
    /\ life' = "exited"
    /\ ingress' = <<>>
    /\ Lose("stopped", Range(ingress))
    /\ UNCHANGED <<boots, load, parts, opened, workVars, diskVars, backVars, callVars>>

InBatch == IF "envs" \in DOMAIN batch THEN Range(batch.envs) ELSE {}

(* The envelopes that only the process has. *)
InMemory ==
    Range(ingress) \union (UNION {Range(parts[k]) : k \in Keys})
        \union (IF batch # NoBatch /\ IsFresh THEN InBatch ELSE {})

(* The process is killed: its memory is gone, a spool write in progress    *)
(* leaves part of a file, a shipped record was perhaps not yet removed.    *)
Kill ==
    /\ life \in {"run", "drain"}
    /\ life' = "down"
    /\ ingress' = <<>>
    /\ parts' = [k \in Keys |-> <<>>]
    /\ opened' = <<>>
    /\ todo' = {}
    /\ unread' = <<>>
    /\ recs' = <<>>
    /\ batch' = NoBatch
    /\ \E left \in IF batch.stage = "spool" THEN Partial(batch.envs) ELSE {<<>>} :
         /\ spool' = spool \o left
         /\ Lose("killed", InMemory \ (UNION {Held(f) : f \in Range(left)}))
    /\ redo' = IF batch.stage = "remove" THEN redo + 1 ELSE redo
    /\ UNCHANGED <<boots, load, failed, fails, stored, callVars>>

-------------------------------------------------------------------------------
WorkerStep ==
    \/ BeginDrain \/ Admit \/ ReadNext \/ ReshipNext \/ WorkerExit
    \/ \E k \in Keys : FlushNext(k) \/ DrainNext(k)
    \/ Encode \/ UploadOk \/ UploadFatal
    \/ \E applied \in BOOLEAN : UploadRetry(applied)
    \/ WriteOk \/ WriteFails \/ WriteUnevicted \/ RemoveShipped
    \/ \E old \in BOOLEAN : EscalateIfStuck(old)

Next ==
    \/ New \/ Shutdown \/ DropSink \/ Kill
    \/ \E e \in Env : Deliver(e)
    \/ FlushAged \/ RetryTick
    \/ WorkerStep

Spec == Init /\ [][Next]_vars

(* The runtime keeps polling the worker, the backend answers every upload  *)
(* (an attempt that hangs is the backend's to time out) and timers fire.   *)
(* The age deadline comes before the retry tick in the biased select!, so  *)
(* ticks cannot hold it off: strong fairness.                              *)
FairSpec ==
    /\ Spec
    /\ WF_vars(WorkerStep)
    /\ SF_vars(FlushAged)
    /\ WF_vars(RetryTick)

-------------------------------------------------------------------------------
Kept == UNION {Held(f) : f \in Range(spool) \union failed}

(* Every envelope deliver() accepted is in the channel, in its partition,  *)
(* in the batch in work, readable in the spool or in failed/, stored by    *)
(* the backend, or gone for one of the seven named causes.                   *)
Accounted ==
    \A e \in Env : sent[e] = "accepted" =>
      \/ e \in Range(ingress) \/ e \in InBatch \/ e \in Kept
      \/ \E k \in Keys : e \in Range(parts[k]) \/ stored[k][e] > 0
      \/ \E c \in Causes : e \in lost[c]

(* An envelope is stored once, plus once for every upload whose answer was *)
(* lost and every re-ship whose file could not be removed afterwards: no   *)
(* path of flush, spool, retry and recovery ships a batch twice, or in the *)
(* batch of another partition.                                             *)
StoredOnce ==
    \A e \in Env, k \in Keys : stored[k][e] <= IF k = KeyOf(e) THEN 1 + redo ELSE 0

(* No accepted envelope stays in memory: again and again the channel, the  *)
(* partitions and the batch in work are empty, everything stored, spooled, *)
(* escalated or gone with its process.                                     *)
LeavesMemory ==
    []<>(ingress = <<>> /\ InBatch = {} /\ \A k \in Keys : parts[k] = <<>>)

(* While the process stays up, the spool empties of all it can ship: only  *)
(* records without a partition key stay.                                   *)
SpoolDrains ==
    []<>(\/ life # "run" \/ handle # "held"
         \/ \A f \in Range(spool) : KeyOf(Head(f.envs)) = NoKey)
===============================================================================
