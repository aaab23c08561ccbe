------------------------------ MODULE AuditSpool ------------------------------
(***************************************************************************)
(* The AUDIT tier: dispatch_audit's bounded blocking, the on-disk spool it *)
(* falls back to, and the recovery of that spool by the next process       *)
(* (crates/obs-core/src/audit_spool.rs and observer/standard.rs).          *)
(*                                                                         *)
(* A process builds an observer: it opens a fresh spool file, spawns the   *)
(* AUDIT worker and then recovers every *.audit.bin file of the directory, *)
(* re-enqueueing their records.  Emit threads try the AUDIT channel, wait  *)
(* for a bounded time, and then append to the spool.  The process ends by  *)
(* a clean shutdown, is killed, or its host crashes.                       *)
(*                                                                         *)
(* Abstractions.  Every record takes one unit of spool_max_bytes.  A file  *)
(* is the sequence of the records of its .bin and of the checksums of its  *)
(* .crc; a record or a checksum cut short by a failed write is Torn.  A    *)
(* checksum is named by the envelope it was computed from, and two         *)
(* envelopes never share one.  Reading past a Torn record never yields an  *)
(* envelope.  The AUDIT worker's steps are those of TierWorker, with the   *)
(* last flush a part of its end; one shutdown() runs at a time, and one    *)
(* that follows a cancelled call finds no handle to wait for.              *)
(***************************************************************************)
EXTENDS Integers, Sequences, FiniteSets, SequencesExt

CONSTANTS
    Env,          \* the AUDIT envelopes, each emitted at most once
    Capacity,     \* slots of the AUDIT channel
    MaxRecords,   \* audit.spool_max_bytes, in records
    Policies,     \* audit.fsync_mode and audit.on_failure, as configured
    BatchSize,    \* FSYNC_BATCH_SIZE
    MaxBoots,     \* bound: processes started
    MaxFaults     \* bound: I/O errors

ASSUME CapacityAssumption == Capacity \in Nat \ {0}
ASSUME LimitAssumption == MaxRecords \in Nat /\ BatchSize \in Nat \ {0}
ASSUME BoundAssumption == MaxBoots \in Nat /\ MaxFaults \in Nat

(* AuditConfig: how often the spool is synced, and what its failure means. *)
AuditConfig == [fsync_mode : {"none", "per_batch", "per_record"},
                on_failure : {"panic", "abort", "warn_only"}]

ASSUME ModeAssumption == Policies \subseteq AuditConfig

VARIABLES
    phase,           \* of the process
    boots,           \* processes started so far
    policy,          \* the AuditConfig of the process
    faults,          \* I/O errors so far
    dir,             \* spool files of earlier processes, oldest first
    live,            \* the spool file this process has open
    linked,          \* TRUE while the directory has an entry for it
    bytes_written,   \* SpoolInner::bytes_written
    pending_records, \* SpoolInner::pending_records
    at,              \* recovery: the file being read, an index into dir, or past it
    pos,             \* recovery: the next record of that file
    worker,          \* where the AUDIT worker's drain task is
    detached,        \* TRUE: a shutdown() was cancelled while it awaited the task
    queue,           \* the AUDIT channel, behind the envelope the task has in hand
    delivered,       \* what the AUDIT sink received, in order
    late,            \* the envelopes enqueued after the shutdown flag was raised
    outcome,         \* where dispatch_audit is with each envelope
    redone,          \* how often a recovered file was left to be recovered again
    lost             \* for each cause, the acknowledged envelopes lost to it

diskVars == <<dir, live, linked>>
writerVars == <<bytes_written, pending_records>>
recoveryVars == <<at, pos, redone>>
taskVars == <<worker, detached, late>>
vars == <<phase, boots, policy, faults, dir, live, linked, bytes_written, pending_records,
          at, pos, worker, detached, queue, delivered, late, outcome, redone, lost>>

Torn == "torn"
ASSUME TornAssumption == Torn \notin Env

NoFile == [bin |-> <<>>, crc |-> <<>>, sb |-> 0, sc |-> 0]

(* Why an acknowledged envelope may be gone: it was in the channel when    *)
(* the process ended; it came between the drain task's last look at the    *)
(* channel and the task's end; the sink panicked on the task; the scrubber *)
(* rejected it; its file had no directory entry when the process ended;    *)
(* recovery could not read it back; recovery found the channel full or the *)
(* task gone; the host crashed before it was synced.                       *)
Causes == {"in_channel", "stranded", "sink_panic", "unscrubbed", "unlinked", "unreadable",
           "refused", "unsynced"}

Init ==
    /\ phase = "down"
    /\ boots = 0
    /\ policy \in Policies
    /\ faults = 0
    /\ dir = <<>>
    /\ live = NoFile
    /\ linked = FALSE
    /\ bytes_written = 0
    /\ pending_records = 0
    /\ at = 1
    /\ pos = 1
    /\ worker = "gone"
    /\ detached = FALSE
    /\ late = {}
    /\ queue = <<>>
    /\ delivered = <<>>
    /\ outcome = [env \in Env |-> "idle"]
    /\ redone = 0
    /\ lost = [c \in Causes |-> {}]

Fault == faults < MaxFaults /\ faults' = faults + 1

Lose(c, envs) == lost' = [lost EXCEPT ![c] = @ \union envs]

Acked(envs) == {env \in envs \ {Torn} : outcome[env] = "spooled"}

-------------------------------------------------------------------------------
(* StandardObserverBuilder::build.                                         *)

(* SpoolWriter::open_with_fsync creates this process's file, spawn_pool    *)
(* starts the AUDIT worker.                                                *)
Open ==
    /\ phase = "down"
    /\ boots < MaxBoots
    /\ boots' = boots + 1
    /\ policy' \in Policies
    /\ phase' = "recover"
    /\ live' = NoFile
    /\ linked' = TRUE
    /\ bytes_written' = 0
    /\ pending_records' = 0
    /\ at' = 1
    /\ pos' = 1
    /\ worker' = "recv"
    /\ detached' = FALSE
    /\ UNCHANGED <<faults, dir, queue, delivered, late, outcome, redone, lost>>

(* The task has taken the first envelope off the channel. *)
InHand == worker \in {"deliver", "drain_deliver"}

(* The sender is live, the receiver is live, and a slot is free. *)
CanSend ==
    /\ phase \in {"recover", "up", "closing"}
    /\ worker # "gone"
    /\ Len(queue) < IF InHand THEN Capacity + 1 ELSE Capacity

File == IF at <= Len(dir) THEN dir[at] ELSE live

(* The records of a file before the first torn one: where reading stops.   *)
Intact(bin) ==
    {i \in DOMAIN bin : \A j \in 1..i : bin[j] # Torn}

(* The checksum recover_one reads for the i-th record.  Past a torn        *)
(* checksum every read is misaligned, until the file ends.                 *)
CrcAt(crc, i) ==
    CASE i > Len(crc) -> "none"
      [] i <= Len(crc) /\ \A j \in 1..i : crc[j] # Torn -> crc[i]
      [] i < Len(crc) /\ \E j \in 1..i : crc[j] = Torn -> "garbage"
      [] OTHER -> "none"

(* recover_one accepts a record whose checksum matches or is missing.      *)
Passes(f, i) == CrcAt(f.crc, i) \in {"none", f.bin[i]}

(* One turn of recover_one's loop: the record is checked and handed to the *)
(* callback, which calls try_send and ignores its result.                  *)
RecoverRecord ==
    /\ phase = "recover"
    /\ pos \in Intact(File.bin)
    /\ LET env == File.bin[pos] IN
         IF ~Passes(File, pos)
           THEN Lose("unreadable", Acked({env})) /\ UNCHANGED queue
           ELSE IF CanSend
                  THEN queue' = Append(queue, env) /\ UNCHANGED lost
                  ELSE Lose("refused", {env}) /\ UNCHANGED queue
    /\ pos' = pos + 1
    /\ UNCHANGED <<phase, boots, policy, faults, diskVars, writerVars, taskVars, at, delivered,
                   outcome, redone>>

(* What recover_one never reached in the file: the records behind a torn one. *)
Beyond(f) == Acked({f.bin[i] : i \in DOMAIN f.bin \ Intact(f.bin)})

(* Mutant of RemoveFile: files are removed as soon as they are opened. *)
RemoveFileEarly ==
    /\ phase = "recover"
    /\ IF at <= Len(dir)
         THEN dir' = RemoveAt(dir, at) /\ pos' = 1 /\ UNCHANGED <<phase, linked>>
         ELSE linked' = FALSE /\ phase' = "up" /\ UNCHANGED <<dir, pos>>
    /\ UNCHANGED <<boots, policy, faults, live, writerVars, taskVars, at, queue, delivered,
                   outcome, redone, lost>>

(* Mutant of RemoveFile: a recovered file is left in the directory. *)
RemoveFileKeeps ==
    /\ phase = "recover"
    /\ pos \notin Intact(File.bin)
    /\ pos' = 1
    /\ IF at <= Len(dir) THEN at' = at + 1 /\ UNCHANGED phase
                         ELSE phase' = "up" /\ UNCHANGED at
    /\ UNCHANGED <<boots, policy, faults, diskVars, writerVars, taskVars, queue, delivered,
                   outcome, redone, lost>>

(* Mutant of RemoveFile: the file is kept until the sink took its records. *)
RemoveFileWaits ==
    /\ phase = "recover"
    /\ pos \notin Intact(File.bin)
    /\ queue = <<>>
    /\ Lose("unreadable", Beyond(File))
    /\ IF at <= Len(dir)
         THEN dir' = RemoveAt(dir, at) /\ pos' = 1 /\ UNCHANGED <<phase, linked>>
         ELSE linked' = FALSE /\ phase' = "up" /\ UNCHANGED <<dir, pos>>
    /\ UNCHANGED <<boots, policy, faults, live, writerVars, taskVars, at, queue, delivered,
                   outcome, redone>>

(* recover() has read a file to its end and removes it with its sidecar,   *)
(* whichever file of the directory it is, the live one included.           *)
RemoveFile ==
    /\ phase = "recover"
    /\ pos \notin Intact(File.bin)
    /\ Lose("unreadable", Beyond(File))
    /\ IF at <= Len(dir)
         THEN dir' = RemoveAt(dir, at) /\ pos' = 1 /\ UNCHANGED <<phase, linked>>
         ELSE linked' = FALSE /\ phase' = "up" /\ UNCHANGED <<dir, pos>>
    /\ UNCHANGED <<boots, policy, faults, live, writerVars, taskVars, at, queue, delivered,
                   outcome, redone>>

(* remove_file fails and the error is ignored; the sidecar may be gone.    *)
RemoveFails(sidecar) ==
    /\ phase = "recover"
    /\ pos \notin Intact(File.bin)
    /\ Fault
    /\ IF at <= Len(dir)
         THEN /\ dir' = IF sidecar THEN dir ELSE [dir EXCEPT ![at].crc = <<>>]
              /\ at' = at + 1
              /\ pos' = 1
              /\ redone' = redone + 1
              /\ UNCHANGED phase
         ELSE phase' = "up" /\ UNCHANGED <<dir, at, pos, redone>>
    /\ UNCHANGED <<boots, policy, live, linked, writerVars, taskVars, queue, delivered, outcome,
                   lost>>

(* An I/O error of recover() (listing, opening or reading a file) ends the *)
(* whole recovery; build() ignores it.                                     *)
RecoverFails ==
    /\ phase = "recover"
    /\ Fault
    /\ phase' = "up"
    /\ redone' = IF at <= Len(dir) /\ pos > 1 THEN redone + 1 ELSE redone
    /\ UNCHANGED <<boots, policy, diskVars, writerVars, taskVars, at, pos, queue, delivered,
                   outcome, lost>>

-------------------------------------------------------------------------------
(* dispatch_audit.                                                         *)

(* The first try_send, or one of the busy-wait loop. *)
TrySend(env) ==
    /\ phase \notin {"down", "recover"}
    /\ outcome[env] \in {"idle", "waiting"}
    /\ IF CanSend
         THEN /\ queue' = Append(queue, env)
              /\ outcome' = [outcome EXCEPT ![env] = "queued"]
              /\ late' = IF phase = "up" THEN late ELSE late \union {env}
         ELSE /\ outcome[env] = "idle"
              /\ outcome' = [outcome EXCEPT ![env] = "waiting"]
              /\ UNCHANGED <<queue, late>>
    /\ UNCHANGED <<phase, boots, policy, faults, diskVars, writerVars, recoveryVars, worker,
                   detached, delivered, lost>>

ShouldFsync ==
    \/ policy.fsync_mode = "per_record"
    \/ policy.fsync_mode = "per_batch" /\ pending_records + 1 >= BatchSize

(* SpoolWriter::append refuses: over the cap, or the file is closed. *)
Refuses == bytes_written + 1 > MaxRecords \/ phase = "closed"

(* Mutant of AppendOk: pending_records is reset by every append. *)
AppendOkResets(env) ==
    /\ ~Refuses
    /\ live' = IF ShouldFsync
                 THEN [bin |-> Append(live.bin, env), crc |-> Append(live.crc, env),
                       sb |-> Len(live.bin) + 1, sc |-> Len(live.crc) + 1]
                 ELSE [live EXCEPT !.bin = Append(@, env), !.crc = Append(@, env)]
    /\ bytes_written' = bytes_written + 1
    /\ pending_records' = 0
    /\ outcome' = [outcome EXCEPT ![env] = "spooled"]

(* append() succeeds: record, checksum, counters, fsync policy. *)
AppendOk(env) ==
    /\ ~Refuses
    /\ live' = IF ShouldFsync
                 THEN [bin |-> Append(live.bin, env), crc |-> Append(live.crc, env),
                       sb |-> Len(live.bin) + 1, sc |-> Len(live.crc) + 1]
                 ELSE [live EXCEPT !.bin = Append(@, env), !.crc = Append(@, env)]
    /\ bytes_written' = bytes_written + 1
    /\ pending_records' = IF ShouldFsync THEN 0 ELSE pending_records + 1
    /\ outcome' = [outcome EXCEPT ![env] = "spooled"]

(* What a failed append() may leave in the files: a torn record; a whole   *)
(* record without a checksum or with a torn one; or, when only the fsync   *)
(* failed, both.                                                           *)
FailedWrites(env) ==
    { [live EXCEPT !.bin = Append(@, Torn)],
      [live EXCEPT !.bin = Append(@, env)],
      [live EXCEPT !.bin = Append(@, env), !.crc = Append(@, Torn)],
      [live EXCEPT !.bin = Append(@, env), !.crc = Append(@, env)] }

(* The process is gone: its channel and the waiting calls with it.  The    *)
(* spool file remains only if the directory still has an entry for it.     *)
Gone(file) ==
    /\ phase' = "down"
    /\ worker' = "gone"
    /\ dir' = IF linked THEN Append(dir, file) ELSE dir
    /\ linked' = FALSE
    /\ live' = NoFile
    /\ queue' = <<>>
    /\ redone' = IF phase = "recover" /\ at <= Len(dir) /\ pos > 1
                   THEN redone + 1 ELSE redone
    /\ lost' = [lost EXCEPT
                  !["in_channel"] = @ \union Range(queue),
                  !["unlinked"] = IF linked THEN @ ELSE @ \union Acked(Range(live.bin)),
                  !["unsynced"] = IF linked
                                    THEN @ \union (Acked(Range(live.bin)) \ Acked(Range(file.bin)))
                                    ELSE @]

(* handle_spool_failure: audit.on_failure decides. *)
SpoolFailure(env, file) ==
    \/ /\ policy.on_failure # "abort"
       /\ outcome' = [outcome EXCEPT ![env] = IF policy.on_failure = "panic" THEN "panicked"
                                                                    ELSE "dropped"]
       /\ live' = file
       /\ UNCHANGED <<phase, worker, dir, linked, queue, redone, lost>>
    \/ /\ policy.on_failure = "abort"
       /\ outcome' = [e \in Env |-> IF outcome[e] = "waiting" THEN "aborted" ELSE outcome[e]]
       /\ Gone(file)

(* audit.block_ms_max has elapsed: the envelope goes to the spool. *)
GiveUp(env) ==
    /\ outcome[env] = "waiting"
    /\ phase # "down"
    /\ \/ AppendOk(env) /\ UNCHANGED <<phase, worker, faults, dir, linked, queue, redone, lost>>
       \/ Refuses /\ SpoolFailure(env, live) /\ UNCHANGED <<faults, writerVars>>
       \/ /\ ~Refuses
          /\ Fault
          /\ \E f \in FailedWrites(env) :
               /\ SpoolFailure(env, f)
               /\ IF Len(f.crc) > Len(live.crc) /\ Last(f.crc) # Torn
                    THEN bytes_written' = bytes_written + 1
                         /\ pending_records' = pending_records + 1
                    ELSE UNCHANGED writerVars
    /\ UNCHANGED <<boots, policy, at, pos, delivered, detached, late>>

-------------------------------------------------------------------------------
(* The AUDIT worker, shutdown and the ends of the process.                 *)

(* rx.recv() yields an envelope, or None once the sender is dropped and    *)
(* the channel is empty.                                                   *)
Recv ==
    /\ worker = "recv"
    /\ \/ queue # <<>> /\ worker' = "deliver"
       \/ queue = <<>> /\ phase \in {"joining", "closed"} /\ worker' = "drain"
    /\ UNCHANGED <<phase, boots, policy, faults, diskVars, writerVars, recoveryVars, detached,
                   queue, delivered, late, outcome, lost>>

(* The task ends with what the channel holds. *)
TaskEnds == queue' = <<>> /\ worker' = "gone"

(* deliver_one: the sink takes the envelope, or the scrubber rejects it,   *)
(* or the sink panics, which ends the task.                                *)
Deliver ==
    /\ InHand
    /\ \/ /\ \/ delivered' = Append(delivered, Head(queue)) /\ UNCHANGED lost
             \/ Lose("unscrubbed", {Head(queue)}) /\ UNCHANGED delivered
          /\ queue' = Tail(queue)
          /\ worker' = IF worker = "deliver" THEN "check" ELSE "drain"
       \/ Lose("sink_panic", Range(queue)) /\ TaskEnds /\ UNCHANGED delivered
    /\ UNCHANGED <<phase, boots, policy, faults, diskVars, writerVars, recoveryVars, detached,
                   late, outcome>>

Check ==
    /\ worker = "check"
    /\ worker' = IF phase \in {"closing", "joining", "closed"} /\ queue = <<>>
                   THEN "drain" ELSE "recv"
    /\ UNCHANGED <<phase, boots, policy, faults, diskVars, writerVars, recoveryVars, detached,
                   queue, delivered, late, outcome, lost>>

(* The final try_recv loop. *)
Drain ==
    /\ worker = "drain"
    /\ worker' = IF queue # <<>> THEN "drain_deliver" ELSE "exit"
    /\ UNCHANGED <<phase, boots, policy, faults, diskVars, writerVars, recoveryVars, detached,
                   queue, delivered, late, outcome, lost>>

(* The last flush, whether or not it panics, and the end of the task.      *)
Exit ==
    /\ worker = "exit"
    /\ Lose("stranded", Range(queue)) /\ TaskEnds
    /\ UNCHANGED <<phase, boots, policy, faults, diskVars, writerVars, recoveryVars, detached,
                   delivered, late, outcome>>

shutdownRest == <<boots, policy, faults, diskVars, writerVars, recoveryVars, worker, queue,
                  delivered, late, outcome, lost>>

(* StandardObserver::shutdown: the AUDIT worker's flag is raised...        *)
StoreFlag ==
    /\ phase = "up"
    /\ phase' = "closing"
    /\ UNCHANGED <<detached, shutdownRest>>

(* ... its sender is dropped...                                            *)
TakeSender ==
    /\ phase = "closing"
    /\ phase' = "joining"
    /\ UNCHANGED <<detached, shutdownRest>>

(* ... (the timeout of shutdown_blocking drops the call and with it the    *)
(* join handle)...                                                         *)
Timeout ==
    /\ phase = "joining"
    /\ detached' = TRUE
    /\ UNCHANGED <<phase, shutdownRest>>

(* Mutant of CloseSpool: the spool is closed without joining the worker. *)
CloseSpoolEarly ==
    /\ phase = "joining"
    /\ phase' = "closed"
    /\ UNCHANGED <<detached, shutdownRest>>

(* ... and when the task has ended, or a later call finds no handle to     *)
(* wait for, spool.close() drops the files.                                *)
CloseSpool ==
    /\ phase = "joining"
    /\ worker = "gone" \/ detached
    /\ phase' = "closed"
    /\ UNCHANGED <<detached, shutdownRest>>

Stopped == [e \in Env |-> IF outcome[e] = "waiting" THEN "aborted" ELSE outcome[e]]

(* The process is killed (or exits after a clean shutdown): what it wrote  *)
(* is in the kernel and survives; an append() in progress leaves what a    *)
(* failed one would.                                                       *)
Kill ==
    /\ phase # "down"
    /\ \E f \in {live} \union (UNION {FailedWrites(env) : env \in
                    {e \in Env : outcome[e] = "waiting" /\ ~Refuses}}) : Gone(f)
    /\ outcome' = Stopped
    /\ UNCHANGED <<boots, policy, faults, writerVars, at, pos, delivered, detached, late>>

(* The host crashes: of the open file only the synced part is sure to be   *)
(* there.  The files of earlier processes are taken to be written back.    *)
HostCrash ==
    /\ phase # "down"
    /\ \E n \in live.sb..Len(live.bin), m \in live.sc..Len(live.crc) :
          Gone([bin |-> SubSeq(live.bin, 1, n), crc |-> SubSeq(live.crc, 1, m),
                sb |-> n, sc |-> m])
    /\ outcome' = Stopped
    /\ UNCHANGED <<boots, policy, faults, writerVars, at, pos, delivered, detached, late>>

-------------------------------------------------------------------------------
Next ==
    \/ Open \/ RecoverRecord \/ RemoveFile \/ RecoverFails
    \/ \E sidecar \in BOOLEAN : RemoveFails(sidecar)
    \/ \E env \in Env : TrySend(env) \/ GiveUp(env)
    \/ Recv \/ Deliver \/ Check \/ Drain \/ Exit
    \/ StoreFlag \/ TakeSender \/ Timeout \/ CloseSpool \/ Kill \/ HostCrash

Spec == Init /\ [][Next]_vars

(* A thread in dispatch_audit keeps running and its clock advances; build() *)
(* runs to its end.  Nothing is assumed of the sink, the disk or the host. *)
FairSpec ==
    /\ Spec
    /\ \A env \in Env : WF_vars(GiveUp(env))
    /\ WF_vars(RecoverRecord \/ RemoveFile)

-------------------------------------------------------------------------------
OnDisk ==
    Range(live.bin) \union (UNION {Range(dir[i].bin) : i \in DOMAIN dir})

LostEnvs == UNION {lost[c] : c \in Causes}

(* Every AUDIT envelope that dispatch_audit has enqueued or spooled is in  *)
(* the channel or the task's hand, with the sink, in a spool file, or was  *)
(* lost to one of the named causes: no other step of emit, drain task,     *)
(* recovery, shutdown or crash makes one disappear.                        *)
Accounted ==
    \A env \in Env :
        outcome[env] \in {"queued", "spooled"}
            => env \in Range(queue) \union Range(delivered) \union OnDisk \union LostEnvs

(* When the spool is closed and no shutdown() was cancelled while it       *)
(* waited for the task, every envelope enqueued before the flag was raised *)
(* has been delivered, or the scrubber rejected it, or the sink panicked   *)
(* on the task, or an earlier process took it along; and in no process is  *)
(* anything stranded that was enqueued before the flag, a record recovered *)
(* from the spool included.                                                *)
CleanShutdown ==
    /\ lost["stranded"] \subseteq late
    /\ phase = "closed" /\ ~detached =>
         \A env \in Env : outcome[env] = "queued" /\ env \notin late
             => env \in Range(delivered) \union lost["unscrubbed"] \union lost["sink_panic"]
                         \union lost["in_channel"]

(* audit.fsync_mode bounds what a host crash can take: at most one batch   *)
(* short of FSYNC_BATCH_SIZE acknowledged records is unsynced, none with   *)
(* per_record.                                                             *)
SyncWindow ==
    Cardinality({i \in (live.sb + 1)..Len(live.bin) : live.bin[i] \in Env
                    /\ outcome[live.bin[i]] = "spooled"})
        <= IF policy.fsync_mode = "per_record" THEN 0
           ELSE IF policy.fsync_mode = "per_batch" THEN BatchSize - 1 ELSE MaxRecords

(* An envelope reaches the sink more than once only when a recovered file  *)
(* could not be removed or its recovery was cut short: recovery is         *)
(* at-least-once, and exactly-once when nothing interrupts it.             *)
Copies(env) ==
    Cardinality({i \in DOMAIN delivered : delivered[i] = env})
        + Cardinality({i \in DOMAIN queue : queue[i] = env})

AtMostOncePlusRedone == \A env \in Env : Copies(env) <= 1 + redone

(* build() ends: recovery is not fed by the records it re-enqueues.        *)
RecoveryEnds == (phase = "recover") ~> (phase # "recover")

-------------------------------------------------------------------------------
(* What the documentation promises and the code does not keep.             *)

(* A spooled record stays recoverable by a later process: it is not in a   *)
(* file without a directory entry.                                         *)
SpooledIsRecoverable ==
    linked \/ Acked(Range(live.bin)) = {}
===============================================================================
