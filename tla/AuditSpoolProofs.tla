--------------------------- MODULE AuditSpoolProofs ---------------------------
(* Theorems about the AUDIT tier, for any envelopes, channel capacity,     *)
(* spool size, batch size, number of processes and number of I/O errors.   *)
EXTENDS AuditSpool, SequenceLemmas

-------------------------------------------------------------------------------
Recs == Env \union {Torn}
Files == [bin : Seq(Recs), crc : Seq(Recs), sb : Nat, sc : Nat]
Outcomes == {"idle", "waiting", "queued", "spooled", "panicked", "dropped", "aborted"}

AuditType ==
    /\ phase \in {"down", "recover", "up", "closing", "joining", "closed"}
    /\ worker \in {"recv", "deliver", "check", "drain", "drain_deliver", "exit", "gone"}
    /\ detached \in BOOLEAN
    /\ late \subseteq Env
    /\ policy \in AuditConfig
    /\ dir \in Seq(Files)
    /\ live \in Files
    /\ linked \in BOOLEAN
    /\ bytes_written \in Nat /\ pending_records \in Nat
    /\ at \in Nat \ {0} /\ pos \in Nat \ {0}
    /\ queue \in Seq(Env) /\ delivered \in Seq(Env)
    /\ outcome \in [Env -> Outcomes]
    /\ lost \in [Causes -> SUBSET Env]

(* A process that is not there has no file, no drain task and no channel,  *)
(* and nobody is in dispatch_audit, or has spooled, before build() has     *)
(* returned.                                                               *)
Resting ==
    /\ phase \in {"down", "recover"} => live = NoFile
    /\ phase = "down" => worker = "gone"
    /\ worker = "gone" => queue = <<>>
    /\ InHand => queue # <<>>
    /\ phase \in {"down", "recover"} => \A env \in Env : outcome[env] # "waiting"

(* Where an envelope is when it is in no file. *)
Sent == Range(queue) \union Range(delivered)
Elsewhere == Sent \union LostEnvs

(* Where an envelope is that was enqueued. *)
Taken == Sent \union lost["in_channel"] \union lost["stranded"] \union lost["unscrubbed"]
              \union lost["sink_panic"]
LossesKept == \A c \in Causes : lost[c] \subseteq lost'[c]

(* What recover_one has read of the file it is at has been passed on. *)
ReadKept ==
    phase = "recover" /\ at <= Len(dir) =>
        \A i \in 1..Len(dir[at].bin) :
            i < pos /\ dir[at].bin[i] \in Acked(Env) => dir[at].bin[i] \in Elsewhere

AuditInv ==
    /\ AuditType
    /\ Resting
    /\ \A env \in Env : outcome[env] = "queued" => env \in Taken
    /\ \A env \in Env : outcome[env] = "spooled" => env \in OnDisk \union Elsewhere
    /\ ReadKept

(* The drain task leaves its loop after the flag only, and what it then    *)
(* finds in the channel came later.                                        *)
StopInv ==
    /\ worker \in {"drain", "drain_deliver", "exit"} => phase \in {"closing", "joining", "closed"}
    /\ worker = "exit" => Range(queue) \subseteq late
    /\ lost["stranded"] \subseteq late
    /\ phase = "closed" /\ ~detached => worker = "gone"

(* The acknowledged records a host crash could take. *)
Unsynced == {i \in (live.sb + 1)..Len(live.bin) : live.bin[i] \in Env
                    /\ outcome[live.bin[i]] = "spooled"}

(* An envelope in the open file has left dispatch_audit. *)
Settled ==
    \A i \in 1..Len(live.bin) :
        live.bin[i] \in Env => outcome[live.bin[i]] \notin {"idle", "waiting"}

(* The counters of the writer bound what is unsynced.                      *)
WindowInv ==
    /\ AuditType
    /\ Resting
    /\ Settled
    /\ live.sb <= Len(live.bin)
    /\ Cardinality(Unsynced) <= bytes_written /\ bytes_written <= MaxRecords
    /\ policy.fsync_mode = "per_record" => Unsynced = {}
    /\ policy.fsync_mode = "per_batch" =>
           Cardinality(Unsynced) <= pending_records /\ Cardinality(Unsynced) <= BatchSize - 1

-------------------------------------------------------------------------------
(* Operators.                                                              *)

LEMMA UnionOf ==
    ASSUME NEW I, NEW s, NEW r, NEW x
    PROVE  x \in r \union (UNION {Range(s[i].bin) : i \in I}) <=> x \in r \/ \E i \in I : x \in Range(s[i].bin)
OBVIOUS

LEMMA DiskHolds ==
    /\ \A x : x \in OnDisk <=> x \in Range(live.bin) \/ \E i \in DOMAIN dir : x \in Range(dir[i].bin)
    /\ \A x : x \in OnDisk' <=> x \in Range(live'.bin) \/ \E i \in DOMAIN dir' : x \in Range(dir'[i].bin)
BY UnionOf DEF OnDisk

LEMMA AckedIn ==
    ASSUME AuditType, NEW S \in SUBSET Recs
    PROVE  Acked(S) = {env \in S \intersect Env : outcome[env] = "spooled"} /\ Acked(S) \subseteq Env
BY TornAssumption DEF Acked, Recs

LEMMA LoseGrows ==
    ASSUME AuditType, NEW c \in Causes, NEW S \in SUBSET Env, Lose(c, S)
    PROVE  /\ lost' \in [Causes -> SUBSET Env]
           /\ LostEnvs' = LostEnvs \union S
           /\ LossesKept
           /\ lost'[c] = lost[c] \union S
           /\ \A d \in Causes \ {c} : lost'[d] = lost[d]
<1>2. \A d \in Causes : lost'[d] = IF d = c THEN lost[d] \union S ELSE lost[d]
  BY DEF Lose, AuditType
<1>3. lost' \in [Causes -> SUBSET Env]
  BY <1>2 DEF Lose, AuditType
<1> QED
  BY <1>2, <1>3 DEF LostEnvs, LossesKept

(* What the end of a process does to the channel, the directory and the    *)
(* record of losses.                                                       *)
LEMMA GoneEffect ==
    ASSUME AuditType, NEW f \in Files, Gone(f)
    PROVE  /\ dir' \in Seq(Files) /\ live' = NoFile /\ linked' = FALSE /\ queue' = <<>>
           /\ phase' = "down" /\ worker' = "gone"
           /\ LossesKept /\ lost'["stranded"] = lost["stranded"]
           /\ lost' \in [Causes -> SUBSET Env]
           /\ LostEnvs \subseteq LostEnvs'
           /\ lost'["in_channel"] = lost["in_channel"] \union Range(queue)
           /\ Acked(Range(live.bin)) \subseteq Range(f.bin) \union LostEnvs' \/ ~linked
           /\ linked \/ Acked(Range(live.bin)) \subseteq LostEnvs'
<1> DEFINE A == Acked(Range(live.bin))
           B == Acked(Range(f.bin))
<1>1. /\ {"in_channel", "unlinked", "unsynced"} \subseteq Causes
      /\ "in_channel" # "unlinked" /\ "in_channel" # "unsynced" /\ "unlinked" # "unsynced"
  BY DEF Causes
<1>2. /\ live.bin \in Seq(Recs) /\ f.bin \in Seq(Recs)
      /\ Range(live.bin) \subseteq Recs /\ Range(f.bin) \subseteq Recs /\ Range(queue) \subseteq Env
  BY RangeOf DEF AuditType, Files
<1>3. A \subseteq Env /\ B \subseteq Range(f.bin)
  BY <1>2, AckedIn
<1> HIDE DEF A, B
<1>4. /\ lost'["in_channel"] = lost["in_channel"] \union Range(queue)
      /\ lost'["unlinked"] = IF linked THEN lost["unlinked"] ELSE lost["unlinked"] \union A
      /\ lost'["unsynced"] = IF linked THEN lost["unsynced"] \union (A \ B) ELSE lost["unsynced"]
      /\ \A c \in Causes \ {"in_channel", "unlinked", "unsynced"} : lost'[c] = lost[c]
      /\ DOMAIN lost' = Causes
      /\ lost' = [c \in Causes |-> lost'[c]]
  BY <1>1 DEF Gone, AuditType, A, B
<1>41. LossesKept /\ lost'["stranded"] = lost["stranded"]
  <2>1. "stranded" \in Causes \ {"in_channel", "unlinked", "unsynced"}
    BY DEF Causes
  <2>2. \A c \in Causes : c = "in_channel" \/ c = "unlinked" \/ c = "unsynced" \/ c \in Causes \ {"in_channel", "unlinked", "unsynced"}
    OBVIOUS
  <2> QED
    BY <1>4, <2>1, <2>2 DEF LossesKept
<1>5. lost' \in [Causes -> SUBSET Env]
  <2>1. \A c \in Causes : lost'[c] \in SUBSET Env
    BY <1>1, <1>2, <1>3, <1>4 DEF AuditType
  <2> QED
    BY <1>4, <2>1
<1>6. LostEnvs \subseteq LostEnvs' /\ lost'["unlinked"] \subseteq LostEnvs' /\ lost'["unsynced"] \subseteq LostEnvs'
  BY <1>1, <1>4 DEF LostEnvs
<1>7. dir' \in Seq(Files)
  BY DEF Gone, AuditType
<1>8. A \subseteq Range(f.bin) \union LostEnvs' \/ ~linked
  BY <1>3, <1>4, <1>6
<1>9. linked \/ A \subseteq LostEnvs'
  BY <1>4, <1>6
<1> QED
  BY <1>4, <1>41, <1>5, <1>6, <1>7, <1>8, <1>9 DEF Gone, A

LEMMA WritesTyped ==
    ASSUME AuditType, NEW env \in Env, NEW f \in FailedWrites(env) \union {live}
    PROVE  /\ f \in Files /\ f.sb = live.sb
           /\ f.bin = live.bin \/ f.bin = Append(live.bin, env) \/ f.bin = Append(live.bin, Torn)
<1>1. env \in Recs /\ Torn \in Recs /\ live \in Files
  BY DEF Recs, AuditType
<1>2. \A x, y \in Recs : Append(live.bin, x) \in Seq(Recs) /\ Append(live.crc, y) \in Seq(Recs)
  BY <1>1 DEF Files
<1> QED
  BY <1>1, <1>2 DEF FailedWrites, Files

LEMMA CrashTyped ==
    ASSUME AuditType, NEW n \in live.sb..Len(live.bin), NEW m \in live.sc..Len(live.crc)
    PROVE  [bin |-> SubSeq(live.bin, 1, n), crc |-> SubSeq(live.crc, 1, m), sb |-> n, sc |-> m] \in Files
<1>1. live.bin \in Seq(Recs) /\ live.crc \in Seq(Recs) /\ live.sb \in Nat /\ live.sc \in Nat
  BY DEF AuditType, Files
<1>2. n \in 0..Len(live.bin) /\ m \in 0..Len(live.crc) /\ n \in Nat /\ m \in Nat
  BY <1>1
<1> QED
  BY <1>1, <1>2, PrefixIn DEF Files

LEMMA StoppedTyped ==
    ASSUME AuditType
    PROVE  /\ Stopped \in [Env -> Outcomes]
           /\ \A env \in Env : /\ Stopped[env] # "waiting"
                               /\ Stopped[env] = outcome[env] \/ Stopped[env] = "aborted"
BY DEF AuditType, Stopped, Outcomes

(* The shape of the state is kept by every step. *)
LEMMA TypeStep ==
    ASSUME AuditType, Resting, [Next]_vars
    PROVE  AuditType' /\ Resting'
<1>0. /\ queue \in Seq(Env) /\ live \in Files /\ dir \in Seq(Files)
      /\ at \in Nat \ {0} /\ pos \in Nat \ {0} /\ outcome \in [Env -> Outcomes]
  BY DEF AuditType
<1>01. \A e \in Env : Append(queue, e) \in Seq(Env)
  BY <1>0, RangeOf
<1>03. <<>> \in Seq(Env) /\ <<>> \in Seq(Recs)
  OBVIOUS
<1>02. NoFile \in Files
  BY DEF NoFile, Files
<1>1. CASE Open
  <2>1. policy' \in AuditConfig
    BY <1>1, ModeAssumption DEF Open
  <2> QED
    <3>1. /\ UNCHANGED <<dir, queue, delivered, late, outcome, lost>> /\ phase' = "recover" /\ worker' = "recv"
          /\ live' = NoFile /\ linked' = TRUE /\ bytes_written' = 0 /\ pending_records' = 0 /\ at' = 1 /\ pos' = 1
          /\ detached' = FALSE
      BY <1>1 DEF Open
    <3>2. AuditType'
      <4>1. phase' \in {"down", "recover", "up", "closing", "joining", "closed"}
        BY <3>1
      <4>2. worker' \in {"recv", "deliver", "check", "drain", "drain_deliver", "exit", "gone"}
        BY <3>1
      <4>3. dir' \in Seq(Files) /\ live' \in Files /\ queue' \in Seq(Env) /\ delivered' \in Seq(Env)
        BY <1>02, <3>1 DEF AuditType
      <4>4. detached' \in BOOLEAN /\ linked' \in BOOLEAN /\ late' \subseteq Env
        <5>1. late' \subseteq Env
          BY <3>1 DEF AuditType
        <5>2. detached' = FALSE /\ linked' = TRUE
          BY <3>1
        <5> QED
          BY <5>1, <5>2, Zenon
      <4>6. /\ bytes_written' \in Nat /\ pending_records' \in Nat
            /\ at' \in Nat \ {0} /\ pos' \in Nat \ {0}
        BY <3>1
      <4>5. outcome' \in [Env -> Outcomes] /\ lost' \in [Causes -> SUBSET Env]
        BY <3>1 DEF AuditType
      <4> QED
        BY <2>1, <4>1, <4>2, <4>3, <4>4, <4>5, <4>6 DEF AuditType
    <3>3. \A env \in Env : outcome[env] # "waiting"
      BY <1>1 DEF Open, Resting
    <3> QED
      BY <3>1, <3>2, <3>3 DEF Resting, InHand
<1>2. CASE RecoverRecord
  <2> DEFINE env == File.bin[pos]
  <2>1. live.bin = <<>>
    BY <1>2 DEF RecoverRecord, NoFile, Resting
  <2>2. at <= Len(dir) /\ File = dir[at] /\ File \in Files
    BY <1>0, <1>2, <2>1 DEF RecoverRecord, File, Intact
  <2>3. File.bin \in Seq(Recs) /\ pos \in 1..Len(File.bin) /\ env # Torn
    <3>1. File.bin \in Seq(Recs)
      BY <2>2 DEF Files
    <3>2. pos \in DOMAIN File.bin /\ \A j \in 1..pos : File.bin[j] # Torn
      BY <1>2 DEF RecoverRecord, Intact
    <3>3. pos \in 1..pos
      BY <1>0
    <3> QED
      BY <3>1, <3>2, <3>3
  <2>30. env \in Recs
    BY ONLY <2>3
  <2> HIDE DEF env
  <2>31. env \in Env /\ Acked({env}) \subseteq Env
    BY ONLY <2>3, <2>30 DEF Recs, Acked
  <2>4. lost' \in [Causes -> SUBSET Env]
    <3>1. {"unreadable", "refused"} \subseteq Causes
      BY DEF Causes
    <3> QED
      BY <1>2, <2>31, <3>1, LoseGrows DEF RecoverRecord, env, AuditType
  <2>5. queue' \in Seq(Env)
    BY <1>0, <1>01, <1>2, <2>31 DEF RecoverRecord, env
  <2>6. pos' \in Nat \ {0}
    BY <1>0, <1>2 DEF RecoverRecord
  <2> QED
    BY <1>2, <2>4, <2>5, <2>6 DEF RecoverRecord, CanSend, InHand, diskVars, writerVars, taskVars, AuditType, Resting
<1>3. CASE RemoveFile
  <2>1. File \in Files
    BY <1>0 DEF File
  <2>2. Beyond(File) \subseteq Env /\ "unreadable" \in Causes
    <3>1. {File.bin[i] : i \in DOMAIN File.bin \ Intact(File.bin)} \subseteq Recs
      BY <2>1 DEF Files
    <3> QED
      BY <3>1, AckedIn DEF Beyond, Causes
  <2>3. lost' \in [Causes -> SUBSET Env]
    BY <1>3, <2>2, LoseGrows DEF RemoveFile
  <2>4. dir' \in Seq(Files)
    <3>1. CASE at <= Len(dir)
      <4>1. at \in 1..Len(dir)
        BY <1>0, <3>1
      <4> QED
        BY <1>0, <1>3, <3>1, <4>1, RemoveAtKeeps DEF RemoveFile
    <3> QED
      BY <1>0, <1>3, <3>1 DEF RemoveFile
  <2>5. linked' \in BOOLEAN /\ pos' \in Nat \ {0} /\ phase' \in {"recover", "up"}
    <3>1. linked \in BOOLEAN
      BY DEF AuditType
    <3>2. CASE at <= Len(dir)
      BY <1>3, <3>1, <3>2 DEF RemoveFile
    <3>3. CASE ~(at <= Len(dir))
      BY <1>0, <1>3, <3>3 DEF RemoveFile
    <3> QED
      BY <3>2, <3>3
  <2>6. UNCHANGED <<policy, live, bytes_written, pending_records, at, queue, delivered, outcome,
                    worker, detached, late>>
    BY <1>3 DEF RemoveFile, writerVars, taskVars
  <2>7. phase = "recover"
    BY <1>3 DEF RemoveFile
  <2> QED
    BY <2>3, <2>4, <2>5, <2>6, <2>7 DEF AuditType, Resting, InHand
<1>4. CASE \E sidecar \in BOOLEAN : RemoveFails(sidecar)
  <2>1. PICK sidecar \in BOOLEAN : RemoveFails(sidecar)
    BY <1>4
  <2>2. dir' \in Seq(Files)
    <3>1. CASE at <= Len(dir) /\ ~sidecar
      <4>1. at \in 1..Len(dir) /\ dir[at] \in Files
        BY <1>0, <3>1
      <4>2. [dir[at] EXCEPT !.crc = <<>>] \in Files
        <5>1. PICK f \in Files : f = dir[at]
          BY <4>1
        <5>2. [f EXCEPT !.crc = <<>>] \in Files
          BY ONLY <1>03, f \in Files DEF Files
        <5> QED
          BY <5>1, <5>2
      <4>3. dir' = [dir EXCEPT ![at] = [dir[at] EXCEPT !.crc = <<>>]]
        BY <2>1, <3>1 DEF RemoveFails
      <4> QED
        BY <1>0, <4>1, <4>2, <4>3
    <3> QED
      BY <1>0, <2>1, <3>1 DEF RemoveFails
  <2>3. at' \in Nat \ {0} /\ pos' \in Nat \ {0} /\ phase' \in {"recover", "up"} /\ phase = "recover"
    BY <1>0, <2>1 DEF RemoveFails
  <2>4. UNCHANGED <<policy, live, linked, bytes_written, pending_records, queue, delivered, outcome, lost,
                    worker, detached, late>>
    BY <2>1 DEF RemoveFails, writerVars, taskVars
  <2> QED
    BY <2>2, <2>3, <2>4 DEF AuditType, Resting, InHand
<1>5. CASE RecoverFails
  BY <1>5 DEF RecoverFails, diskVars, writerVars, taskVars, AuditType, Resting, InHand
<1>6. CASE \E env \in Env : TrySend(env)
  <2>1. PICK env \in Env : TrySend(env)
    BY <1>6
  <2>2. {"queued", "waiting"} \subseteq Outcomes
    BY DEF Outcomes
  <2>3. outcome' \in [Env -> Outcomes] /\ queue' \in Seq(Env)
    BY <1>0, <1>01, <2>1, <2>2 DEF TrySend
  <2>4. /\ phase' = phase /\ phase \notin {"down", "recover"} /\ (worker = "gone" => queue' = queue)
        /\ queue' = queue \/ queue' = Append(queue, env)
        /\ late' \subseteq Env
    BY <2>1 DEF TrySend, CanSend, AuditType
  <2>5. UNCHANGED <<policy, dir, live, linked, bytes_written, pending_records, at, pos, delivered, lost,
                    worker, detached>>
    BY <2>1 DEF TrySend, diskVars, writerVars, recoveryVars
  <2>6. Append(queue, env) # <<>>
    BY <1>0
  <2> QED
    BY <2>3, <2>4, <2>5, <2>6 DEF AuditType, Resting, InHand
<1>7. CASE \E env \in Env : GiveUp(env)
  <2>1. PICK env \in Env : GiveUp(env)
    BY <1>7
  <2>2. phase \in {"up", "closing", "joining", "closed"} /\ outcome[env] = "waiting"
    BY <2>1 DEF GiveUp, AuditType, Resting
  <2>3. bytes_written' \in Nat /\ pending_records' \in Nat
    <3>1. bytes_written \in Nat /\ pending_records \in Nat
      BY DEF AuditType
    <3> QED
      BY ONLY <2>1, <3>1 DEF GiveUp, AppendOk, writerVars
  <2>31. UNCHANGED <<policy, at, pos, delivered, detached, late>>
    BY <2>1 DEF GiveUp
  <2>4. ASSUME NEW f \in FailedWrites(env) \union {live}, SpoolFailure(env, f)
        PROVE  /\ live' \in Files /\ dir' \in Seq(Files) /\ linked' \in BOOLEAN /\ queue' \in Seq(Env)
               /\ outcome' \in [Env -> Outcomes] /\ lost' \in [Causes -> SUBSET Env]
               /\ \/ phase' = phase /\ queue' = queue /\ worker' = worker
                  \/ /\ phase' = "down" /\ live' = NoFile /\ queue' = <<>> /\ worker' = "gone"
                     /\ \A e \in Env : outcome'[e] # "waiting"
    <3>1. f \in Files /\ {"panicked", "dropped"} \subseteq Outcomes
      BY <2>4, WritesTyped DEF Outcomes
    <3>2. CASE policy.on_failure # "abort"
      BY <1>0, <2>4, <3>1, <3>2 DEF SpoolFailure, AuditType
    <3>3. CASE policy.on_failure = "abort"
      <4>1. Gone(f) /\ outcome' = Stopped
        BY <2>4, <3>3 DEF SpoolFailure, Stopped
      <4>2. queue' = <<>> /\ queue' \in Seq(Env)
        BY <1>03, <3>1, <4>1, GoneEffect
      <4> QED
        BY <1>02, <3>1, <4>1, <4>2, GoneEffect, StoppedTyped
    <3> QED
      BY <3>2, <3>3
  <2>5. CASE AppendOk(env) /\ UNCHANGED <<phase, worker, faults, dir, linked, queue, redone, lost>>
    <3>1. live' \in Files
      <4> DEFINE b == Append(live.bin, env)
                 c == Append(live.crc, env)
      <4>1. env \in Recs /\ live.bin \in Seq(Recs) /\ live.crc \in Seq(Recs)
        BY <1>0 DEF Recs, Files
      <4>2. b \in Seq(Recs) /\ c \in Seq(Recs) /\ Len(live.bin) + 1 \in Nat /\ Len(live.crc) + 1 \in Nat
        BY ONLY <4>1
      <4>3. \/ live' = [bin |-> b, crc |-> c, sb |-> Len(live.bin) + 1, sc |-> Len(live.crc) + 1]
            \/ live' = [live EXCEPT !.bin = b, !.crc = c]
        BY <2>5 DEF AppendOk
      <4> HIDE DEF b, c
      <4>4. [live EXCEPT !.bin = b, !.crc = c] \in Files
        <5>1. PICK f \in Files : f = live
          BY <1>0
        <5>2. [f EXCEPT !.bin = b, !.crc = c] \in Files
          BY ONLY <4>2, f \in Files DEF Files
        <5> QED
          BY <5>1, <5>2
      <4>5. [bin |-> b, crc |-> c, sb |-> Len(live.bin) + 1, sc |-> Len(live.crc) + 1] \in Files
        BY ONLY <4>2 DEF Files
      <4> QED
        BY ONLY <4>3, <4>4, <4>5
    <3>2. outcome' \in [Env -> Outcomes]
      BY <1>0, <2>5 DEF AppendOk, Outcomes
    <3> QED
      BY <2>2, <2>3, <2>31, <2>5, <3>1, <3>2 DEF AuditType, Resting, InHand
  <2>6. CASE \E f \in FailedWrites(env) \union {live} : SpoolFailure(env, f)
    BY <2>2, <2>3, <2>31, <2>4, <2>6 DEF AuditType, Resting, InHand
  <2> QED
    BY <2>1, <2>5, <2>6 DEF GiveUp
<1>8. CASE Deliver
  <2>1. /\ InHand /\ queue # <<>> /\ Head(queue) \in Env /\ Tail(queue) \in Seq(Env)
        /\ Range(queue) \subseteq Env /\ Append(delivered, Head(queue)) \in Seq(Env)
    BY <1>8, RangeOf DEF Deliver, AuditType, Resting
  <2>2. {"unscrubbed", "sink_panic"} \subseteq Causes
    BY DEF Causes
  <2>3. UNCHANGED <<phase, policy, dir, live, linked, bytes_written, pending_records, at, pos, outcome,
                    detached, late>>
    BY <1>8 DEF Deliver, diskVars, writerVars, recoveryVars
  <2>4. lost' \in [Causes -> SUBSET Env]
    <3>1. CASE lost' = lost
      BY <3>1 DEF AuditType
    <3>2. CASE Lose("unscrubbed", {Head(queue)})
      BY <2>1, <2>2, <3>2, LoseGrows
    <3>3. CASE Lose("sink_panic", Range(queue))
      BY <2>1, <2>2, <3>3, LoseGrows
    <3> QED
      BY <1>8, <3>1, <3>2, <3>3 DEF Deliver
  <2>5. /\ delivered' \in Seq(Env) /\ queue' \in Seq(Env)
        /\ worker' \in {"check", "drain", "gone"} /\ (worker' = "gone" => queue' = <<>>)
    BY <1>03, <1>8, <2>1 DEF Deliver, TaskEnds, AuditType
  <2>6. phase # "down"
    BY <2>1 DEF Resting, InHand
  <2> QED
    BY <2>3, <2>4, <2>5, <2>6 DEF AuditType, Resting, InHand
<1>81. CASE Recv \/ Check \/ Drain
  <2>1. UNCHANGED <<phase, policy, dir, live, linked, bytes_written, pending_records, at, pos, queue,
                    delivered, outcome, lost, detached, late>>
    BY <1>81 DEF Recv, Check, Drain, diskVars, writerVars, recoveryVars
  <2>2. /\ worker' \in {"recv", "deliver", "drain", "drain_deliver", "exit"} /\ worker # "gone"
        /\ worker' \in {"deliver", "drain_deliver"} => queue # <<>>
    BY <1>81 DEF Recv, Check, Drain
  <2> QED
    BY <2>1, <2>2 DEF AuditType, Resting, InHand
<1>82. CASE Exit
  <2>1. UNCHANGED <<phase, policy, dir, live, linked, bytes_written, pending_records, at, pos,
                    delivered, outcome, detached, late>>
    BY <1>82 DEF Exit, diskVars, writerVars, recoveryVars
  <2>2. queue' = <<>> /\ queue' \in Seq(Env) /\ worker' = "gone" /\ worker = "exit"
    BY <1>03, <1>82 DEF Exit, TaskEnds
  <2>3. lost' \in [Causes -> SUBSET Env]
    <3>1. Range(queue) \subseteq Env /\ "stranded" \in Causes
      BY <1>0, RangeOf DEF Causes
    <3> QED
      BY <1>82, <3>1, LoseGrows DEF Exit
  <2> QED
    BY <2>1, <2>2, <2>3 DEF AuditType, Resting, InHand
<1>9. CASE StoreFlag \/ TakeSender \/ Timeout \/ CloseSpool
  <2>1. /\ UNCHANGED <<policy, dir, live, linked, bytes_written, pending_records, at, pos, queue, worker,
                       delivered, late, outcome, lost>>
        /\ phase \in {"up", "closing", "joining"} /\ phase' \in {"closing", "joining", "closed"}
        /\ detached' = detached \/ detached' = TRUE
    BY <1>9 DEF StoreFlag, TakeSender, Timeout, CloseSpool, shutdownRest, diskVars, writerVars, recoveryVars
  <2> QED
    BY <2>1 DEF AuditType, Resting, InHand
<1>11. CASE \E f \in Files : Gone(f) /\ outcome' = Stopped
                /\ UNCHANGED <<boots, policy, faults, writerVars, at, pos, delivered, detached, late>>
  <2>1. PICK f \in Files : Gone(f)
    BY <1>11
  <2>2. queue' \in Seq(Env) /\ live' \in Files /\ linked' \in BOOLEAN
    BY <1>02, <1>03, <2>1, GoneEffect
  <2>3. outcome' = Stopped /\ UNCHANGED <<policy, bytes_written, pending_records, at, pos, delivered, detached, late>>
    BY <1>11 DEF writerVars
  <2> QED
    BY <2>1, <2>2, <2>3, GoneEffect, StoppedTyped DEF AuditType, Resting, InHand
<1>12. CASE Kill
  <2>1. PICK f \in {live} \union (UNION {FailedWrites(env) : env \in
                    {e \in Env : outcome[e] = "waiting" /\ ~Refuses}}) : Gone(f)
    BY <1>12 DEF Kill
  <2>2. f \in Files
    BY <1>0, WritesTyped
  <2> QED
    BY <1>11, <1>12, <2>1, <2>2 DEF Kill
<1>13. CASE HostCrash
  BY <1>11, <1>13, CrashTyped DEF HostCrash
<1>14. CASE UNCHANGED vars
  BY <1>14 DEF vars, AuditType, Resting, InHand
<1> QED
  BY <1>1, <1>2, <1>3, <1>4, <1>5, <1>6, <1>7, <1>8, <1>81, <1>82, <1>9, <1>12, <1>13, <1>14 DEF Next

-------------------------------------------------------------------------------
(* Nothing acknowledged disappears.                                        *)

(* What a step must do to keep the account.                                *)
LEMMA AccountKept ==
    ASSUME AuditInv, AuditType', Resting', ReadKept',
           Elsewhere \subseteq Elsewhere',
           lost' = lost \/ LossesKept, Sent \subseteq Sent' \/ Sent \subseteq Taken',
           \A env \in Env : outcome'[env] = "queued" => outcome[env] = "queued" \/ env \in Sent',
           \A env \in Env : outcome'[env] = "spooled" =>
               \/ env \in OnDisk'
               \/ outcome[env] = "spooled" /\ (env \in OnDisk => env \in OnDisk' \union Elsewhere')
    PROVE  AuditInv'
<1>1. {"in_channel", "stranded", "unscrubbed", "sink_panic"} \subseteq Causes
  BY DEF Causes
<1>2. Taken \subseteq Taken' /\ Sent' \subseteq Taken'
  BY <1>1 DEF Taken, LossesKept
<1> QED
  BY <1>2 DEF AuditInv

(* The same for a step that leaves the disk and the outcomes alone.        *)
LEMMA FrameKept ==
    ASSUME AuditInv, AuditType', Resting', ReadKept', UNCHANGED <<dir, live, outcome>>,
           Elsewhere \subseteq Elsewhere',
           lost' = lost \/ LossesKept, Sent \subseteq Sent' \/ Sent \subseteq Taken'
    PROVE  AuditInv'
<1>1. OnDisk' = OnDisk
  BY DEF OnDisk
<1> QED
  BY <1>1, AccountKept

(* The end of a process. *)
LEMMA GoneKept ==
    ASSUME AuditInv, AuditType', Resting', NEW f \in Files, Gone(f),
           outcome' = Stopped, UNCHANGED delivered
    PROVE  AuditInv'
<1>0. AuditType
  BY DEF AuditInv
<1>1. /\ live' = NoFile /\ queue' = <<>> /\ phase' = "down" /\ LostEnvs \subseteq LostEnvs' /\ LossesKept
      /\ lost'["in_channel"] = lost["in_channel"] \union Range(queue)
      /\ Acked(Range(live.bin)) \subseteq Range(f.bin) \union LostEnvs' \/ ~linked
      /\ linked \/ Acked(Range(live.bin)) \subseteq LostEnvs'
      /\ lost' \in [Causes -> SUBSET Env]
  BY <1>0, GoneEffect
<1>2. dir \in Seq(Files) /\ live \in Files /\ live.bin \in Seq(Recs) /\ Range(live.bin) \subseteq Recs
  BY <1>0, RangeOf DEF AuditType, Files
<1>3. lost'["in_channel"] \subseteq LostEnvs'
  BY DEF LostEnvs, Causes
<1>4. Elsewhere \subseteq Elsewhere' /\ Sent \subseteq Taken'
  BY <1>1, <1>3 DEF Elsewhere, Sent, Taken
<1>5. ReadKept'
  BY <1>1 DEF ReadKept
<1>6. \A env \in Env : outcome'[env] \in {"queued", "spooled"} => outcome[env] = outcome'[env]
  BY <1>0, StoppedTyped
<1>7. UNION {Range(dir[i].bin) : i \in DOMAIN dir} \subseteq OnDisk' /\ (linked => Range(f.bin) \subseteq OnDisk')
  <2>1. CASE linked
    <3>1. dir' = Append(dir, f)
      BY <2>1 DEF Gone
    <3>2. /\ \A i \in 1..Len(dir) : dir'[i] = dir[i] /\ i \in DOMAIN dir'
          /\ dir'[Len(dir) + 1] = f /\ Len(dir) + 1 \in DOMAIN dir' /\ DOMAIN dir = 1..Len(dir)
      BY <1>2, <3>1
    <3> QED
      BY <3>2 DEF OnDisk
  <2>2. CASE ~linked
    <3>1. dir' = dir
      BY <2>2 DEF Gone
    <3> QED
      BY <2>2, <3>1 DEF OnDisk
  <2> QED
    BY <2>1, <2>2
<1>8. ASSUME NEW env \in Env, outcome[env] = "spooled", env \in OnDisk PROVE env \in OnDisk' \union Elsewhere'
  <2>1. CASE env \in Range(live.bin)
    <3>1. env \in Acked(Range(live.bin))
      BY <1>0, <1>2, <1>8, <2>1, AckedIn
    <3> QED
      BY <1>1, <1>7, <3>1 DEF Elsewhere
  <2> QED
    BY <1>7, <1>8, <2>1, DiskHolds
<1> QED
  BY <1>1, <1>4, <1>5, <1>6, <1>8, AccountKept

LEMMA AuditStep ==
    ASSUME AuditInv, [Next]_vars
    PROVE  AuditInv'
<1>0. AuditType /\ Resting /\ ReadKept /\ AuditType' /\ Resting'
  BY TypeStep DEF AuditInv
<1>01. /\ queue \in Seq(Env) /\ live \in Files /\ dir \in Seq(Files)
       /\ at \in Nat \ {0} /\ pos \in Nat \ {0} /\ outcome \in [Env -> Outcomes]
  BY <1>0 DEF AuditType
<1>1. CASE Open
  <2>1. live' = live /\ dir' = dir /\ UNCHANGED <<outcome, lost, queue, delivered>> /\ pos' = 1
    BY <1>0, <1>1 DEF Open, Resting
  <2>2. Elsewhere' = Elsewhere /\ Sent' = Sent
    BY <2>1 DEF Elsewhere, Sent, LostEnvs
  <2>3. ReadKept'
    BY <2>1 DEF ReadKept
  <2> QED
    BY <1>0, <2>1, <2>2, <2>3, FrameKept
<1>2. CASE RecoverRecord
  <2> DEFINE env == File.bin[pos]
  <2>1. live.bin = <<>>
    BY <1>0, <1>2 DEF RecoverRecord, NoFile, Resting
  <2>2. at <= Len(dir) /\ File = dir[at] /\ File \in Files
    BY <1>01, <1>2, <2>1 DEF RecoverRecord, File, Intact
  <2>3. /\ UNCHANGED <<phase, dir, live, at, delivered, outcome>> /\ pos' = pos + 1
        /\ \/ Lose("unreadable", Acked({env})) /\ queue' = queue
           \/ queue' = Append(queue, env) /\ lost' = lost
           \/ Lose("refused", {env}) /\ queue' = queue
    BY <1>2 DEF RecoverRecord, diskVars
  <2>4. env \in Recs /\ env # Torn
    <3>1. File.bin \in Seq(Recs)
      BY <2>2 DEF Files
    <3>2. pos \in DOMAIN File.bin /\ \A j \in 1..pos : File.bin[j] # Torn
      BY <1>2 DEF RecoverRecord, Intact
    <3>3. pos \in 1..pos
      BY <1>01
    <3> QED
      BY <3>1, <3>2, <3>3
  <2>5. env \in Env /\ env = dir[at].bin[pos]
    BY <2>2, <2>4 DEF Recs
  <2> HIDE DEF env
  <2>6. /\ Elsewhere \subseteq Elsewhere' /\ (lost' = lost \/ LossesKept) /\ Sent \subseteq Sent'
        /\ outcome[env] = "spooled" => env \in Elsewhere'
    <3>1. {"unreadable", "refused"} \subseteq Causes
      BY DEF Causes
    <3>2. {env} \subseteq Recs /\ Acked({env}) = {e \in {env} \intersect Env : outcome[e] = "spooled"}
      BY <1>0, <2>4, AckedIn
    <3>3. CASE Lose("unreadable", Acked({env})) /\ queue' = queue
      <4>1. LostEnvs' = LostEnvs \union Acked({env}) /\ LossesKept
        BY <1>0, <3>1, <3>2, <3>3, LoseGrows
      <4> QED
        BY <2>3, <2>5, <3>2, <3>3, <4>1 DEF Elsewhere, Sent
    <3>4. CASE Lose("refused", {env}) /\ queue' = queue
      <4>1. LostEnvs' = LostEnvs \union {env} /\ LossesKept
        BY <1>0, <2>5, <3>1, <3>4, LoseGrows
      <4> QED
        BY <2>3, <3>4, <4>1 DEF Elsewhere, Sent
    <3>5. CASE queue' = Append(queue, env) /\ lost' = lost
      <4>1. Range(queue') = Range(queue) \union {env}
        BY <1>01, <2>5, <3>5, RangeOf
      <4> QED
        BY <2>3, <3>5, <4>1 DEF Elsewhere, Sent, LostEnvs
    <3> QED
      BY <2>3, <3>3, <3>4, <3>5
  <2>7. ReadKept'
    <3>1. SUFFICES ASSUME phase = "recover", at <= Len(dir), NEW i \in 1..Len(dir[at].bin), i < pos + 1,
                          dir[at].bin[i] \in Acked(Env)'
                   PROVE  dir[at].bin[i] \in Elsewhere'
      BY <2>3 DEF ReadKept
    <3>2. dir[at].bin[i] \in Acked(Env) /\ outcome[dir[at].bin[i]] = "spooled"
      BY <2>3, <3>1 DEF Acked
    <3>3. i < pos \/ i = pos
      BY ONLY <1>01, <3>1, i \in 1..Len(dir[at].bin)
    <3> QED
      BY <1>0, <2>5, <2>6, <3>1, <3>2, <3>3 DEF ReadKept
  <2> QED
    BY <1>0, <2>3, <2>6, <2>7, FrameKept
<1>3. CASE RemoveFile
  <2>1. File \in Files /\ Beyond(File) \subseteq Env /\ "unreadable" \in Causes
    <3>1. File \in Files
      BY <1>01 DEF File
    <3>2. {File.bin[i] : i \in DOMAIN File.bin \ Intact(File.bin)} \subseteq Recs
      BY <3>1 DEF Files
    <3> QED
      BY <1>0, <3>1, <3>2, AckedIn DEF Beyond, Causes
  <2>2. LostEnvs' = LostEnvs \union Beyond(File) /\ LossesKept
    BY <1>0, <1>3, <2>1, LoseGrows DEF RemoveFile
  <2>3. UNCHANGED <<live, at, queue, delivered, outcome>>
    BY <1>3 DEF RemoveFile
  <2>4. Elsewhere' = Elsewhere \union Beyond(File) /\ Sent' = Sent
    BY <2>2, <2>3 DEF Elsewhere, Sent
  <2>5. CASE ~(at <= Len(dir))
    <3>1. phase' = "up" /\ dir' = dir
      BY <1>3, <2>5 DEF RemoveFile
    <3> QED
      BY <1>0, <2>2, <2>3, <2>4, <3>1, FrameKept DEF ReadKept
  <2>6. CASE at <= Len(dir)
    <3>1. dir' = RemoveAt(dir, at) /\ pos' = 1 /\ phase' = phase /\ phase = "recover" /\ File = dir[at]
          /\ pos \notin Intact(File.bin) /\ at \in 1..Len(dir)
      BY <1>01, <1>3, <2>6 DEF RemoveFile, File
    <3>2. ReadKept'
      BY <3>1 DEF ReadKept
    <3>3. dir' \in Seq(Files) /\ \A j \in 1..Len(dir) : j # at => dir[j] \in Range(dir')
      BY <1>01, <3>1, RemoveAtKeeps
    <3>4. ASSUME NEW env \in Env, outcome[env] = "spooled", env \in Range(dir[at].bin) PROVE env \in Elsewhere'
      <4>1. File.bin \in Seq(Recs)
        BY <2>1 DEF Files
      <4>2. PICK i \in 1..Len(File.bin) : env = File.bin[i]
        BY <3>1, <3>4, <4>1 DEF Range
      <4>3. env \in Acked(Env) /\ \A S : env \in S => env \in Acked(S)
        BY <3>4, TornAssumption DEF Acked
      <4>4. CASE i < pos
        BY <1>0, <2>4, <2>6, <3>1, <4>2, <4>3, <4>4 DEF ReadKept
      <4>5. CASE ~(i < pos)
        <5> DEFINE n == Len(File.bin)
        <5>1. n \in Nat /\ DOMAIN File.bin = 1..n
          BY <4>1
        <5> HIDE DEF n
        <5>2. i \in 1..n
          BY DEF n
        <5>3. pos \in 1..n /\ \A j \in 1..pos : j \in 1..i
          BY ONLY <1>01, <4>5, <5>1, <5>2
        <5>4. i \notin Intact(File.bin)
          BY <3>1, <5>1, <5>3 DEF Intact
        <5> QED
          BY <2>4, <4>2, <4>3, <5>1, <5>2, <5>4 DEF Beyond
      <4> QED
        BY <4>4, <4>5
    <3>5. ASSUME NEW env \in Env, outcome[env] = "spooled", env \in OnDisk PROVE env \in OnDisk' \union Elsewhere'
      <4>1. CASE env \in Range(live.bin)
        BY <2>3, <4>1, DiskHolds
      <4>2. CASE env \notin Range(live.bin)
        <5>1. PICK j \in DOMAIN dir : env \in Range(dir[j].bin)
          BY <3>5, <4>2, DiskHolds
        <5>2. CASE j = at
          BY <3>4, <3>5, <5>1, <5>2
        <5>3. CASE j # at
          <6>1. dir[j] \in Range(dir')
            BY <1>01, <3>3, <5>1, <5>3
          <6>2. PICK k \in DOMAIN dir' : dir'[k] = dir[j]
            BY <6>1 DEF Range
          <6> QED
            BY <5>1, <6>2 DEF OnDisk
        <5> QED
          BY <5>2, <5>3
      <4> QED
        BY <4>1, <4>2
    <3> QED
      BY <1>0, <2>2, <2>3, <2>4, <3>2, <3>5, AccountKept
  <2> QED
    BY <2>5, <2>6
<1>4. CASE \E sidecar \in BOOLEAN : RemoveFails(sidecar)
  <2>1. PICK sidecar \in BOOLEAN : RemoveFails(sidecar)
    BY <1>4
  <2>2. UNCHANGED <<live, queue, delivered, outcome, lost>>
    BY <2>1 DEF RemoveFails
  <2>3. Elsewhere' = Elsewhere /\ Sent' = Sent
    BY <2>2 DEF Elsewhere, Sent, LostEnvs
  <2>4. DOMAIN dir' = DOMAIN dir /\ \A i \in DOMAIN dir : dir'[i].bin = dir[i].bin
    <3>1. CASE at <= Len(dir) /\ ~sidecar
      <4>1. at \in 1..Len(dir) /\ dir[at] \in Files /\ DOMAIN dir = 1..Len(dir)
        BY <1>01, <3>1
      <4>2. dir' = [dir EXCEPT ![at] = [dir[at] EXCEPT !.crc = <<>>]]
        BY <2>1, <3>1 DEF RemoveFails
      <4>3. [dir[at] EXCEPT !.crc = <<>>].bin = dir[at].bin
        BY <4>1 DEF Files
      <4> QED
        BY <1>01, <4>1, <4>2, <4>3
    <3> QED
      BY <1>01, <2>1, <3>1 DEF RemoveFails
  <2>5. OnDisk' = OnDisk
    BY <2>2, <2>4 DEF OnDisk
  <2>6. ReadKept'
    <3>1. pos' = 1 \/ phase' = "up"
      BY <2>1 DEF RemoveFails
    <3> QED
      BY <3>1 DEF ReadKept
  <2> QED
    BY <1>0, <2>2, <2>3, <2>5, <2>6, AccountKept
<1>5. CASE RecoverFails
  <2>1. UNCHANGED <<dir, live, queue, delivered, outcome, lost>> /\ phase' = "up"
    BY <1>5 DEF RecoverFails, diskVars
  <2>2. Elsewhere' = Elsewhere /\ Sent' = Sent
    BY <2>1 DEF Elsewhere, Sent, LostEnvs
  <2> QED
    BY <1>0, <2>1, <2>2, FrameKept DEF ReadKept
<1>6. CASE \E env \in Env : TrySend(env)
  <2>1. PICK env \in Env : TrySend(env)
    BY <1>6
  <2>2. /\ UNCHANGED <<phase, dir, live, delivered, lost>> /\ phase # "recover"
        /\ \/ queue' = Append(queue, env) /\ outcome' = [outcome EXCEPT ![env] = "queued"]
           \/ queue' = queue /\ outcome' = [outcome EXCEPT ![env] = "waiting"]
    BY <2>1 DEF TrySend, diskVars
  <2>3. Range(queue) \subseteq Range(queue') /\ (queue' = Append(queue, env) => env \in Range(queue'))
    <3>1. Range(Append(queue, env)) = Range(queue) \union {env}
      BY <1>01, RangeOf
    <3> QED
      BY <2>2, <3>1
  <2>4. OnDisk' = OnDisk /\ Elsewhere \subseteq Elsewhere' /\ Sent \subseteq Sent'
    BY <2>2, <2>3 DEF OnDisk, Elsewhere, Sent, LostEnvs
  <2>5. \A e \in Env : /\ outcome'[e] = "queued" => outcome[e] = "queued" \/ e \in Sent'
                       /\ outcome'[e] = "spooled" => outcome[e] = "spooled"
    BY <1>01, <2>2, <2>3 DEF Sent
  <2> QED
    BY <1>0, <2>2, <2>4, <2>5, AccountKept DEF ReadKept
<1>7. CASE \E env \in Env : GiveUp(env)
  <2>1. PICK env \in Env : GiveUp(env)
    BY <1>7
  <2>2. phase # "recover" /\ outcome[env] = "waiting" /\ UNCHANGED delivered
    BY <1>0, <2>1 DEF GiveUp, Resting
  <2>3. live.bin \in Seq(Recs) /\ env \in Recs /\ Torn \in Recs
    BY <1>01 DEF Files, Recs
  <2>4. CASE AppendOk(env) /\ UNCHANGED <<phase, worker, faults, dir, linked, queue, redone, lost>>
    <3>1. live'.bin = Append(live.bin, env) /\ outcome' = [outcome EXCEPT ![env] = "spooled"]
      BY <1>01, <2>4 DEF AppendOk, Files
    <3>2. Range(live'.bin) = Range(live.bin) \union {env}
      BY <2>3, <3>1, RangeOf
    <3>3. OnDisk \subseteq OnDisk' /\ env \in OnDisk' /\ Elsewhere' = Elsewhere /\ Sent' = Sent
      <4>1. OnDisk \subseteq OnDisk' /\ env \in OnDisk'
        BY <2>4, <3>2, DiskHolds
      <4> QED
        BY <2>2, <2>4, <4>1 DEF Elsewhere, Sent, LostEnvs
    <3>4. \A e \in Env : e # env => outcome'[e] = outcome[e]
      BY <1>01, <3>1
    <3>5. outcome'[env] = "spooled"
      BY <1>01, <3>1
    <3> QED
      BY <1>0, <2>2, <2>4, <3>3, <3>4, <3>5, AccountKept DEF ReadKept
  <2>5. ASSUME NEW f \in FailedWrites(env) \union {live}, SpoolFailure(env, f) PROVE AuditInv'
    <3>1. f \in Files /\ (f.bin = live.bin \/ f.bin = Append(live.bin, env) \/ f.bin = Append(live.bin, Torn))
      BY <1>0, <2>5, WritesTyped
    <3>2. Range(live.bin) \subseteq Range(f.bin)
      <4>1. /\ Range(Append(live.bin, env)) = Range(live.bin) \union {env}
            /\ Range(Append(live.bin, Torn)) = Range(live.bin) \union {Torn}
        BY <2>3, RangeOf
      <4> QED
        BY <3>1, <4>1
    <3>3. CASE policy.on_failure # "abort"
      <4>1. /\ UNCHANGED <<phase, dir, queue, lost>> /\ live' = f
            /\ \E o \in {"panicked", "dropped"} : outcome' = [outcome EXCEPT ![env] = o]
        BY <2>5, <3>3 DEF SpoolFailure
      <4>2. OnDisk \subseteq OnDisk' /\ Elsewhere' = Elsewhere /\ Sent' = Sent
        BY <2>2, <3>2, <4>1 DEF OnDisk, Elsewhere, Sent, LostEnvs
      <4>3. \A e \in Env : outcome'[e] \in {"queued", "spooled"} => outcome'[e] = outcome[e]
        BY <1>01, <4>1
      <4> QED
        BY <1>0, <2>2, <4>1, <4>2, <4>3, AccountKept DEF ReadKept
    <3>4. CASE policy.on_failure = "abort"
      BY <1>0, <2>2, <2>5, <3>1, <3>4, GoneKept DEF SpoolFailure, Stopped
    <3> QED
      BY <3>3, <3>4
  <2> QED
    BY <2>1, <2>4, <2>5 DEF GiveUp
<1>8. CASE Deliver \/ Exit
  <2>1. /\ UNCHANGED <<phase, dir, live, at, pos, outcome>>
        /\ \/ /\ queue # <<>> /\ queue' = Tail(queue)
              /\ \/ delivered' = Append(delivered, Head(queue)) /\ lost' = lost
                 \/ Lose("unscrubbed", {Head(queue)}) /\ delivered' = delivered
           \/ \E c \in {"sink_panic", "stranded"} :
                 Lose(c, Range(queue)) /\ delivered' = delivered /\ queue' = <<>>
    BY <1>0, <1>8 DEF Deliver, Exit, TaskEnds, diskVars, recoveryVars, Resting
  <2>2. delivered \in Seq(Env) /\ queue \in Seq(Env) /\ Range(queue) \subseteq Env
    BY <1>0, RangeOf DEF AuditType
  <2>3. {"unscrubbed", "sink_panic", "stranded"} \subseteq Causes
    BY DEF Causes
  <2>4. Elsewhere \subseteq Elsewhere' /\ (lost' = lost \/ LossesKept) /\ (Sent \subseteq Sent' \/ Sent \subseteq Taken')
    <3>1. CASE /\ queue # <<>> /\ queue' = Tail(queue)
               /\ \/ delivered' = Append(delivered, Head(queue)) /\ lost' = lost
                  \/ Lose("unscrubbed", {Head(queue)}) /\ delivered' = delivered
      <4>1. Head(queue) \in Env /\ Range(queue) = {Head(queue)} \union Range(queue')
        BY <2>2, <3>1, RangeOf
      <4>2. CASE delivered' = Append(delivered, Head(queue)) /\ lost' = lost
        <5>1. Range(delivered') = Range(delivered) \union {Head(queue)}
          BY <2>2, <4>1, <4>2, RangeOf
        <5>2. Sent' = Sent
          BY <4>1, <5>1 DEF Sent
        <5> QED
          BY <4>2, <5>2 DEF Elsewhere, LostEnvs
      <4>3. CASE Lose("unscrubbed", {Head(queue)}) /\ delivered' = delivered
        <5>1. /\ LostEnvs' = LostEnvs \union {Head(queue)} /\ LossesKept
              /\ lost'["unscrubbed"] = lost["unscrubbed"] \union {Head(queue)}
          BY <1>0, <2>3, <4>1, <4>3, LoseGrows
        <5> QED
          BY <4>1, <4>3, <5>1 DEF Elsewhere, Sent, Taken
      <4> QED
        BY <3>1, <4>2, <4>3
    <3>2. CASE \E c \in {"sink_panic", "stranded"} :
                 Lose(c, Range(queue)) /\ delivered' = delivered /\ queue' = <<>>
      <4>1. PICK c \in {"sink_panic", "stranded"} :
                 Lose(c, Range(queue)) /\ delivered' = delivered /\ queue' = <<>>
        BY <3>2
      <4>2. LostEnvs' = LostEnvs \union Range(queue) /\ LossesKept /\ lost'[c] = lost[c] \union Range(queue)
        BY <1>0, <2>2, <2>3, <4>1, LoseGrows
      <4> QED
        BY <4>1, <4>2 DEF Elsewhere, Sent, Taken
    <3> QED
      BY <2>1, <3>1, <3>2
  <2>5. ReadKept'
    BY <1>0, <2>1, <2>4 DEF ReadKept, Acked
  <2> QED
    BY <1>0, <2>1, <2>4, <2>5, FrameKept
<1>9. CASE Recv \/ Check \/ Drain
  <2>1. UNCHANGED <<phase, dir, live, at, pos, queue, delivered, outcome, lost>>
    BY <1>9 DEF Recv, Check, Drain, diskVars, recoveryVars
  <2>2. Elsewhere' = Elsewhere /\ Sent' = Sent
    BY <2>1 DEF Elsewhere, Sent, LostEnvs
  <2>3. ReadKept'
    BY <1>0, <2>1, <2>2 DEF ReadKept, Acked
  <2> QED
    BY <1>0, <2>1, <2>2, <2>3, FrameKept
<1>91. CASE StoreFlag \/ TakeSender \/ Timeout \/ CloseSpool
  <2>1. UNCHANGED <<dir, live, queue, delivered, outcome, lost>> /\ phase' \in {"closing", "joining", "closed"}
    BY <1>91 DEF StoreFlag, TakeSender, Timeout, CloseSpool, shutdownRest, diskVars
  <2>2. Elsewhere' = Elsewhere /\ Sent' = Sent
    BY <2>1 DEF Elsewhere, Sent, LostEnvs
  <2> QED
    BY <1>0, <2>1, <2>2, FrameKept DEF ReadKept
<1>10. CASE Kill
  <2>1. PICK f \in {live} \union (UNION {FailedWrites(env) : env \in
                    {e \in Env : outcome[e] = "waiting" /\ ~Refuses}}) : Gone(f)
    BY <1>10 DEF Kill
  <2>2. f \in Files
    BY <1>0, <1>01, WritesTyped
  <2> QED
    BY <1>0, <1>10, <2>1, <2>2, GoneKept DEF Kill
<1>11. CASE HostCrash
  BY <1>0, <1>11, CrashTyped, GoneKept DEF HostCrash
<1>12. CASE UNCHANGED vars
  <2>1. UNCHANGED <<phase, dir, live, at, pos, outcome, lost, queue, delivered>>
    BY <1>12 DEF vars
  <2>2. Elsewhere' = Elsewhere /\ Sent' = Sent
    BY <2>1 DEF Elsewhere, Sent, LostEnvs
  <2>3. ReadKept'
    BY <1>0, <2>1, <2>2 DEF ReadKept, Acked
  <2> QED
    BY <1>0, <2>1, <2>2, <2>3, FrameKept
<1> QED
  BY <1>1, <1>2, <1>3, <1>4, <1>5, <1>6, <1>7, <1>8, <1>9, <1>91, <1>10, <1>11, <1>12 DEF Next

LEMMA AuditInit ==
    ASSUME Init
    PROVE  AuditInv
<1>1. Range(<<>>) = {} /\ <<>> \in Seq(Env) /\ <<>> \in Seq(Files) /\ <<>> \in Seq(Recs)
  BY RangeEmpty
<1>2. NoFile \in Files
  BY DEF NoFile, Files
<1>3. AuditType
  <2>1. outcome \in [Env -> Outcomes] /\ lost \in [Causes -> SUBSET Env] /\ policy \in AuditConfig
    BY ModeAssumption DEF Init, Outcomes
  <2> QED
    <3>1. at \in Nat \ {0} /\ pos \in Nat \ {0} /\ bytes_written \in Nat /\ pending_records \in Nat
      BY DEF Init
    <3>2. queue \in Seq(Env) /\ delivered \in Seq(Env) /\ dir \in Seq(Files) /\ live \in Files /\ linked \in BOOLEAN
      BY <1>1, <1>2 DEF Init
    <3>3. phase = "down" /\ worker = "gone" /\ detached = FALSE /\ late = {}
      BY DEF Init
    <3> QED
      BY <2>1, <3>1, <3>2, <3>3 DEF AuditType
<1> QED
  BY <1>3 DEF Init, AuditInv, Resting, InHand, ReadKept

LEMMA StopStep ==
    ASSUME AuditType, Resting, StopInv, [Next]_vars
    PROVE  StopInv'
<1>0. queue \in Seq(Env) /\ Range(queue) \subseteq Env /\ "stranded" \in Causes
  BY RangeOf DEF AuditType, Causes
<1>1. ASSUME UNCHANGED <<worker, queue, late, detached, phase>>, lost'["stranded"] = lost["stranded"] PROVE StopInv'
  BY <1>1 DEF StopInv
<1>2. CASE Open
  BY <1>2 DEF Open, StopInv
<1>3. CASE RecoverRecord \/ RemoveFile \/ RecoverFails \/ (\E sidecar \in BOOLEAN : RemoveFails(sidecar))
  <2>1. /\ phase = "recover" /\ phase' \in {"recover", "up"} /\ UNCHANGED <<worker, late, detached>>
        /\ \/ lost' = lost
           \/ \E S : Lose("unreadable", S) \/ Lose("refused", S)
    BY <1>3 DEF RecoverRecord, RemoveFile, RecoverFails, RemoveFails, taskVars
  <2>2. lost'["stranded"] = lost["stranded"]
    BY <1>0, <2>1 DEF Lose, AuditType
  <2> QED
    BY <2>1, <2>2 DEF StopInv
<1>4. CASE \E env \in Env : TrySend(env)
  <2>1. PICK env \in Env : TrySend(env)
    BY <1>4
  <2>2. /\ UNCHANGED <<phase, worker, detached, lost>> /\ late \subseteq late'
        /\ \/ queue' = queue
           \/ queue' = Append(queue, env) /\ worker # "gone" /\ (phase # "up" => env \in late')
    BY <2>1 DEF TrySend, CanSend
  <2>3. Range(Append(queue, env)) = Range(queue) \union {env}
    BY <1>0, RangeOf
  <2> QED
    BY <2>2, <2>3 DEF StopInv
<1>5. CASE \E env \in Env : GiveUp(env)
  <2>1. PICK env \in Env : GiveUp(env)
    BY <1>5
  <2>2. CASE UNCHANGED <<phase, worker, queue, lost>>
    BY <1>1, <2>1, <2>2 DEF GiveUp
  <2>3. CASE \E f \in Files : Gone(f)
    BY <2>1, <2>3, GoneEffect DEF GiveUp, StopInv
  <2>4. \A f : SpoolFailure(env, f) => UNCHANGED <<phase, worker, queue, lost>> \/ Gone(f)
    BY DEF SpoolFailure
  <2>5. \A f \in FailedWrites(env) \union {live} : f \in Files
    BY WritesTyped
  <2> QED
    BY <2>1, <2>2, <2>3, <2>4, <2>5 DEF GiveUp
<1>6. CASE Recv \/ Check \/ Drain
  <2>1. /\ UNCHANGED <<phase, queue, late, detached, lost>> /\ worker # "gone"
        /\ worker' \in {"drain", "drain_deliver", "exit"} =>
              worker = "drain" \/ phase \in {"closing", "joining", "closed"}
        /\ worker' = "exit" => queue = <<>>
    BY <1>6 DEF Recv, Check, Drain
  <2> QED
    BY <2>1, RangeEmpty DEF StopInv
<1>7. CASE Deliver
  <2>1. /\ UNCHANGED <<phase, late, detached>> /\ worker' \in {"check", "drain", "gone"}
        /\ worker \in {"deliver", "drain_deliver"}
        /\ worker' = "drain" => worker = "drain_deliver"
        /\ lost' = lost \/ (\E S : Lose("unscrubbed", S) \/ Lose("sink_panic", S))
    BY <1>7 DEF Deliver, TaskEnds, InHand
  <2>2. lost'["stranded"] = lost["stranded"]
    BY <1>0, <2>1 DEF Lose, AuditType
  <2> QED
    BY <2>1, <2>2 DEF StopInv
<1>8. CASE Exit
  <2>1. UNCHANGED <<phase, late, detached>> /\ worker' = "gone" /\ worker = "exit" /\ Lose("stranded", Range(queue))
    BY <1>8 DEF Exit, TaskEnds
  <2>2. lost'["stranded"] = lost["stranded"] \union Range(queue)
    BY <1>0, <2>1, LoseGrows
  <2> QED
    BY <2>1, <2>2 DEF StopInv
<1>9. CASE StoreFlag \/ TakeSender \/ Timeout \/ CloseSpool
  BY <1>9 DEF StoreFlag, TakeSender, Timeout, CloseSpool, shutdownRest, StopInv
<1>10. CASE Kill \/ HostCrash
  <2>1. UNCHANGED <<late, detached>>
    BY <1>10 DEF Kill, HostCrash
  <2>2. PICK f : Gone(f)
    BY <1>10 DEF Kill, HostCrash
  <2>3. phase' = "down" /\ worker' = "gone" /\ lost'["stranded"] = lost["stranded"]
    BY <1>0, <2>2 DEF Gone, AuditType
  <2> QED
    BY <2>1, <2>3 DEF StopInv
<1>11. CASE UNCHANGED vars
  BY <1>1, <1>11 DEF vars
<1> QED
  BY <1>2, <1>3, <1>4, <1>5, <1>6, <1>7, <1>8, <1>9, <1>10, <1>11 DEF Next

(* Every AUDIT envelope dispatch_audit has enqueued or spooled is in the   *)
(* channel, with the sink, in a spool file, or lost to a named cause,      *)
(* across recoveries, failed writes, scrub failures, panics of the sink,   *)
(* shutdowns, kills and host crashes.                                      *)
THEOREM AuditIsAccounted == Spec => []Accounted
<1>1. AuditInv => Accounted
  <2>1. {"in_channel", "stranded", "unscrubbed", "sink_panic"} \subseteq Causes
    BY DEF Causes
  <2>2. Taken \subseteq Elsewhere
    BY <2>1 DEF LostEnvs, Taken, Elsewhere
  <2> QED
    BY <2>2 DEF AuditInv, Accounted, Elsewhere, Sent
<1> QED
  BY <1>1, AuditInit, AuditStep, PTL DEF Spec

(* When a shutdown() that was not cancelled has closed the spool, every    *)
(* envelope that was enqueued before the flag has been delivered, or was   *)
(* rejected by the scrubber, or the sink panicked, or an earlier process   *)
(* ended with it; what the end of a drain task strands came after the flag.*)
THEOREM ShutdownIsClean == Spec => []CleanShutdown
<1>1. AuditInv /\ StopInv => CleanShutdown
  BY RangeEmpty DEF AuditInv, StopInv, CleanShutdown, Resting, Sent, Taken
<1>2. Init => StopInv
  BY DEF Init, StopInv, Causes
<1>3. AuditInv /\ StopInv /\ [Next]_vars => StopInv'
  BY StopStep DEF AuditInv
<1> QED
  BY <1>1, <1>2, <1>3, AuditInit, AuditStep, PTL DEF Spec

-------------------------------------------------------------------------------
(* What a host crash can take.                                             *)

LEMMA UnsyncedFinite ==
    ASSUME AuditType
    PROVE  IsFiniteSet(Unsynced) /\ Cardinality(Unsynced) \in Nat
<1>1. live.sb + 1 \in Int /\ Len(live.bin) \in Int
  BY DEF AuditType, Files
<1>2. IsFiniteSet((live.sb + 1)..Len(live.bin))
  BY <1>1, FS_Interval
<1> QED
  BY <1>2, FS_Subset, FS_CardinalityType DEF Unsynced

(* A new file has nothing to lose. *)
LEMMA FreshWindow ==
    ASSUME AuditType', Resting', live' = NoFile, bytes_written' <= MaxRecords
    PROVE  WindowInv'
<1>1. live'.bin = <<>> /\ live'.sb = 0 /\ Len(live'.bin) = 0
  BY DEF NoFile
<1>2. Unsynced' = {}
  BY <1>1 DEF Unsynced
<1>3. Cardinality(Unsynced') = 0
  BY <1>2, FS_EmptySet
<1>4. bytes_written' \in Nat /\ pending_records' \in Nat
  BY DEF AuditType
<1>5. 0 <= bytes_written' /\ 0 <= pending_records' /\ 0 <= BatchSize - 1
  BY <1>4, LimitAssumption
<1>6. Settled'
  BY <1>1 DEF Settled
<1> QED
  BY <1>1, <1>2, <1>3, <1>5, <1>6 DEF WindowInv

(* One record is appended for an envelope that is not in the file yet. *)
LEMMA UnsyncedAppend ==
    ASSUME AuditType, Settled, live.sb <= Len(live.bin),
           NEW env \in Env, outcome[env] \in {"idle", "waiting"},
           NEW x \in {env, Torn}, live'.bin = Append(live.bin, x), live'.sb = live.sb,
           NEW o \in Outcomes \ {"idle", "waiting"}, outcome' = [outcome EXCEPT ![env] = o]
    PROVE  /\ Unsynced' = Unsynced \union (IF x = env /\ o = "spooled" THEN {Len(live.bin) + 1} ELSE {})
           /\ Len(live.bin) + 1 \notin Unsynced
           /\ Settled' /\ live'.sb <= Len(live'.bin)
<1> DEFINE n == Len(live.bin)
           b == live.bin
           c == live'.bin
           sb == live.sb
<1>1. live.bin \in Seq(Recs) /\ n \in Nat /\ sb \in Nat /\ x \in Recs /\ outcome \in [Env -> Outcomes]
  BY DEF AuditType, Files, Recs
<1>2. Len(c) = n + 1 /\ c[n + 1] = x /\ \A i \in 1..n : c[i] = b[i]
  BY <1>1
<1>3. \A e \in Env : outcome'[e] = IF e = env THEN o ELSE outcome[e]
  BY <1>1
<1>4. \A i \in 1..n : b[i] # env
  BY DEF Settled
<1>5. sb <= n
  OBVIOUS
<1>60. Unsynced = {i \in (sb + 1)..n : b[i] \in Env /\ outcome[b[i]] = "spooled"}
  BY DEF Unsynced
<1>61. Unsynced' = {i \in (sb + 1)..Len(c) : c[i] \in Env /\ outcome'[c[i]] = "spooled"}
  BY DEF Unsynced
<1>62. \A i \in 1..n : b[i] \in Env => outcome[b[i]] \notin {"idle", "waiting"}
  BY DEF Settled
<1>63. Settled' <=> \A i \in 1..Len(c) : c[i] \in Env => outcome'[c[i]] \notin {"idle", "waiting"}
  BY DEF Settled
<1>64. Torn \notin Env
  BY TornAssumption
<1>65. live'.sb <= Len(c) <=> sb <= Len(c)
  OBVIOUS
<1>66. n \in Nat /\ sb \in Nat
  BY <1>1
<1> HIDE DEF n, b, c, sb
<1>6. /\ \A i \in (sb + 1)..(n + 1) : i \in (sb + 1)..n \/ i = n + 1
      /\ \A i \in (sb + 1)..n : i \in (sb + 1)..(n + 1) /\ i \in 1..n
      /\ n + 1 \in (sb + 1)..(n + 1) /\ n + 1 \notin (sb + 1)..n
      /\ \A i \in 1..(n + 1) : i \in 1..n \/ i = n + 1
      /\ sb <= n + 1
  BY ONLY <1>5, <1>66
<1>7. Unsynced' = Unsynced \union (IF x = env /\ o = "spooled" THEN {n + 1} ELSE {})
  <2>1. ASSUME NEW i \in 1..n PROVE (c[i] \in Env /\ outcome'[c[i]] = "spooled") <=> (b[i] \in Env /\ outcome[b[i]] = "spooled")
    BY <1>2, <1>3, <1>4
  <2>2. (c[n + 1] \in Env /\ outcome'[c[n + 1]] = "spooled") <=> (x = env /\ o = "spooled")
    BY <1>2, <1>3, <1>64
  <2>3. ASSUME NEW i \in Unsynced' PROVE i \in Unsynced \union (IF x = env /\ o = "spooled" THEN {n + 1} ELSE {})
    <3>1. i \in (sb + 1)..(n + 1) /\ c[i] \in Env /\ outcome'[c[i]] = "spooled"
      BY <1>2, <1>61, <2>3
    <3>2. CASE i = n + 1
      BY <2>2, <3>1, <3>2
    <3>3. CASE i \in (sb + 1)..n
      <4>1. i \in 1..n
        BY <1>6, <3>3
      <4> QED
        BY <1>60, <2>1, <3>1, <3>3, <4>1
    <3> QED
      BY <1>6, <3>1, <3>2, <3>3
  <2>4. ASSUME NEW i \in Unsynced PROVE i \in Unsynced'
    <3>1. i \in (sb + 1)..n /\ b[i] \in Env /\ outcome[b[i]] = "spooled"
      BY <1>60, <2>4
    <3>2. i \in 1..n /\ i \in (sb + 1)..(n + 1)
      BY <1>6, <3>1
    <3> QED
      BY <1>2, <1>61, <2>1, <3>1, <3>2
  <2>5. x = env /\ o = "spooled" => n + 1 \in Unsynced'
    BY <1>2, <1>6, <1>61, <2>2
  <2> QED
    BY <2>3, <2>4, <2>5
<1>8. n + 1 \notin Unsynced
  BY <1>6, <1>60
<1>9. Settled'
  <2>1. ASSUME NEW i \in 1..Len(c), c[i] \in Env PROVE outcome'[c[i]] \notin {"idle", "waiting"}
    <3>1. i \in 1..n \/ i = n + 1
      BY <1>2, <1>6
    <3> QED
      BY <1>2, <1>3, <1>4, <1>62, <1>64, <2>1, <3>1
  <2> QED
    BY <1>63, <2>1
<1> QED
  BY <1>2, <1>6, <1>65, <1>7, <1>8, <1>9 DEF n, c

(* A step that leaves the file, its counters and the settled envelopes. *)
LEMMA WindowFrame ==
    ASSUME WindowInv, AuditType', Resting', UNCHANGED <<live, policy, bytes_written, pending_records>>,
           \A env \in Env : outcome[env] \notin {"idle", "waiting"} => outcome'[env] = outcome[env]
    PROVE  WindowInv'
<1>1. Settled
  BY DEF WindowInv
<1>2. ASSUME NEW i \in 1..Len(live.bin), live.bin[i] \in Env PROVE outcome'[live.bin[i]] = outcome[live.bin[i]]
  BY <1>1, <1>2 DEF Settled
<1>3. Settled'
  BY <1>1, <1>2 DEF Settled
<1>4. \A i \in (live.sb + 1)..Len(live.bin) : i \in 1..Len(live.bin)
  <2>1. live.sb \in Nat /\ Len(live.bin) \in Nat
    BY DEF WindowInv, AuditType, Files
  <2> QED
    BY ONLY <2>1
<1>5. Unsynced' = Unsynced
  BY <1>2, <1>4 DEF Unsynced
<1> QED
  BY <1>3, <1>5 DEF WindowInv

LEMMA WindowStep ==
    ASSUME WindowInv, [Next]_vars
    PROVE  WindowInv'
<1>0. /\ AuditType /\ Resting /\ Settled /\ AuditType' /\ Resting' /\ live.sb <= Len(live.bin)
      /\ bytes_written \in Nat /\ pending_records \in Nat /\ bytes_written <= MaxRecords
      /\ live \in Files /\ outcome \in [Env -> Outcomes]
  BY TypeStep DEF WindowInv, AuditType
<1>1. CASE Open
  <2>1. live' = NoFile /\ bytes_written' = 0 /\ 0 <= MaxRecords
    BY <1>1, LimitAssumption DEF Open
  <2> QED
    BY <1>0, <2>1, FreshWindow
<1>2. CASE RecoverRecord \/ RemoveFile \/ RecoverFails \/ (\E sidecar \in BOOLEAN : RemoveFails(sidecar))
           \/ Recv \/ Deliver \/ Check \/ Drain \/ Exit \/ StoreFlag \/ TakeSender \/ Timeout
           \/ CloseSpool \/ UNCHANGED vars
  <2>1. UNCHANGED <<live, policy, bytes_written, pending_records, outcome>>
    BY <1>2 DEF RecoverRecord, RemoveFile, RecoverFails, RemoveFails, Recv, Deliver, Check,
                Drain, Exit, StoreFlag, TakeSender, Timeout, CloseSpool, shutdownRest, vars, diskVars, writerVars
  <2> QED
    BY <1>0, <2>1, WindowFrame
<1>3. CASE \E env \in Env : TrySend(env)
  <2>1. PICK env \in Env : TrySend(env)
    BY <1>3
  <2>2. UNCHANGED <<live, policy, bytes_written, pending_records>>
    BY <2>1 DEF TrySend, diskVars, writerVars
  <2>3. \A e \in Env : outcome[e] \notin {"idle", "waiting"} => outcome'[e] = outcome[e]
    BY <1>0, <2>1 DEF TrySend
  <2> QED
    BY <1>0, <2>2, <2>3, WindowFrame
<1>4. CASE \E env \in Env : GiveUp(env)
  <2>1. PICK env \in Env : GiveUp(env)
    BY <1>4
  <2>2. outcome[env] = "waiting" /\ UNCHANGED policy
    BY <2>1 DEF GiveUp
  <2>3. IsFiniteSet(Unsynced) /\ Cardinality(Unsynced) \in Nat
    BY <1>0, UnsyncedFinite
  <2>4. CASE AppendOk(env) /\ ShouldFsync
    <3> DEFINE n == Len(live.bin)
    <3>1. /\ live'.bin = Append(live.bin, env) /\ live'.sb = n + 1
          /\ outcome' = [outcome EXCEPT ![env] = "spooled"]
          /\ bytes_written' = bytes_written + 1 /\ pending_records' = 0 /\ ~Refuses
      BY <2>4 DEF AppendOk
    <3>2. live.bin \in Seq(Recs) /\ env \in Recs /\ n \in Nat
      BY <1>0 DEF Files, Recs
    <3>3. Len(live'.bin) = n + 1 /\ live'.bin[n + 1] = env /\ \A i \in 1..n : live'.bin[i] = live.bin[i]
      BY <3>1, <3>2
    <3>4. Settled'
      <4>1. \A i \in 1..(n + 1) : i \in 1..n \/ i = n + 1
        BY <3>2
      <4>2. \A e \in Env : outcome'[e] = IF e = env THEN "spooled" ELSE outcome[e]
        BY <1>0, <3>1
      <4> QED
        BY <1>0, <3>3, <4>1, <4>2 DEF Settled
    <3>5. Unsynced' = {}
      <4>1. (n + 1) + 1 > n + 1 /\ (n + 1 + 1)..(n + 1) = {}
        BY <3>2
      <4> QED
        BY <3>1, <3>3, <4>1 DEF Unsynced
    <3>6. Cardinality(Unsynced') = 0
      BY <3>5, FS_EmptySet
    <3>7. 0 <= bytes_written' /\ bytes_written' <= MaxRecords /\ 0 <= pending_records' /\ 0 <= BatchSize - 1
      BY <1>0, <3>1, LimitAssumption DEF Refuses
    <3>8. live'.sb <= Len(live'.bin)
      BY <3>1, <3>2, <3>3
    <3> QED
      BY <1>0, <3>4, <3>5, <3>6, <3>7, <3>8 DEF WindowInv
  <2>5. CASE AppendOk(env) /\ ~ShouldFsync
    <3>1. /\ live' = [live EXCEPT !.bin = Append(@, env), !.crc = Append(@, env)]
          /\ outcome' = [outcome EXCEPT ![env] = "spooled"]
          /\ bytes_written' = bytes_written + 1 /\ pending_records' = pending_records + 1 /\ ~Refuses
      BY <2>5 DEF AppendOk
    <3>2. live'.bin = Append(live.bin, env) /\ live'.sb = live.sb
      BY <1>0, <3>1 DEF Files
    <3>3. "spooled" \in Outcomes \ {"idle", "waiting"}
      BY DEF Outcomes
    <3>4. /\ Unsynced' = Unsynced \union {Len(live.bin) + 1} /\ Len(live.bin) + 1 \notin Unsynced
          /\ Settled' /\ live'.sb <= Len(live'.bin)
      BY <1>0, <2>2, <3>1, <3>2, <3>3, UnsyncedAppend
    <3>5. Cardinality(Unsynced') = Cardinality(Unsynced) + 1
      BY <2>3, <3>4, FS_AddElement
    <3>6. bytes_written' <= MaxRecords /\ Cardinality(Unsynced') <= bytes_written'
      <4>1. Cardinality(Unsynced) <= bytes_written
        BY DEF WindowInv
      <4> QED
        BY <1>0, <2>3, <3>1, <3>5, <4>1, LimitAssumption DEF Refuses
    <3>7. policy.fsync_mode # "per_record"
      BY <2>5 DEF ShouldFsync
    <3>8. ASSUME policy.fsync_mode = "per_batch"
          PROVE  Cardinality(Unsynced') <= pending_records' /\ Cardinality(Unsynced') <= BatchSize - 1
      <4>1. Cardinality(Unsynced) <= pending_records /\ ~(pending_records + 1 >= BatchSize)
        BY <2>5, <3>8 DEF WindowInv, ShouldFsync
      <4> QED
        BY <1>0, <2>3, <3>1, <3>5, <4>1, LimitAssumption
    <3> QED
      BY <1>0, <2>2, <3>4, <3>6, <3>7, <3>8 DEF WindowInv
  <2>6. ASSUME NEW f \in FailedWrites(env) \union {live}, SpoolFailure(env, f),
               bytes_written' \in {bytes_written, bytes_written + 1} /\ bytes_written' <= MaxRecords,
               pending_records' \in {pending_records, pending_records + 1}
        PROVE  WindowInv'
    <3>1. /\ f \in Files /\ f.sb = live.sb
          /\ f.bin = live.bin \/ f.bin = Append(live.bin, env) \/ f.bin = Append(live.bin, Torn)
      BY <1>0, <2>6, WritesTyped
    <3>2. CASE policy.on_failure # "abort"
      <4>1. /\ live' = f
            /\ \E o \in {"panicked", "dropped"} : outcome' = [outcome EXCEPT ![env] = o]
        BY <2>6, <3>2 DEF SpoolFailure
      <4>2. PICK o \in {"panicked", "dropped"} : outcome' = [outcome EXCEPT ![env] = o]
        BY <4>1
      <4>3. o \in Outcomes \ {"idle", "waiting"} /\ o # "spooled"
        BY DEF Outcomes
      <4>4. Unsynced' = Unsynced /\ Settled' /\ live'.sb <= Len(live'.bin)
        <5>1. CASE f.bin = live.bin
          <6>1. live'.bin = live.bin /\ live'.sb = live.sb
            BY <3>1, <4>1, <5>1
          <6>2. \A e \in Env : outcome'[e] = IF e = env THEN o ELSE outcome[e]
            BY <1>0, <4>2
          <6>3. \A i \in 1..Len(live.bin) : live.bin[i] \in Env => outcome'[live.bin[i]] = outcome[live.bin[i]]
            BY <1>0, <2>2, <6>2 DEF Settled
          <6>4. Settled'
            BY <1>0, <6>1, <6>3 DEF Settled
          <6>5. \A i \in (live.sb + 1)..Len(live.bin) : i \in 1..Len(live.bin)
            <7>1. live.sb \in Nat /\ Len(live.bin) \in Nat
              BY <1>0 DEF Files
            <7> QED
              BY ONLY <7>1
          <6>6. Unsynced' = Unsynced
            BY <6>1, <6>3, <6>5 DEF Unsynced
          <6> QED
            BY <1>0, <6>1, <6>4, <6>6
        <5>2. CASE \E x \in {env, Torn} : f.bin = Append(live.bin, x)
          BY <1>0, <2>2, <3>1, <4>1, <4>2, <4>3, <5>2, UnsyncedAppend
        <5> QED
          BY <3>1, <5>1, <5>2
      <4>5. Cardinality(Unsynced') <= bytes_written'
        <5>1. Cardinality(Unsynced) <= bytes_written
          BY DEF WindowInv
        <5> QED
          BY <1>0, <2>3, <2>6, <4>4, <5>1
      <4>6. ASSUME policy.fsync_mode = "per_batch"
            PROVE  Cardinality(Unsynced') <= pending_records' /\ Cardinality(Unsynced') <= BatchSize - 1
        <5>1. Cardinality(Unsynced) <= pending_records /\ Cardinality(Unsynced) <= BatchSize - 1
          BY <4>6 DEF WindowInv
        <5> QED
          BY <1>0, <2>3, <2>6, <4>4, <5>1
      <4>7. policy.fsync_mode = "per_record" => Unsynced' = {}
        BY <4>4 DEF WindowInv
      <4> QED
        BY <1>0, <2>2, <2>6, <4>4, <4>5, <4>6, <4>7 DEF WindowInv
    <3>3. CASE policy.on_failure = "abort"
      <4>1. live' = NoFile
        BY <2>6, <3>3 DEF SpoolFailure, Gone
      <4> QED
        BY <1>0, <2>6, <4>1, FreshWindow
    <3> QED
      BY <3>2, <3>3
  <2>7. CASE Refuses /\ SpoolFailure(env, live) /\ UNCHANGED <<faults, writerVars>>
    BY <1>0, <2>6, <2>7 DEF writerVars
  <2>8. CASE /\ ~Refuses
             /\ \E f \in FailedWrites(env) :
                  /\ SpoolFailure(env, f)
                  /\ IF Len(f.crc) > Len(live.crc) /\ Last(f.crc) # Torn
                       THEN bytes_written' = bytes_written + 1
                            /\ pending_records' = pending_records + 1
                       ELSE UNCHANGED writerVars
    <3>1. bytes_written + 1 <= MaxRecords
      BY <1>0, <2>8, LimitAssumption DEF Refuses
    <3> QED
      BY <1>0, <2>6, <2>8, <3>1 DEF writerVars
  <2> QED
    BY <2>1, <2>4, <2>5, <2>7, <2>8 DEF GiveUp
<1>5. CASE Kill \/ HostCrash
  <2>1. live' = NoFile /\ bytes_written' = bytes_written
    BY <1>5 DEF Kill, HostCrash, Gone, writerVars
  <2> QED
    BY <1>0, <2>1, FreshWindow
<1> QED
  BY <1>1, <1>2, <1>3, <1>4, <1>5 DEF Next

(* audit.fsync_mode bounds what a host crash can take: nothing that was    *)
(* acknowledged with per_record, less than FSYNC_BATCH_SIZE records with   *)
(* per_batch, even after failed writes and failed syncs.                   *)
THEOREM CrashWindow == Spec => []SyncWindow
<1>1. Init => WindowInv
  <2>1. ASSUME Init PROVE WindowInv
    <3>1. AuditType /\ Resting
      BY <2>1, AuditInit DEF AuditInv
    <3>2. live.bin = <<>> /\ live.sb = 0 /\ Len(live.bin) = 0
      BY <2>1 DEF Init, NoFile
    <3>3. Unsynced = {} /\ Settled
      BY <3>2 DEF Unsynced, Settled
    <3>4. Cardinality(Unsynced) = 0
      BY <3>3, FS_EmptySet
    <3>5. 0 <= BatchSize - 1 /\ 0 <= MaxRecords
      BY LimitAssumption
    <3> QED
      BY <2>1, <3>1, <3>2, <3>3, <3>4, <3>5 DEF Init, WindowInv
  <2> QED
    BY <2>1
<1>2. WindowInv => SyncWindow
  <2>1. ASSUME WindowInv PROVE SyncWindow
    <3>1. Cardinality(Unsynced) \in Nat /\ bytes_written \in Nat /\ MaxRecords \in Nat
      BY <2>1, UnsyncedFinite, LimitAssumption DEF WindowInv, AuditType
    <3>2. Cardinality(Unsynced) <= MaxRecords
      BY <2>1, <3>1 DEF WindowInv
    <3>3. policy.fsync_mode = "per_record" => Cardinality(Unsynced) <= 0
      BY <2>1, FS_EmptySet DEF WindowInv
    <3> QED
      BY <2>1, <3>2, <3>3 DEF SyncWindow, WindowInv, Unsynced
  <2> QED
    BY <2>1
<1> QED
  BY <1>1, <1>2, WindowStep, PTL DEF Spec

-------------------------------------------------------------------------------
(* How often an envelope reaches the sink.                                 *)

Times(s, env) == Cardinality({i \in DOMAIN s : s[i] = env})

(* The files of the directory, the live one behind them. *)
Bin(k) == IF k <= Len(dir) THEN dir[k].bin ELSE live.bin

Lies(k, i, env) == k \in 1..(Len(dir) + 1) /\ i \in 1..Len(Bin(k)) /\ Bin(k)[i] = env

(* Recovery has passed this record on already. *)
Read(k, i) == phase = "recover" /\ k = at /\ i < pos

(* An envelope is written at most once; one that dispatch_audit has not    *)
(* placed yet is nowhere; a record recovery will read again leaves room    *)
(* for one more copy.                                                      *)
WrittenOnce ==
    \A env \in Env : \A k, i, l, j \in Nat : Lies(k, i, env) /\ Lies(l, j, env) => k = l /\ i = j
Unplaced(env) == outcome[env] \in {"idle", "waiting"}
NowhereYet ==
    \A env \in Env : Unplaced(env) => Copies(env) = 0 /\ \A k, i \in Nat : ~Lies(k, i, env)
RoomLeft ==
    \A env \in Env :
        /\ Copies(env) <= 1 + redone
        /\ \A k, i \in Nat : Lies(k, i, env) /\ ~Read(k, i) => Copies(env) <= redone

CopyInv ==
    /\ AuditType /\ Resting /\ redone \in Nat
    /\ WrittenOnce /\ NowhereYet /\ RoomLeft

LEMMA TimesFinite ==
    ASSUME NEW S, NEW s, s \in Seq(S), NEW e
    PROVE  IsFiniteSet({i \in DOMAIN s : s[i] = e}) /\ Times(s, e) \in Nat
<1>1. Len(s) \in Nat /\ DOMAIN s = 1..Len(s)
  OBVIOUS
<1>2. IsFiniteSet(1..Len(s)) /\ {i \in DOMAIN s : s[i] = e} \subseteq 1..Len(s)
  BY <1>1, FS_Interval
<1> QED
  BY <1>2, FS_Subset, FS_CardinalityType DEF Times

LEMMA TimesAppend ==
    ASSUME NEW S, NEW s, s \in Seq(S), NEW x \in S, NEW e
    PROVE  Times(Append(s, x), e) = IF x = e THEN Times(s, e) + 1 ELSE Times(s, e)
<1> DEFINE n == Len(s)
           t == Append(s, x)
           A == {i \in DOMAIN s : s[i] = e}
           B == {i \in DOMAIN t : t[i] = e}
<1>1. n \in Nat /\ DOMAIN s = 1..n
  OBVIOUS
<1>2. t \in Seq(S) /\ Len(t) = n + 1 /\ t[n + 1] = x /\ (\A i \in 1..n : t[i] = s[i])
      /\ \A i \in 1..(n + 1) : i = n + 1 \/ i \in 1..n
  BY AppendIs
<1>3. DOMAIN t = 1..(n + 1)
  BY <1>2
<1>4. IsFiniteSet(A)
  BY TimesFinite
<1> HIDE DEF n, t
<1>5. n + 1 \notin 1..n /\ n + 1 \in 1..(n + 1) /\ \A i \in 1..n : i \in 1..(n + 1)
  BY ONLY <1>1
<1>6. B = IF x = e THEN A \union {n + 1} ELSE A
  BY <1>1, <1>2, <1>3, <1>5
<1>7. n + 1 \notin A
  BY <1>1, <1>5
<1>8. Cardinality(B) = IF x = e THEN Cardinality(A) + 1 ELSE Cardinality(A)
  <2> HIDE DEF A, B
  <2> QED
    BY <1>4, <1>6, <1>7, FS_AddElement
<1> QED
  BY <1>8 DEF Times, t

LEMMA TimesTail ==
    ASSUME NEW S, NEW s, s \in Seq(S), s # <<>>, NEW e
    PROVE  Times(s, e) = IF Head(s) = e THEN Times(Tail(s), e) + 1 ELSE Times(Tail(s), e)
<1> DEFINE n == Len(s)
           t == Tail(s)
           A == {i \in DOMAIN s : s[i] = e}
           B == {i \in DOMAIN t : t[i] = e}
           C == A \ {1}
           f == [i \in B |-> i + 1]
<1>1. n \in Nat /\ DOMAIN s = 1..n
  OBVIOUS
<1>2. t \in Seq(S) /\ Len(t) = n - 1 /\ Head(s) = s[1] /\ 1 \in 1..n
      /\ \A i \in 1..(n - 1) : t[i] = s[i + 1] /\ i + 1 \in 1..n
  BY TailIs
<1>3. DOMAIN t = 1..(n - 1)
  BY <1>2
<1>4. IsFiniteSet(A)
  BY TimesFinite
<1> HIDE DEF n, t
<1>40. IsFiniteSet(B)
  <2>1. t \in Seq(S)
    BY <1>2
  <2> QED
    BY ONLY <2>1, TimesFinite DEF B
<1>5. \A i \in 1..n : i = 1 \/ (i - 1 \in 1..(n - 1) /\ i = (i - 1) + 1)
  BY <1>1, IntervalTail
<1>6. \A i \in 1..(n - 1) : i + 1 # 1 /\ \A j \in 1..(n - 1) : i + 1 = j + 1 => i = j
  BY ONLY <1>1
<1>7. B \subseteq 1..(n - 1) /\ \A i \in B : t[i] = e
  BY <1>3
<1>8. f \in [B -> C]
  <2>1. \A i \in B : i + 1 \in 1..n /\ s[i + 1] = e /\ i + 1 # 1
    BY <1>2, <1>6, <1>7
  <2>2. \A i \in B : i + 1 \in C
    BY <1>1, <2>1
  <2> HIDE DEF B, C
  <2> QED
    BY <2>2
<1>9. \A i, j \in B : f[i] = f[j] => i = j
  BY <1>6, <1>7
<1>10. \A c \in C : \E i \in B : f[i] = c
  <2>1. SUFFICES ASSUME NEW c \in C PROVE \E i \in B : f[i] = c
    OBVIOUS
  <2>2. c \in 1..n /\ s[c] = e /\ c # 1
    BY <1>1
  <2>3. c - 1 \in 1..(n - 1) /\ c = (c - 1) + 1
    BY <1>5, <2>2
  <2>4. c - 1 \in B
    BY <1>2, <1>3, <2>2, <2>3
  <2> QED
    BY <2>3, <2>4
<1> HIDE DEF f, B, C
<1>11. f \in Bijection(B, C)
  BY <1>8, <1>9, <1>10 DEF Bijection, Injection, Surjection, IsInjective
<1>12. Cardinality(C) = Cardinality(B)
  BY <1>11, <1>40, FS_Bijection DEF ExistsBijection
<1>13. Cardinality(C) = IF 1 \in A THEN Cardinality(A) - 1 ELSE Cardinality(A)
  BY <1>4, FS_RemoveElement DEF C
<1>14. 1 \in A <=> Head(s) = e
  BY <1>1, <1>2
<1>15. Cardinality(A) \in Nat
  BY <1>4, FS_CardinalityType
<1> HIDE DEF A
<1>16. Cardinality(A) = IF Head(s) = e THEN Cardinality(B) + 1 ELSE Cardinality(B)
  BY <1>12, <1>13, <1>14, <1>15
<1> QED
  BY <1>16 DEF Times, t, A, B

LEMMA CopiesAre ==
    ASSUME AuditType, NEW env \in Env
    PROVE  /\ Copies(env) = Times(delivered, env) + Times(queue, env)
           /\ Times(delivered, env) \in Nat /\ Times(queue, env) \in Nat /\ Copies(env) \in Nat
<1>1. delivered \in Seq(Env) /\ queue \in Seq(Env)
  BY DEF AuditType
<1>2. Times(delivered, env) \in Nat /\ Times(queue, env) \in Nat
  BY <1>1, TimesFinite
<1>3. Copies(env) = Times(delivered, env) + Times(queue, env)
  BY DEF Copies, Times
<1> QED
  BY <1>2, <1>3

LEMMA TimesEmpty == \A e : Times(<<>>, e) = 0
<1>1. SUFFICES ASSUME NEW e PROVE Times(<<>>, e) = 0
  OBVIOUS
<1>2. {i \in DOMAIN <<>> : <<>>[i] = e} = {}
  OBVIOUS
<1> QED
  BY <1>2, FS_EmptySet DEF Times
LEMMA CopiesEffect ==
    ASSUME AuditType, AuditType', NEW env \in Env
    PROVE  /\ UNCHANGED <<queue, delivered>> => Copies(env)' = Copies(env)
           /\ queue' = <<>> /\ delivered' = delivered => Copies(env)' <= Copies(env)
           /\ \A x \in Env : queue' = Append(queue, x) /\ delivered' = delivered
                 => Copies(env)' = IF x = env THEN Copies(env) + 1 ELSE Copies(env)
           /\ queue # <<>> /\ queue' = Tail(queue) /\ delivered' = Append(delivered, Head(queue))
                 => Copies(env)' = Copies(env)
           /\ queue # <<>> /\ queue' = Tail(queue) /\ delivered' = delivered => Copies(env)' <= Copies(env)
           /\ Copies(env) \in Nat /\ Copies(env)' \in Nat
<1> DEFINE d == Times(delivered, env)
           q == Times(queue, env)
           d1 == Times(delivered', env)
           q1 == Times(queue', env)
<1>1. delivered \in Seq(Env) /\ queue \in Seq(Env) /\ delivered' \in Seq(Env) /\ queue' \in Seq(Env)
  BY DEF AuditType
<1>2. d \in Nat /\ q \in Nat /\ d1 \in Nat /\ q1 \in Nat
  BY <1>1, TimesFinite
<1>3. Copies(env) = d + q /\ Copies(env)' = d1 + q1
  BY DEF Copies, Times
<1>4. queue' = <<>> => q1 = 0
  BY TimesEmpty
<1>5. \A x \in Env : queue' = Append(queue, x) => q1 = IF x = env THEN q + 1 ELSE q
  BY <1>1, TimesAppend
<1>6. ASSUME queue # <<>>, queue' = Tail(queue), delivered' = Append(delivered, Head(queue))
      PROVE  d1 + q1 = d + q
  <2>1. Head(queue) \in Env
    BY <1>1, <1>6, RangeOf
  <2>2. d1 = IF Head(queue) = env THEN d + 1 ELSE d
    BY <1>1, <1>6, <2>1, TimesAppend
  <2>3. q = IF Head(queue) = env THEN q1 + 1 ELSE q1
    BY <1>1, <1>6, TimesTail
  <2> HIDE DEF d, q, d1, q1
  <2> QED
    BY ONLY <1>2, <2>2, <2>3
<1>61. queue # <<>> /\ queue' = Tail(queue) => q1 <= q
  <2> SUFFICES ASSUME queue # <<>>, queue' = Tail(queue) PROVE q1 <= q
    OBVIOUS
  <2>1. q = IF Head(queue) = env THEN q1 + 1 ELSE q1
    BY <1>1, TimesTail
  <2> HIDE DEF q, q1
  <2> QED
    BY <1>2, <2>1
<1>7. (queue' = queue => q1 = q) /\ (delivered' = delivered => d1 = d)
  OBVIOUS
<1> HIDE DEF d, q, d1, q1
<1>8. UNCHANGED <<queue, delivered>> => Copies(env)' = Copies(env)
  BY <1>3, <1>7
<1>9. queue' = <<>> /\ delivered' = delivered => Copies(env)' <= Copies(env)
  BY <1>2, <1>3, <1>4, <1>7
<1>10. \A x \in Env : queue' = Append(queue, x) /\ delivered' = delivered
                 => Copies(env)' = IF x = env THEN Copies(env) + 1 ELSE Copies(env)
  BY <1>2, <1>3, <1>5, <1>7
<1>11. queue # <<>> /\ queue' = Tail(queue) /\ delivered' = Append(delivered, Head(queue))
                 => Copies(env)' = Copies(env)
  BY <1>3, <1>6
<1>111. queue # <<>> /\ queue' = Tail(queue) /\ delivered' = delivered => Copies(env)' <= Copies(env)
  BY <1>2, <1>3, <1>61, <1>7
<1>12. Copies(env) \in Nat /\ Copies(env)' \in Nat
  BY <1>2, <1>3
<1> QED
  BY <1>8, <1>9, <1>10, <1>11, <1>111, <1>12

(* Where the step has put the records it kept, and the one it may have     *)
(* written.                                                                *)
Moved(g, x, kx, ix) ==
    \A env \in Env : \A k, i \in Nat : Lies(k, i, env)' =>
        \/ /\ Lies(g[k], i, env)
           /\ Read(g[k], i) => Read(k, i)' \/ redone < redone'
        \/ env = x /\ k = kx /\ i = ix /\ Unplaced(env) /\ ~Unplaced(env)'

(* A step that adds no copy, and moves every record to a place of its own, *)
(* except perhaps one that writes an envelope dispatch_audit was waiting   *)
(* with.                                                                   *)
LEMMA CopyKept ==
    ASSUME CopyInv, AuditType', Resting', redone' \in Nat, redone <= redone',
           NEW g \in [Nat -> Nat], \A k, l \in Nat : g[k] = g[l] => k = l,
           NEW x, NEW kx, NEW ix,
           \A env \in Env : Copies(env)' <= Copies(env),
           \A env \in Env : Unplaced(env)' => Unplaced(env),
           Moved(g, x, kx, ix)
    PROVE  CopyInv'
<1>00. \A env \in Env : \A k, i \in Nat : Lies(k, i, env)' =>
        \/ /\ Lies(g[k], i, env)
           /\ Read(g[k], i) => Read(k, i)' \/ redone < redone'
        \/ env = x /\ k = kx /\ i = ix /\ Unplaced(env) /\ ~Unplaced(env)'
  BY DEF Moved
<1>0. /\ AuditType /\ redone \in Nat /\ WrittenOnce /\ NowhereYet /\ RoomLeft
      /\ \A env \in Env : Copies(env) \in Nat /\ Copies(env)' \in Nat
  BY CopiesEffect DEF CopyInv
<1>1. WrittenOnce'
  <2> SUFFICES ASSUME NEW env \in Env, NEW k \in Nat, NEW i \in Nat, NEW l \in Nat, NEW j \in Nat,
                      Lies(k, i, env)', Lies(l, j, env)'
               PROVE  k = l /\ i = j
    BY DEF WrittenOnce
  <2>1. CASE Lies(g[k], i, env) /\ Lies(g[l], j, env)
    <3>1. g[k] \in Nat /\ g[l] \in Nat
      OBVIOUS
    <3>2. g[k] = g[l] /\ i = j
      BY <1>0, <2>1, <3>1 DEF WrittenOnce
    <3> QED
      BY <3>2
  <2>2. CASE ~(Lies(g[k], i, env) /\ Lies(g[l], j, env))
    <3>1. Unplaced(env)
      BY <1>00, <2>2
    <3>2. ~Lies(g[k], i, env) /\ ~Lies(g[l], j, env)
      BY <1>0, <3>1 DEF NowhereYet
    <3> QED
      BY <1>00, <3>2
  <2> QED
    BY <2>1, <2>2
<1>2. NowhereYet'
  <2> SUFFICES ASSUME NEW env \in Env, Unplaced(env)'
               PROVE  Copies(env)' = 0 /\ \A k, i \in Nat : ~Lies(k, i, env)'
    BY DEF NowhereYet
  <2>1. Unplaced(env) /\ Copies(env) = 0 /\ \A k, i \in Nat : ~Lies(k, i, env)
    BY <1>0 DEF NowhereYet
  <2>2. Copies(env)' = 0
    BY <1>0, <2>1
  <2>3. \A k \in Nat : g[k] \in Nat
    OBVIOUS
  <2> QED
    BY <1>00, <2>1, <2>2, <2>3
<1>3. RoomLeft'
  <2>1. ASSUME NEW env \in Env PROVE Copies(env)' <= 1 + redone'
    <3>1. Copies(env)' <= Copies(env) /\ Copies(env) <= 1 + redone
      BY <1>0 DEF RoomLeft
    <3> QED
      BY <1>0, <3>1
  <2>2. ASSUME NEW env \in Env, NEW k \in Nat, NEW i \in Nat, Lies(k, i, env)', ~Read(k, i)'
        PROVE  Copies(env)' <= redone'
    <3>0. Copies(env)' <= Copies(env) /\ Copies(env) <= 1 + redone /\ g[k] \in Nat
      BY <1>0 DEF RoomLeft
    <3>1. CASE Lies(g[k], i, env) /\ ~Read(g[k], i)
      <4>1. Copies(env) <= redone
        BY <1>0, <3>0, <3>1 DEF RoomLeft
      <4> QED
        BY <1>0, <3>0, <4>1
    <3>2. CASE redone < redone'
      BY <1>0, <3>0, <3>2
    <3>3. CASE Unplaced(env)
      <4>1. Copies(env) = 0
        BY <1>0, <3>3 DEF NowhereYet
      <4> QED
        BY <1>0, <3>0, <4>1
    <3> QED
      BY <1>00, <2>2, <3>1, <3>2, <3>3
  <2> QED
    BY <2>1, <2>2 DEF RoomLeft
<1> QED
  BY <1>1, <1>2, <1>3 DEF CopyInv

LEMMA SameBins ==
    ASSUME Len(dir') = Len(dir), \A k \in 1..Len(dir) : dir'[k].bin = dir[k].bin, live'.bin = live.bin,
           dir \in Seq(Files)
    PROVE  \A env \in Env : \A k, i \in Nat : Lies(k, i, env)' => Lies(k, i, env)
<1> SUFFICES ASSUME NEW env \in Env, NEW k \in Nat, NEW i \in Nat, Lies(k, i, env)'
             PROVE  Lies(k, i, env)
  OBVIOUS
<1>1. k \in 1..(Len(dir) + 1) /\ (k <= Len(dir) => k \in 1..Len(dir))
  BY DEF Lies
<1>2. Bin(k)' = Bin(k)
  BY <1>1 DEF Bin
<1> QED
  BY <1>1, <1>2 DEF Lies

(* A step that leaves every record in its place. *)
LEMMA PlacesKept ==
    ASSUME CopyInv, AuditType', Resting', redone' \in Nat, redone <= redone',
           \A env \in Env : \A k, i \in Nat : Lies(k, i, env)' => Lies(k, i, env),
           \A env \in Env : \A k, i \in Nat :
               Lies(k, i, env) /\ Read(k, i) => Read(k, i)' \/ redone < redone',
           \A env \in Env : Copies(env)' <= Copies(env),
           \A env \in Env : Unplaced(env)' => Unplaced(env)
    PROVE  CopyInv'
<1> DEFINE g == [k \in Nat |-> k]
<1>1. g \in [Nat -> Nat] /\ (\A k, l \in Nat : g[k] = g[l] => k = l) /\ \A k \in Nat : g[k] = k
  OBVIOUS
<1> HIDE DEF g
<1>2. Moved(g, 0, 0, 0)
  BY <1>1 DEF Moved
<1> QED
  BY <1>1, <1>2, CopyKept

LEMMA ReadIsShort ==
    ASSUME CopyInv, NEW env \in Env, NEW k \in Nat, NEW i \in Nat, Lies(k, i, env), Read(k, i)
    PROVE  phase = "recover" /\ at <= Len(dir) /\ pos > 1
<1>0. Resting /\ pos \in Nat
  BY DEF CopyInv, AuditType
<1>1. phase = "recover" /\ k = at /\ i < pos
  BY DEF Read
<1>2. live.bin = <<>>
  BY <1>0, <1>1 DEF Resting, NoFile
<1>3. at <= Len(dir)
  BY <1>1, <1>2 DEF Lies, Bin
<1>4. 1 <= i
  BY DEF Lies
<1> QED
  BY <1>0, <1>1, <1>3, <1>4

(* The open file a process leaves: what was in it, up to some record, and  *)
(* what an append() in progress wrote.                                     *)
Left(f, env) ==
    \A i \in 1..Len(f.bin) :
        \/ i \in 1..Len(live.bin) /\ f.bin[i] = live.bin[i]
        \/ i = Len(live.bin) + 1 /\ f.bin[i] \in {env, Torn}

LEMMA WritesLeft ==
    ASSUME AuditType, NEW env \in Env, NEW f \in FailedWrites(env) \union {live}
    PROVE  Left(f, env)
<1>1. live.bin \in Seq(Recs) /\ env \in Recs /\ Torn \in Recs
  BY DEF AuditType, Files, Recs
<1>2. f.bin = live.bin \/ f.bin = Append(live.bin, env) \/ f.bin = Append(live.bin, Torn)
  BY WritesTyped
<1> DEFINE b == live.bin
<1> HIDE DEF b
<1>3. \A x \in Recs : /\ Len(Append(b, x)) = Len(b) + 1 /\ Append(b, x)[Len(b) + 1] = x
                      /\ \A i \in 1..Len(b) : Append(b, x)[i] = b[i]
                      /\ \A i \in 1..(Len(b) + 1) : i = Len(b) + 1 \/ i \in 1..Len(b)
  BY <1>1, AppendIs DEF b
<1> QED
  BY <1>1, <1>2, <1>3 DEF Left, b

LEMMA GoneCopies ==
    ASSUME CopyInv, AuditType', Resting', NEW f \in Files, Gone(f), UNCHANGED <<at, pos, delivered>>,
           NEW x, Left(f, x), x \in Env => outcome[x] = "waiting",
           \A e \in Env : outcome'[e] # "waiting" /\ (outcome'[e] = outcome[e] \/ outcome'[e] # "idle")
    PROVE  CopyInv'
<1>0. AuditType /\ Resting /\ redone \in Nat /\ dir \in Seq(Files) /\ at \in Nat \ {0} /\ pos \in Nat \ {0}
      /\ live.bin \in Seq(Recs) /\ f.bin \in Seq(Recs)
  BY DEF CopyInv, AuditType, Files
<1> DEFINE g == [k \in Nat |-> k]
<1>1. g \in [Nat -> Nat] /\ (\A k, l \in Nat : g[k] = g[l] => k = l) /\ \A k \in Nat : g[k] = k
  OBVIOUS
<1> HIDE DEF g
<1>2. \A env \in Env : Copies(env)' <= Copies(env)
  BY <1>0, CopiesEffect DEF Gone
<1>3. \A env \in Env : Unplaced(env)' => Unplaced(env) /\ outcome[env] = "idle"
  BY DEF Unplaced
<1>4. redone' \in Nat /\ redone <= redone' /\ (phase = "recover" /\ at <= Len(dir) /\ pos > 1 => redone < redone')
  BY <1>0 DEF Gone
<1>5. ASSUME NEW env \in Env, NEW k \in Nat, NEW i \in Nat, Lies(k, i, env)'
      PROVE  Lies(k, i, env) \/ (env = x /\ k = Len(dir) + 1 /\ i = Len(live.bin) + 1)
  <2>1. live'.bin = <<>>
    BY DEF Gone, NoFile
  <2>2. k <= Len(dir') /\ k \in 1..Len(dir') /\ i \in 1..Len(dir'[k].bin) /\ dir'[k].bin[i] = env
    <3>1. k <= Len(dir')
      BY <1>5, <2>1 DEF Lies, Bin
    <3>2. dir' \in Seq(Files)
      BY DEF AuditType
    <3>3. Len(dir') \in Nat
      BY <3>2
    <3> QED
      BY <1>5, <3>1, <3>3 DEF Lies, Bin
  <2>3. CASE k <= Len(dir)
    <3>1. k \in 1..(Len(dir) + 1) /\ k \in 1..Len(dir)
      BY <1>0, <2>2, <2>3
    <3>2. dir'[k] = dir[k]
      BY <1>0, <3>1, AppendIs DEF Gone
    <3> QED
      BY <2>2, <2>3, <3>1, <3>2 DEF Lies, Bin
  <2>4. CASE ~(k <= Len(dir))
    <3>1. linked /\ dir' = Append(dir, f)
      BY <2>2, <2>4 DEF Gone
    <3>2. k = Len(dir) + 1 /\ dir'[k] = f
      BY <1>0, <2>2, <2>4, <3>1, AppendIs
    <3>3. i \in 1..Len(f.bin) /\ f.bin[i] = env /\ env # Torn
      BY <2>2, <3>2, TornAssumption
    <3>4. \/ i \in 1..Len(live.bin) /\ f.bin[i] = live.bin[i]
          \/ i = Len(live.bin) + 1 /\ f.bin[i] = x
      BY <3>3 DEF Left
    <3>5. k \in 1..(Len(dir) + 1)
      BY <1>0, <3>2
    <3> QED
      BY <2>4, <3>2, <3>3, <3>4, <3>5 DEF Lies, Bin
  <2> QED
    BY <2>3, <2>4
<1>6. \A env \in Env : \A k, i \in Nat : Lies(k, i, env) /\ Read(k, i) => redone < redone'
  BY <1>4, ReadIsShort
<1>7. \A env \in Env : env = x => Unplaced(env) /\ ~Unplaced(env)'
  BY <1>3 DEF Unplaced
<1>8. PICK n0, m0 : n0 = Len(dir) + 1 /\ m0 = Len(live.bin) + 1
  OBVIOUS
<1>9. Moved(g, x, n0, m0)
  BY <1>1, <1>5, <1>6, <1>7, <1>8 DEF Moved
<1>10. \A env \in Env : Unplaced(env)' => Unplaced(env)
  BY <1>3
<1> QED
  BY <1>1, <1>2, <1>4, <1>9, <1>10, CopyKept

(* A record written to the open file, whole or torn, with its envelope     *)
(* placed. *)
LEMMA WriteCopies ==
    ASSUME CopyInv, AuditType', Resting', UNCHANGED <<phase, dir, at, pos, queue, delivered, redone>>,
           NEW x \in Env, Unplaced(x), ~Unplaced(x)', Left(live', x),
           \A env \in Env \ {x} : outcome'[env] = outcome[env]
    PROVE  CopyInv'
<1>0. AuditType /\ redone \in Nat /\ dir \in Seq(Files)
  BY DEF CopyInv, AuditType
<1> DEFINE g == [k \in Nat |-> k]
<1>1. g \in [Nat -> Nat] /\ (\A k, l \in Nat : g[k] = g[l] => k = l) /\ \A k \in Nat : g[k] = k
  OBVIOUS
<1> HIDE DEF g
<1>2. \A env \in Env : Copies(env)' <= Copies(env)
  BY <1>0, CopiesEffect
<1>3. \A env \in Env : Unplaced(env)' => Unplaced(env)
  BY DEF Unplaced
<1>4. PICK n0, m0 : n0 = Len(dir) + 1 /\ m0 = Len(live.bin) + 1
  OBVIOUS
<1>5. ASSUME NEW env \in Env, NEW k \in Nat, NEW i \in Nat, Lies(k, i, env)'
      PROVE  Lies(k, i, env) \/ (env = x /\ k = n0 /\ i = m0)
  <2>1. k \in 1..(Len(dir) + 1)
    BY <1>5 DEF Lies
  <2>2. CASE k <= Len(dir)
    BY <1>5, <2>1, <2>2 DEF Lies, Bin
  <2>3. CASE ~(k <= Len(dir))
    <3>1. k = Len(dir) + 1
      BY <1>0, <2>1, <2>3
    <3>2. i \in 1..Len(live'.bin) /\ live'.bin[i] = env /\ env # Torn
      BY <1>5, <2>3, TornAssumption DEF Lies, Bin
    <3>3. \/ i \in 1..Len(live.bin) /\ live'.bin[i] = live.bin[i]
          \/ i = Len(live.bin) + 1 /\ live'.bin[i] = x
      BY <3>2 DEF Left
    <3> QED
      BY <1>4, <2>1, <2>3, <3>1, <3>2, <3>3 DEF Lies, Bin
  <2> QED
    BY <2>2, <2>3
<1>6. \A k, i \in Nat : Read(k, i)' <=> Read(k, i)
  BY DEF Read
<1>7. Moved(g, x, n0, m0)
  BY <1>1, <1>5, <1>6 DEF Moved
<1> QED
  BY <1>0, <1>1, <1>2, <1>3, <1>7, CopyKept

(* A recovered record that enters the channel. *)
LEMMA RecoveredCopies ==
    ASSUME CopyInv, AuditType', Resting', UNCHANGED <<phase, dir, live, at, delivered, outcome, redone>>,
           phase = "recover", pos' = pos + 1, NEW x \in Env, Lies(at, pos, x), queue' = Append(queue, x)
    PROVE  CopyInv'
<1>0. /\ AuditType /\ redone \in Nat /\ WrittenOnce /\ NowhereYet /\ RoomLeft
      /\ at \in Nat /\ pos \in Nat
  BY DEF CopyInv, AuditType
<1>1. /\ Copies(x)' = Copies(x) + 1
      /\ \A env \in Env : env # x => Copies(env)' = Copies(env)
      /\ \A env \in Env : Copies(env) \in Nat
  BY <1>0, CopiesEffect
<1>2. \A env \in Env : \A k, i \in Nat : Lies(k, i, env)' <=> Lies(k, i, env)
  BY DEF Lies, Bin
<1>3. ~Read(at, pos) /\ Copies(x) <= redone
  <2>1. ~Read(at, pos)
    BY <1>0 DEF Read
  <2> QED
    BY <1>0, <2>1 DEF RoomLeft
<1>4. WrittenOnce'
  BY <1>0, <1>2 DEF WrittenOnce
<1>5. ~Unplaced(x)
  BY <1>0 DEF NowhereYet
<1>6. \A env \in Env : Unplaced(env)' <=> Unplaced(env)
  BY DEF Unplaced
<1>7. NowhereYet'
  BY <1>0, <1>1, <1>2, <1>5, <1>6 DEF NowhereYet
<1>8. ASSUME NEW env \in Env PROVE Copies(env)' <= 1 + redone
  <2>1. Copies(env) <= 1 + redone
    BY <1>0 DEF RoomLeft
  <2> QED
    BY <1>0, <1>1, <1>3, <2>1
<1>9. ASSUME NEW env \in Env, NEW k \in Nat, NEW i \in Nat, Lies(k, i, env), ~Read(k, i)'
      PROVE  Copies(env)' <= redone
  <2>1. ~Read(k, i)
    BY <1>0, <1>9 DEF Read
  <2>2. Copies(env) <= redone
    BY <1>0, <1>9, <2>1 DEF RoomLeft
  <2>3. CASE env = x
    <3>1. k = at /\ i = pos
      BY <1>0, <1>9, <2>3 DEF WrittenOnce
    <3>2. pos < pos + 1
      BY <1>0
    <3> QED
      BY <1>9, <3>1, <3>2 DEF Read
  <2> QED
    BY <1>1, <2>2, <2>3
<1>10. RoomLeft'
  BY <1>2, <1>8, <1>9 DEF RoomLeft
<1> QED
  BY <1>0, <1>4, <1>7, <1>10 DEF CopyInv

(* An envelope dispatch_audit puts on the channel. *)
LEMMA QueuedCopies ==
    ASSUME CopyInv, AuditType', Resting', UNCHANGED <<phase, dir, live, at, pos, delivered, redone>>,
           NEW x \in Env, Unplaced(x), ~Unplaced(x)', queue' = Append(queue, x),
           \A env \in Env \ {x} : outcome'[env] = outcome[env]
    PROVE  CopyInv'
<1>0. AuditType /\ redone \in Nat /\ WrittenOnce /\ NowhereYet /\ RoomLeft
  BY DEF CopyInv
<1>1. /\ Copies(x)' = Copies(x) + 1
      /\ \A env \in Env : env # x => Copies(env)' = Copies(env)
      /\ \A env \in Env : Copies(env) \in Nat
  BY <1>0, CopiesEffect
<1>2. /\ \A env \in Env : \A k, i \in Nat : Lies(k, i, env)' <=> Lies(k, i, env)
      /\ \A k, i \in Nat : Read(k, i)' <=> Read(k, i)
  BY DEF Lies, Bin, Read
<1>3. Copies(x) = 0 /\ \A k, i \in Nat : ~Lies(k, i, x)
  BY <1>0 DEF NowhereYet
<1>4. WrittenOnce'
  BY <1>0, <1>2 DEF WrittenOnce
<1>5. \A env \in Env : Unplaced(env)' => Unplaced(env) /\ env # x
  BY DEF Unplaced
<1>6. NowhereYet'
  BY <1>0, <1>1, <1>2, <1>5 DEF NowhereYet
<1>7. RoomLeft'
  <2>1. ASSUME NEW env \in Env PROVE Copies(env)' <= 1 + redone
    <3>1. Copies(env) <= 1 + redone
      BY <1>0 DEF RoomLeft
    <3> QED
      BY <1>0, <1>1, <1>3, <3>1
  <2>2. ASSUME NEW env \in Env, NEW k \in Nat, NEW i \in Nat, Lies(k, i, env), ~Read(k, i)
        PROVE  Copies(env)' <= redone
    <3>1. env # x
      BY <1>3, <2>2
    <3> QED
      BY <1>0, <1>1, <2>2, <3>1 DEF RoomLeft
  <2> QED
    BY <1>2, <2>1, <2>2 DEF RoomLeft
<1> QED
  BY <1>0, <1>4, <1>6, <1>7 DEF CopyInv

(* A file of the directory recovery has done with. *)
LEMMA RemovedCopies ==
    ASSUME CopyInv, AuditType', Resting', UNCHANGED <<live, at, queue, delivered, outcome, redone>>,
           at <= Len(dir), dir' = RemoveAt(dir, at), pos' = 1
    PROVE  CopyInv'
<1>0. AuditType /\ redone \in Nat /\ dir \in Seq(Files) /\ at \in Nat \ {0} /\ Len(dir) \in Nat
  BY DEF CopyInv, AuditType
<1>1. PICK a \in Nat \ {0} : a = at
  BY <1>0
<1> DEFINE g == [k \in Nat |-> IF k < a THEN k ELSE k + 1]
<1>2. g \in [Nat -> Nat] /\ \A k \in Nat : g[k] = IF k < a THEN k ELSE k + 1
  BY ONLY a \in Nat \ {0}
<1> HIDE DEF g
<1>3. /\ \A k, l \in Nat : g[k] = g[l] => k = l
      /\ \A k \in Nat : g[k] # a
  BY ONLY <1>2, a \in Nat \ {0}
<1>4. /\ Len(dir') = Len(dir) - 1
      /\ \A k \in 1..(Len(dir) - 1) : dir'[k] = dir[g[k]] /\ g[k] \in 1..Len(dir)
  <2>1. at \in 1..Len(dir)
    BY <1>0
  <2>2. /\ Len(dir') = Len(dir) - 1
        /\ \A k \in 1..(Len(dir) - 1) : dir'[k] = dir[IF k < at THEN k ELSE k + 1]
    BY <1>0, <2>1, RemoveAtKeeps
  <2>3. \A k \in 1..(Len(dir) - 1) : k \in Nat /\ g[k] \in 1..Len(dir)
    <3>1. PICK n \in Nat : n = Len(dir)
      BY <1>0
    <3>2. a <= n
      BY <1>1, <3>1
    <3>3. \A k \in 1..(n - 1) : k \in Nat /\ g[k] \in 1..n
      BY ONLY <1>2, <3>2, a \in Nat \ {0}, n \in Nat
    <3> QED
      BY <3>1, <3>3
  <2> QED
    BY <1>1, <1>2, <2>2, <2>3
<1>5. ASSUME NEW env \in Env, NEW k \in Nat, NEW i \in Nat, Lies(k, i, env)' PROVE Lies(g[k], i, env)
  <2>1. k \in 1..Len(dir)
    BY <1>0, <1>4, <1>5 DEF Lies
  <2>2. CASE k <= Len(dir) - 1
    <3>1. k \in 1..(Len(dir) - 1) /\ Bin(k)' = dir'[k].bin
      BY <1>0, <1>4, <2>1, <2>2 DEF Bin
    <3>2. Bin(k)' = Bin(g[k]) /\ g[k] \in 1..(Len(dir) + 1)
      BY <1>0, <1>4, <3>1 DEF Bin
    <3> QED
      BY <1>5, <3>2 DEF Lies
  <2>3. CASE ~(k <= Len(dir) - 1)
    <3>1. g[k] = Len(dir) + 1
      BY <1>0, <1>1, <1>2, <2>1, <2>3
    <3>2. Bin(k)' = live.bin /\ Bin(g[k]) = live.bin
      BY <1>0, <1>4, <2>3, <3>1 DEF Bin
    <3> QED
      BY <1>0, <1>5, <3>1, <3>2 DEF Lies
  <2> QED
    BY <2>2, <2>3
<1>6. \A k, i \in Nat : ~Read(g[k], i)
  BY <1>1, <1>3 DEF Read
<1>7. Moved(g, 0, 0, 0)
  BY <1>5, <1>6 DEF Moved
<1>8. \A env \in Env : Copies(env)' <= Copies(env)
  BY <1>0, CopiesEffect
<1>9. \A env \in Env : Unplaced(env)' => Unplaced(env)
  BY DEF Unplaced
<1>10. redone' \in Nat /\ redone <= redone'
  BY <1>0
<1>11. g \in [Nat -> Nat] /\ \A k, l \in Nat : g[k] = g[l] => k = l
  BY ONLY <1>2, <1>3
<1> QED
  BY <1>7, <1>8, <1>9, <1>10, <1>11, CopyKept

LEMMA CopyStep ==
    ASSUME CopyInv, [Next]_vars
    PROVE  CopyInv'
<1>0. /\ AuditType /\ Resting /\ AuditType' /\ Resting' /\ redone \in Nat
      /\ queue \in Seq(Env) /\ live \in Files /\ dir \in Seq(Files)
      /\ at \in Nat \ {0} /\ pos \in Nat \ {0} /\ outcome \in [Env -> Outcomes]
  BY TypeStep DEF CopyInv, AuditType
<1>00. live.bin \in Seq(Recs) /\ Torn \in Recs /\ Env \subseteq Recs
  BY <1>0 DEF Files, Recs
<1>a. ASSUME UNCHANGED <<dir, queue, delivered, outcome, redone>>, live' = live,
             \A k, i \in Nat : Read(k, i) => Read(k, i)'
      PROVE  CopyInv'
  <2>1. \A env \in Env : \A k, i \in Nat : Lies(k, i, env)' => Lies(k, i, env)
    BY <1>a DEF Lies, Bin
  <2>2. /\ \A env \in Env : Copies(env)' <= Copies(env)
        /\ \A env \in Env : Unplaced(env)' => Unplaced(env)
    BY <1>0, <1>a, CopiesEffect DEF Unplaced
  <2>3. redone' \in Nat /\ redone <= redone'
    BY <1>0, <1>a
  <2> QED
    BY <1>0, <1>a, <2>1, <2>2, <2>3, PlacesKept
<1>1. CASE Open
  <2>1. live' = live /\ UNCHANGED <<dir, queue, delivered, outcome, redone>> /\ phase = "down"
    BY <1>0, <1>1 DEF Open, Resting
  <2> QED
    BY <1>a, <2>1 DEF Read
<1>2. CASE RecoverRecord
  <2> DEFINE env == File.bin[pos]
  <2>1. live.bin = <<>>
    BY <1>0, <1>2 DEF RecoverRecord, NoFile, Resting
  <2>2. at <= Len(dir) /\ File = dir[at] /\ File \in Files
    BY <1>0, <1>2, <2>1 DEF RecoverRecord, File, Intact
  <2>3. /\ UNCHANGED <<phase, dir, live, at, delivered, outcome, redone>> /\ pos' = pos + 1
        /\ phase = "recover"
        /\ queue' = queue \/ queue' = Append(queue, env)
    BY <1>2 DEF RecoverRecord, diskVars
  <2>4. /\ env \in Recs /\ env # Torn /\ pos \in 1..Len(File.bin)
    <3>1. File.bin \in Seq(Recs)
      BY <2>2 DEF Files
    <3>2. pos \in DOMAIN File.bin /\ \A j \in 1..pos : File.bin[j] # Torn
      BY <1>2 DEF RecoverRecord, Intact
    <3>3. pos \in 1..pos
      BY <1>0
    <3> QED
      BY <3>1, <3>2, <3>3
  <2>5. env \in Env /\ Lies(at, pos, env)
    <3>1. at \in 1..(Len(dir) + 1)
      BY <1>0, <2>2
    <3> QED
      BY <2>2, <2>4, <3>1 DEF Recs, Lies, Bin
  <2> HIDE DEF env
  <2>6. CASE queue' = queue
    <3>1. \A k, i \in Nat : Read(k, i) => Read(k, i)'
      BY <1>0, <2>3 DEF Read
    <3> QED
      BY <1>a, <2>3, <2>6, <3>1
  <2>7. CASE queue' = Append(queue, env)
    <3>1. PICK x \in Env : x = env
      BY <2>5
    <3> QED
      BY <1>0, <2>3, <2>5, <2>7, <3>1, RecoveredCopies
  <2> QED
    BY <2>3, <2>6, <2>7
<1>3. CASE RemoveFile
  <2>1. UNCHANGED <<live, at, queue, delivered, outcome, redone>>
    BY <1>3 DEF RemoveFile
  <2>2. CASE at <= Len(dir)
    <3>1. dir' = RemoveAt(dir, at) /\ pos' = 1
      BY <1>3, <2>2 DEF RemoveFile
    <3> QED
      BY <1>0, <2>1, <2>2, <3>1, RemovedCopies
  <2>3. CASE ~(at <= Len(dir))
    <3>1. dir' = dir
      BY <1>3, <2>3 DEF RemoveFile
    <3>2. /\ \A e \in Env : Copies(e)' <= Copies(e)
          /\ \A e \in Env : Unplaced(e)' => Unplaced(e)
      BY <1>0, <2>1, CopiesEffect DEF Unplaced
    <3>3. \A e \in Env : \A k, i \in Nat : Lies(k, i, e)' => Lies(k, i, e)
      BY <2>1, <3>1 DEF Lies, Bin
    <3>4. \A e \in Env : \A k, i \in Nat : Lies(k, i, e) /\ Read(k, i) => FALSE
      BY <2>3, ReadIsShort
    <3>5. redone' \in Nat /\ redone <= redone'
      BY <1>0, <2>1
    <3> QED
      BY <1>0, <3>2, <3>3, <3>4, <3>5, PlacesKept
  <2> QED
    BY <2>2, <2>3
<1>4. CASE (\E sidecar \in BOOLEAN : RemoveFails(sidecar)) \/ RecoverFails
  <2>1. UNCHANGED <<live, queue, delivered, outcome>>
    BY <1>4 DEF RemoveFails, RecoverFails, diskVars
  <2>2. Len(dir') = Len(dir) /\ \A i \in 1..Len(dir) : dir'[i].bin = dir[i].bin
    <3>1. CASE dir' = dir
      BY <3>1
    <3>2. CASE dir' # dir
      <4>1. /\ at <= Len(dir) /\ dir' = [dir EXCEPT ![at].crc = <<>>]
        BY <1>4, <3>2 DEF RemoveFails, RecoverFails, diskVars
      <4>2. at \in 1..Len(dir) /\ dir[at] \in Files /\ DOMAIN dir = 1..Len(dir)
        BY <1>0, <4>1
      <4>3. dir' = [dir EXCEPT ![at] = [dir[at] EXCEPT !.crc = <<>>]]
        BY <4>1
      <4>4. [dir[at] EXCEPT !.crc = <<>>].bin = dir[at].bin
        BY <4>2 DEF Files
      <4> QED
        BY <1>0, <4>2, <4>3, <4>4
    <3> QED
      BY <3>1, <3>2
  <2>3. \A e \in Env : \A k, i \in Nat : Lies(k, i, e)' => Lies(k, i, e)
    BY <1>0, <2>1, <2>2, SameBins
  <2>4. redone' \in Nat /\ redone <= redone' /\ (phase = "recover" /\ at <= Len(dir) /\ pos > 1 => redone < redone')
    BY <1>0, <1>4 DEF RemoveFails, RecoverFails
  <2>5. \A e \in Env : \A k, i \in Nat : Lies(k, i, e) /\ Read(k, i) => redone < redone'
    BY <2>4, ReadIsShort
  <2>6. /\ \A e \in Env : Copies(e)' <= Copies(e)
        /\ \A e \in Env : Unplaced(e)' => Unplaced(e)
    BY <1>0, <2>1, CopiesEffect DEF Unplaced
  <2> QED
    BY <1>0, <2>3, <2>4, <2>5, <2>6, PlacesKept
<1>6. CASE \E env \in Env : TrySend(env)
  <2>1. PICK env \in Env : TrySend(env)
    BY <1>6
  <2>2. UNCHANGED <<phase, dir, live, at, pos, delivered, redone>> /\ Unplaced(env)
    BY <2>1 DEF TrySend, diskVars, recoveryVars, Unplaced
  <2>3. CASE queue' = Append(queue, env) /\ outcome' = [outcome EXCEPT ![env] = "queued"]
    <3>1. ~Unplaced(env)' /\ \A e \in Env \ {env} : outcome'[e] = outcome[e]
      BY <1>0, <2>3 DEF Unplaced
    <3> QED
      BY <1>0, <2>2, <2>3, <3>1, QueuedCopies
  <2>4. CASE queue' = queue /\ outcome' = [outcome EXCEPT ![env] = "waiting"]
    <3>1. /\ \A e \in Env : Copies(e)' <= Copies(e)
          /\ \A e \in Env : Unplaced(e)' => Unplaced(e)
      BY <1>0, <2>2, <2>4, CopiesEffect DEF Unplaced
    <3>2. /\ \A e \in Env : \A k, i \in Nat : Lies(k, i, e)' => Lies(k, i, e)
          /\ \A k, i \in Nat : Read(k, i) => Read(k, i)'
      BY <2>2 DEF Lies, Bin, Read
    <3>3. redone' \in Nat /\ redone <= redone'
      BY <1>0, <2>2
    <3> QED
      BY <1>0, <3>1, <3>2, <3>3, PlacesKept
  <2> QED
    BY <2>1, <2>3, <2>4 DEF TrySend
<1>7. CASE \E env \in Env : GiveUp(env)
  <2>1. PICK env \in Env : GiveUp(env)
    BY <1>7
  <2>2. outcome[env] = "waiting" /\ Unplaced(env) /\ UNCHANGED <<at, pos, delivered>>
    BY <2>1 DEF GiveUp, Unplaced
  <2>3. CASE AppendOk(env) /\ UNCHANGED <<phase, worker, faults, dir, linked, queue, redone, lost>>
    <3>1. live'.bin = Append(live.bin, env) /\ outcome' = [outcome EXCEPT ![env] = "spooled"]
      BY <1>0, <2>3 DEF AppendOk, Files
    <3>2. Left(live', env)
      BY <1>00, <3>1, AppendIs DEF Left
    <3>3. ~Unplaced(env)' /\ \A e \in Env \ {env} : outcome'[e] = outcome[e]
      BY <1>0, <3>1 DEF Unplaced
    <3> QED
      BY <1>0, <2>2, <2>3, <3>2, <3>3, WriteCopies
  <2>4. ASSUME NEW f \in FailedWrites(env) \union {live}, SpoolFailure(env, f) PROVE CopyInv'
    <3>1. f \in Files /\ Left(f, env)
      BY <1>0, <2>4, WritesTyped, WritesLeft
    <3>2. CASE policy.on_failure # "abort"
      <4>1. UNCHANGED <<phase, dir, queue, redone>> /\ live' = f
            /\ \E o \in {"panicked", "dropped"} : outcome' = [outcome EXCEPT ![env] = o]
        BY <2>4, <3>2 DEF SpoolFailure
      <4>2. ~Unplaced(env)' /\ \A e \in Env \ {env} : outcome'[e] = outcome[e]
        BY <1>0, <4>1 DEF Unplaced
      <4>3. Left(live', env)
        BY <3>1, <4>1 DEF Left
      <4> QED
        BY <1>0, <2>2, <4>1, <4>2, <4>3, WriteCopies
    <3>3. CASE policy.on_failure = "abort"
      <4>1. Gone(f) /\ outcome' = Stopped
        BY <2>4, <3>3 DEF SpoolFailure, Stopped
      <4>2. \A e \in Env : outcome'[e] # "waiting" /\ (outcome'[e] = outcome[e] \/ outcome'[e] # "idle")
        BY <1>0, <4>1, StoppedTyped
      <4> QED
        BY <1>0, <2>2, <3>1, <4>1, <4>2, GoneCopies
    <3> QED
      BY <3>2, <3>3
  <2> QED
    BY <2>1, <2>3, <2>4 DEF GiveUp
<1>8. CASE Deliver \/ Exit
  <2>1. /\ UNCHANGED <<phase, dir, live, at, pos, outcome, redone>>
        /\ \/ queue # <<>> /\ queue' = Tail(queue) /\ delivered' = Append(delivered, Head(queue))
           \/ queue # <<>> /\ queue' = Tail(queue) /\ delivered' = delivered
           \/ queue' = <<>> /\ delivered' = delivered
    BY <1>0, <1>8 DEF Deliver, Exit, TaskEnds, diskVars, recoveryVars, Resting
  <2>2. /\ \A e \in Env : Copies(e)' <= Copies(e)
        /\ \A e \in Env : Unplaced(e)' => Unplaced(e)
    <3>1. \A e \in Env : Copies(e)' <= Copies(e)
      <4>1. \A e \in Env : Copies(e)' = Copies(e) => Copies(e)' <= Copies(e)
        BY <1>0, CopiesEffect
      <4> QED
        BY <1>0, <2>1, <4>1, CopiesEffect
    <3> QED
      BY <2>1, <3>1 DEF Unplaced
  <2>3. /\ \A e \in Env : \A k, i \in Nat : Lies(k, i, e)' => Lies(k, i, e)
        /\ \A k, i \in Nat : Read(k, i) => Read(k, i)'
    BY <2>1 DEF Lies, Bin, Read
  <2>4. redone' \in Nat /\ redone <= redone'
    BY <1>0, <2>1
  <2> QED
    BY <1>0, <2>2, <2>3, <2>4, PlacesKept
<1>9. CASE StoreFlag \/ TakeSender \/ Timeout \/ CloseSpool
  <2>1. UNCHANGED <<dir, live, queue, delivered, outcome, redone>> /\ phase # "recover"
    BY <1>9 DEF StoreFlag, TakeSender, Timeout, CloseSpool, shutdownRest, diskVars, recoveryVars
  <2> QED
    BY <1>a, <2>1 DEF Read
<1>91. CASE Recv \/ Check \/ Drain
  <2>1. UNCHANGED <<phase, dir, live, at, pos, queue, delivered, outcome, redone>>
    BY <1>91 DEF Recv, Check, Drain, diskVars, recoveryVars
  <2> QED
    BY <1>a, <2>1 DEF Read
<1>b. ASSUME NEW f \in Files, NEW x, Gone(f), Left(f, x), x \in Env => outcome[x] = "waiting",
             outcome' = Stopped, UNCHANGED <<at, pos, delivered>>
      PROVE  CopyInv'
  <2>1. \A e \in Env : outcome'[e] # "waiting" /\ (outcome'[e] = outcome[e] \/ outcome'[e] # "idle")
    BY <1>0, <1>b, StoppedTyped
  <2> QED
    BY <1>0, <1>b, <2>1, GoneCopies
<1>10. CASE Kill
  <2>1. PICK f \in {live} \union (UNION {FailedWrites(env) : env \in
                    {e \in Env : outcome[e] = "waiting" /\ ~Refuses}}) : Gone(f)
    BY <1>10 DEF Kill
  <2>2. outcome' = Stopped /\ UNCHANGED <<at, pos, delivered>>
    BY <1>10 DEF Kill
  <2>3. CASE f = live
    <3>1. Left(f, Torn)
      BY <2>3 DEF Left
    <3> QED
      BY <1>0, <1>b, <2>1, <2>2, <2>3, <3>1, TornAssumption
  <2>4. CASE f # live
    <3>1. PICK env \in Env : outcome[env] = "waiting" /\ f \in FailedWrites(env)
      BY <2>1, <2>4
    <3>2. f \in Files /\ Left(f, env)
      BY <1>0, <3>1, WritesTyped, WritesLeft
    <3> QED
      BY <1>b, <2>1, <2>2, <3>1, <3>2
  <2> QED
    BY <2>3, <2>4
<1>11. CASE HostCrash
  <2>1. PICK n \in live.sb..Len(live.bin), m \in live.sc..Len(live.crc) :
          Gone([bin |-> SubSeq(live.bin, 1, n), crc |-> SubSeq(live.crc, 1, m),
                sb |-> n, sc |-> m])
    BY <1>11 DEF HostCrash
  <2>2. PICK f \in Files : Gone(f) /\ f.bin = SubSeq(live.bin, 1, n)
    BY <1>0, <2>1, CrashTyped
  <2>3. Left(f, Torn)
    <3>1. n \in 0..Len(live.bin) /\ n \in Nat
      BY <1>0 DEF Files
    <3>2. Len(f.bin) = n /\ \A i \in 1..n : f.bin[i] = live.bin[i] /\ i \in 1..Len(live.bin)
      BY <1>00, <2>2, <3>1, PrefixIs
    <3> QED
      BY <3>2 DEF Left
  <2>4. outcome' = Stopped /\ UNCHANGED <<at, pos, delivered>>
    BY <1>11 DEF HostCrash
  <2> QED
    BY <1>b, <2>2, <2>3, <2>4, TornAssumption
<1>12. CASE UNCHANGED vars
  <2>1. UNCHANGED <<phase, dir, live, at, pos, outcome, queue, delivered, redone>>
    BY <1>12 DEF vars
  <2> QED
    BY <1>a, <2>1 DEF Read
<1> QED
  BY <1>1, <1>2, <1>3, <1>4, <1>6, <1>7, <1>8, <1>9, <1>91, <1>10, <1>11, <1>12 DEF Next

(* AtMostOncePlusRedone, of the spool and its recovery: whatever fills up, *)
(* fails or crashes, and however many processes take part, an envelope     *)
(* reaches the sink once, plus once for each time a file that recovery had *)
(* begun to read was left to be read again.                                *)
THEOREM DeliveredOncePlusRedone == Spec => []AtMostOncePlusRedone
<1>1. Init => CopyInv
  <2>1. ASSUME Init PROVE CopyInv
    <3>1. AuditType /\ Resting /\ redone = 0
      BY <2>1, AuditInit DEF AuditInv, Init
    <3>2. dir = <<>> /\ live.bin = <<>> /\ queue = <<>> /\ delivered = <<>>
      BY <2>1 DEF Init, NoFile
    <3>3. \A env \in Env : \A k, i \in Nat : ~Lies(k, i, env)
      BY <3>2 DEF Lies, Bin
    <3>4. \A env \in Env : Copies(env) = 0
      <4>1. \A env : Times(queue, env) = 0 /\ Times(delivered, env) = 0
        BY <3>2, TimesEmpty
      <4> QED
        BY <3>1, <4>1, CopiesAre
    <3> QED
      BY <3>1, <3>3, <3>4 DEF CopyInv, WrittenOnce, NowhereYet, RoomLeft
  <2> QED
    BY <2>1
<1>2. CopyInv => AtMostOncePlusRedone
  BY DEF CopyInv, RoomLeft, AtMostOncePlusRedone
<1> QED
  BY <1>1, <1>2, CopyStep, PTL DEF Spec
===============================================================================
