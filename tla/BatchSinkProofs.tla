---------------------------- MODULE BatchSinkProofs ----------------------------
(* Theorems about the batching sink, for any envelopes, partition keys,    *)
(* sizes, triggers, retry limits, spool cap, failures and restarts.        *)
EXTENDS BatchSink, SequenceLemmas

-------------------------------------------------------------------------------
Stages == {"encode", "upload", "spool", "remove", "fatal", "exhausted"}
Records == {f \in [envs : Seq(Env), n : Nat, torn : BOOLEAN] : f.n <= Len(f.envs)}
Batches == [stage : Stages, key : Keys, envs : Seq(Env), attempt : Nat,
            file : {<<>>} \union {<<f>> : f \in Records}]

BatchType ==
    /\ load \in [Env -> [key : Keys, size : Nat \ {0}]]
    /\ sent \in [Env -> {"idle", "closed", "full", "accepted"}]
    /\ ingress \in Seq(Env) /\ parts \in [Keys -> Seq(Env)]
    /\ unread \in Seq(Records) /\ recs \in Seq(Records) /\ spool \in Seq(Records)
    /\ failed \subseteq Records
    /\ batch \in Batches \union {NoBatch}
    /\ stored \in [Keys -> [Env -> Nat]] /\ redo \in Nat
    /\ lost \in [Causes -> SUBSET Env]

Busy == batch # NoBatch
FirstTry == Busy /\ IsFresh
Again == Busy /\ ~IsFresh

InFresh == IF FirstTry THEN Range(batch.envs) ELSE {}

(* A batch is removed, escalated or left alone only when it has a file,    *)
(* which holds what is being shipped.                                      *)
BatchShape ==
    /\ Busy /\ batch.stage \in {"remove", "fatal", "exhausted"} => ~IsFresh
    /\ Again => Held(batch.file[1]) \subseteq Range(batch.envs)

(* Where an accepted envelope is when the process does not have it. *)
StoredEnvs == {e \in Env : \E k \in Keys : stored[k][e] > 0}
LostEnvs == {e \in Env : \E c \in Causes : e \in lost[c]}
Safe == Kept \union StoredEnvs \union LostEnvs

BatchInv ==
    /\ BatchType
    /\ BatchShape
    /\ Busy /\ batch.stage = "remove" => Range(batch.envs) \subseteq StoredEnvs
    /\ \A e \in Env : sent[e] = "accepted" => e \in InMemory \union Safe

-------------------------------------------------------------------------------
(* What the spool would ship, what a retry tick has still to ship, what is *)
(* being shipped again, and what was just shipped again.                   *)
OnSpool == {e \in Env : \E f \in Range(spool) : e \in Held(f)}
Waiting == {e \in Env : \E f \in Range(recs) \union Range(unread) : e \in Held(f)}
InAgain == IF Again THEN Range(batch.envs) ELSE {}
Spooled == OnSpool \union Waiting \union InAgain
Shipped == IF Busy /\ batch.stage = "remove" THEN Range(batch.envs) ELSE {}

(* No envelope is in two files of a list. *)
Apart(files) ==
    \A i, j \in 1..Len(files) : i # j => Held(files[i]) \intersect Held(files[j]) = {}

(* All envelopes of a file have one key. *)
OneKey(f) == \A e, g \in Held(f) : KeyOf(e) = KeyOf(g)

(* The spool has the envelopes of the file f in f or nowhere. *)
Agrees(f) == \A g \in Range(spool) : Held(g) \intersect Held(f) # {} => g = f

RecordShape ==
    /\ Apart(spool) /\ Apart(recs) /\ Apart(unread)
    /\ \A f \in Range(recs), g \in Range(unread) : Held(f) \intersect Held(g) = {}
    /\ \A f \in Range(recs) : ~f.torn
    /\ \A f \in Range(recs) \union Range(unread) : Agrees(f)
    /\ \A f \in Range(spool) \union Range(recs) \union Range(unread) : OneKey(f)

(* A retry tick and a flush do not overlap; a batch that is shipped again  *)
(* is what its file holds.                                                 *)
WorkShape ==
    /\ FirstTry \/ todo # {} \/ life = "drain" => recs = <<>> /\ unread = <<>>
    /\ Again => /\ batch.key # NoKey /\ batch.stage # "spool"
                /\ Range(batch.envs) = Held(batch.file[1]) /\ Agrees(batch.file[1])
                /\ Waiting \intersect Range(batch.envs) = {}

KeyShape ==
    /\ \A k \in Keys : \A e \in Range(parts[k]) : KeyOf(e) = k
    /\ Busy => \A e \in Range(batch.envs) : KeyOf(e) = batch.key

(* An envelope is in one place. *)
OnePlace ==
    /\ IsInjective(ingress)
    /\ \A k \in Keys : Range(parts[k]) \intersect (Range(ingress) \union InFresh) = {}
    /\ Range(ingress) \intersect InFresh = {}
    /\ InMemory \intersect Spooled = {}

(* What may still be uploaded has been stored at most redo times. *)
Counts ==
    /\ \A e \in Env : sent[e] = "idle" =>
          e \notin InMemory \union Spooled /\ \A k \in Keys : stored[k][e] = 0
    /\ StoredOnce
    /\ \A e \in (InMemory \union Spooled) \ Shipped : stored[KeyOf(e)][e] <= redo

OnceShape == RecordShape /\ WorkShape /\ KeyShape /\ OnePlace /\ Counts

OnceInv == BatchInv /\ OnceShape

-------------------------------------------------------------------------------
(* Operators.                                                              *)

LEMMA BatchFields ==
    ASSUME NEW b \in Batches
    PROVE  /\ b # NoBatch /\ b.stage \in Stages /\ b.key \in Keys /\ b.envs \in Seq(Env) /\ b.attempt \in Nat
           /\ b.file = <<>> \/ \E f \in Records : b.file = <<f>>
           /\ "envs" \in DOMAIN b
<1>1. b.stage \in Stages /\ b.key \in Keys /\ b.envs \in Seq(Env) /\ b.attempt \in Nat
      /\ b.file \in {<<>>} \union {<<f>> : f \in Records} /\ "envs" \in DOMAIN b
  BY DEF Batches
<1>2. NoBatch.stage \notin Stages
  BY DEF NoBatch, Stages
<1> QED
  BY <1>1, <1>2

LEMMA StageMeansBusy ==
    ASSUME BatchType, batch.stage \in Stages
    PROVE  batch \in Batches /\ Busy
<1>1. NoBatch.stage \notin Stages
  BY DEF NoBatch, Stages
<1> QED
  BY <1>1 DEF BatchType, Busy

(* A batch in another stage is still the same batch. *)
LEMMA MovedTo ==
    ASSUME batch \in Batches, NEW s \in Stages, NEW a \in Nat,
           batch' = [batch EXCEPT !.stage = s, !.attempt = a]
    PROVE  /\ batch' \in Batches /\ batch'.stage = s /\ batch'.key = batch.key
           /\ batch'.envs = batch.envs /\ batch'.file = batch.file
<1>1. PICK b \in Batches : b = batch
  OBVIOUS
<1>2. PICK c : c = batch'
  OBVIOUS
<1>3. c = [b EXCEPT !.stage = s, !.attempt = a]
  BY <1>1, <1>2
<1>4. c \in Batches /\ c.stage = s /\ c.key = b.key /\ c.envs = b.envs /\ c.file = b.file
  BY ONLY <1>3, b \in Batches, s \in Stages, a \in Nat DEF Batches
<1> QED
  BY <1>1, <1>2, <1>4

LEMMA MemIs ==
    /\ BatchType =>
         \A e : e \in InMemory <=> e \in Range(ingress) \/ (\E k \in Keys : e \in Range(parts[k])) \/ e \in InFresh
    /\ BatchType' =>
         \A e : e \in InMemory' <=>
           e \in Range(ingress') \/ (\E k \in Keys : e \in Range(parts'[k])) \/ e \in InFresh'
<1>1. ASSUME NEW I, NEW P, NEW F, NEW e, NEW K
      PROVE  e \in I \union (UNION {Range(P[k]) : k \in K}) \union F <=>
               e \in I \/ (\E k \in K : e \in Range(P[k])) \/ e \in F
  OBVIOUS
<1>2. BatchType => InFresh = IF batch # NoBatch /\ IsFresh THEN InBatch ELSE {}
  BY BatchFields DEF BatchType, InFresh, FirstTry, Busy, InBatch
<1>3. BatchType' => InFresh' = (IF batch # NoBatch /\ IsFresh THEN InBatch ELSE {})'
  BY BatchFields DEF BatchType, InFresh, FirstTry, Busy, InBatch
<1>4. BatchType => InMemory = Range(ingress) \union (UNION {Range(parts[k]) : k \in Keys}) \union InFresh
  BY <1>2 DEF InMemory
<1>5. BatchType' => InMemory' = Range(ingress') \union (UNION {Range(parts'[k]) : k \in Keys}) \union InFresh'
  BY <1>3 DEF InMemory
<1> QED
  BY <1>1, <1>4, <1>5

LEMMA KeptIs ==
    /\ \A e : e \in Kept <=> \E f \in Range(spool) \union failed : e \in Held(f)
    /\ \A e : e \in Kept' <=> \E f \in Range(spool') \union failed' : e \in Held(f)
<1>1. ASSUME NEW S, NEW e PROVE e \in UNION {Held(f) : f \in S} <=> \E f \in S : e \in Held(f)
  OBVIOUS
<1> QED
  BY <1>1 DEF Kept, Held

LEMMA LoseGrows ==
    ASSUME BatchType, NEW c \in Causes, NEW S \in SUBSET Env, Lose(c, S)
    PROVE  lost' \in [Causes -> SUBSET Env] /\ LostEnvs' = LostEnvs \union S
<1>1. \A d \in Causes : lost'[d] = IF d = c THEN lost[d] \union S ELSE lost[d]
  BY DEF Lose, BatchType
<1>2. lost' \in [Causes -> SUBSET Env]
  BY <1>1 DEF Lose, BatchType
<1> QED
  BY <1>1, <1>2 DEF LostEnvs

(* A stored batch is counted once more, under its key. *)
LEMMA StoreEffect ==
    ASSUME BatchType, batch \in Batches, Store
    PROVE  /\ stored' \in [Keys -> [Env -> Nat]]
           /\ \A k \in Keys, e \in Env :
                 stored'[k][e] = stored[k][e] + (IF k = batch.key /\ e \in Range(batch.envs) THEN 1 ELSE 0)
<1> DEFINE row == [e \in Env |-> stored[batch.key][e] + (IF e \in Range(batch.envs) THEN 1 ELSE 0)]
<1>1. stored \in [Keys -> [Env -> Nat]] /\ batch.key \in Keys
  BY BatchFields DEF BatchType
<1>2. stored' = [stored EXCEPT ![batch.key] = row]
  BY DEF Store
<1>3. row \in [Env -> Nat] /\ \A e \in Env : row[e] = stored[batch.key][e] + (IF e \in Range(batch.envs) THEN 1 ELSE 0)
  BY <1>1
<1> HIDE DEF row
<1>4. \A k \in Keys : stored'[k] = IF k = batch.key THEN row ELSE stored[k]
  BY <1>1, <1>2
<1>5. stored' \in [Keys -> [Env -> Nat]]
  BY <1>1, <1>2, <1>3
<1>6. ASSUME NEW k \in Keys, NEW e \in Env
      PROVE  stored'[k][e] = stored[k][e] + (IF k = batch.key /\ e \in Range(batch.envs) THEN 1 ELSE 0)
  <2>1. stored[k][e] \in Nat
    BY <1>1
  <2> QED
    BY <1>3, <1>4, <2>1
<1> QED
  BY <1>5, <1>6

LEMMA WithoutIs ==
    ASSUME NEW s \in Seq(Records), NEW f
    PROVE  /\ Without(s, f) \in Seq(Records)
           /\ Range(s) \subseteq Range(Without(s, f)) \union {f}
           /\ Range(Without(s, f)) \subseteq Range(s)
<1>1. Range(s) = {s[i] : i \in 1..Len(s)}
  BY RangeOf
<1>2. CASE Without(s, f) = s
  BY <1>2
<1>3. ASSUME NEW i \in 1..Len(s), s[i] = f, Without(s, f) = RemoveAt(s, i)
      PROVE  /\ Without(s, f) \in Seq(Records)
             /\ Range(s) \subseteq Range(Without(s, f)) \union {f} /\ Range(Without(s, f)) \subseteq Range(s)
  <2> DEFINE w == RemoveAt(s, i)
  <2>1. w \in Seq(Records) /\ (\A j \in 1..Len(s) : j # i => s[j] \in Range(w)) /\ Len(w) = Len(s) - 1
        /\ \A j \in 1..(Len(s) - 1) : w[j] = s[IF j < i THEN j ELSE j + 1]
    BY RemoveAtKeeps
  <2> HIDE DEF w
  <2>2. Range(w) = {w[j] : j \in 1..Len(w)}
    BY <2>1, RangeOf
  <2>3. \A j \in 1..(Len(s) - 1) : (IF j < i THEN j ELSE j + 1) \in 1..Len(s)
    <3>1. Len(s) \in Nat
      OBVIOUS
    <3> QED
      BY ONLY <3>1, i \in 1..Len(s)
  <2>4. Range(w) \subseteq Range(s)
    BY <1>1, <2>1, <2>2, <2>3
  <2> QED
    BY <1>1, <1>3, <2>1, <2>4 DEF w
<1> QED
  BY <1>2, <1>3, RemoveFirstIs DEF Without

LEMMA HeldIs ==
    ASSUME NEW f \in Records
    PROVE  /\ Held(f) \subseteq Env
           /\ ~f.torn => Held(f) = Range(SubSeq(f.envs, 1, f.n))
           /\ SubSeq(f.envs, 1, f.n) \in Seq(Env)
           /\ SubSeq(f.envs, 1, f.n) = <<>> => Held(f) = {}
           /\ f.n = Len(f.envs) /\ ~f.torn => Held(f) = Range(f.envs)
           /\ Held(f) \subseteq Range(f.envs)
<1>1. f.envs \in Seq(Env) /\ f.n \in Nat /\ f.torn \in BOOLEAN /\ f.n \in 0..Len(f.envs)
  <2>1. f.envs \in Seq(Env) /\ f.n \in Nat /\ f.torn \in BOOLEAN /\ f.n <= Len(f.envs)
    BY DEF Records
  <2> QED
    BY <2>1
<1>2. /\ SubSeq(f.envs, 1, f.n) \in Seq(Env) /\ Len(SubSeq(f.envs, 1, f.n)) = f.n
      /\ Range(SubSeq(f.envs, 1, f.n)) = {f.envs[i] : i \in 1..f.n}
  BY <1>1, PrefixIs
<1>3. Range(f.envs) = {f.envs[i] : i \in 1..Len(f.envs)} /\ Range(f.envs) \subseteq Env
  BY <1>1, RangeOf
<1>4. Held(f) = IF f.torn THEN {} ELSE {f.envs[i] : i \in 1..f.n}
  BY DEF Held
<1>5. \A i \in 1..f.n : i \in 1..Len(f.envs)
  BY <1>1
<1>6. Held(f) \subseteq Range(f.envs)
  BY <1>3, <1>4, <1>5
<1>7. SubSeq(f.envs, 1, f.n) = <<>> => Held(f) = {}
  BY <1>2, <1>4, RangeEmpty
<1> QED
  BY <1>2, <1>3, <1>4, <1>6, <1>7

LEMMA WrittenIs ==
    ASSUME NEW s, s \in Seq(Env)
    PROVE  /\ OnDisk(s, Len(s), FALSE) \in Records /\ Held(OnDisk(s, Len(s), FALSE)) = Range(s)
           /\ \A left \in Partial(s) :
                \/ left = <<>>
                \/ \E f \in Records : left = <<f>> /\ Held(f) \subseteq Range(s)
<1>1. Len(s) \in Nat /\ Len(s) <= Len(s)
  OBVIOUS
<1>2. ASSUME NEW n \in Nat, n <= Len(s), NEW torn \in BOOLEAN
      PROVE  OnDisk(s, n, torn) \in Records /\ OnDisk(s, n, torn).envs = s
             /\ OnDisk(s, n, torn).n = n /\ OnDisk(s, n, torn).torn = torn
  BY <1>2 DEF OnDisk, Records
<1>3. OnDisk(s, Len(s), FALSE) \in Records /\ Held(OnDisk(s, Len(s), FALSE)) = Range(s)
  BY <1>1, <1>2, HeldIs
<1>4. ASSUME NEW left \in Partial(s)
      PROVE  left = <<>> \/ \E f \in Records : left = <<f>> /\ Held(f) \subseteq Range(s)
  <2>1. CASE left = <<>>
    BY <2>1
  <2>2. CASE left # <<>>
    <3>1. PICK n \in 0..(Len(s) - 1), torn \in BOOLEAN : left = <<OnDisk(s, n, torn)>>
      BY <2>2, <1>4 DEF Partial
    <3>2. n \in Nat /\ n <= Len(s)
      <4>1. n \in 0..(Len(s) - 1)
        OBVIOUS
      <4> QED
        BY ONLY <1>1, <4>1
    <3>3. OnDisk(s, n, torn) \in Records /\ OnDisk(s, n, torn).envs = s
      BY <1>2, <3>2
    <3>4. Held(OnDisk(s, n, torn)) \subseteq Range(s)
      BY <3>3, HeldIs
    <3> QED
      BY <3>1, <3>3, <3>4
  <2> QED
    BY <2>1, <2>2
<1> QED
  BY <1>3, <1>4

LEMMA LeftBehind ==
    ASSUME BatchType, NEW left, left = <<>> \/ \E f \in Records : left = <<f>>,
           spool' = spool \o left
    PROVE  spool' \in Seq(Records) /\ Range(spool') = Range(spool) \union Range(left)
<1>1. spool \in Seq(Records)
  BY DEF BatchType
<1>2. CASE left = <<>>
  <2>1. spool' = spool
    BY <1>1, <1>2
  <2> QED
    BY <1>1, <1>2, <2>1, RangeEmpty
<1>3. CASE \E f \in Records : left = <<f>>
  <2>1. PICK f \in Records : left = <<f>>
    BY <1>3
  <2>2. spool' = Append(spool, f)
    BY <1>1, <2>1
  <2>3. Range(<<f>>) = {f}
    BY DEF Range
  <2>4. Append(spool, f) \in Seq(Records) /\ Range(Append(spool, f)) = Range(spool) \union {f}
    BY <1>1, RangeOf
  <2> QED
    BY <2>1, <2>2, <2>3, <2>4
<1> QED
  BY <1>2, <1>3

(* admit() takes one envelope off the channel into its partition, where it *)
(* may push out the oldest one.                                            *)
LEMMA AdmitEffect ==
    ASSUME BatchType, Admit
    PROVE  \E e \in Env, k \in Keys, full \in Seq(Env), gone \in SUBSET Env :
             /\ k = KeyOf(e) /\ ingress # <<>> /\ e = Head(ingress) /\ ingress' = Tail(ingress)
             /\ lost' \in [Causes -> SUBSET Env] /\ LostEnvs' = LostEnvs \union gone
             /\ \/ gone = {e} /\ UNCHANGED <<parts, batch>>
                \/ /\ Range(full) \subseteq Range(parts[k]) \union {e}
                   /\ Range(parts[k]) \union {e} \subseteq Range(full) \union gone
                   /\ e \in Range(full)
                   /\ \/ /\ batch' = [Fresh(k, "encode") EXCEPT !.envs = full]
                         /\ parts' = [parts EXCEPT ![k] = <<>>]
                      \/ parts' = [parts EXCEPT ![k] = full] /\ UNCHANGED batch
<1> DEFINE e == Head(ingress)
           k == KeyOf(e)
           evict == Len(parts[k]) >= RingCap
           rest == IF evict THEN Tail(parts[k]) ELSE parts[k]
           full == Append(rest, e)
<1>1. ingress # <<>> /\ ingress' = Tail(ingress) /\ ingress \in Seq(Env) /\ parts \in [Keys -> Seq(Env)]
  BY DEF Admit, BatchType
<1>2. e \in Env
  BY <1>1, RangeOf
<1>3. k \in Keys
  BY <1>2 DEF KeyOf, BatchType
<1>4. \/ Size(e) > FrameMax /\ Lose("too_large", {e}) /\ UNCHANGED <<parts, opened, batch>>
      \/ /\ IF evict THEN Lose("ring", {Head(parts[k])}) ELSE UNCHANGED lost
         /\ \/ /\ batch' = [Fresh(k, "encode") EXCEPT !.envs = full]
               /\ parts' = [parts EXCEPT ![k] = <<>>]
            \/ parts' = [parts EXCEPT ![k] = full] /\ UNCHANGED batch
  BY DEF Admit
<1>5. "too_large" \in Causes /\ "ring" \in Causes
  BY DEF Causes
<1>6. evict => parts[k] # <<>>
  <2>1. RingCap >= 4
    BY BatchAssumption DEF RingCap
  <2>2. RingCap \in Int
    BY BatchAssumption DEF RingCap
  <2>3. parts[k] = <<>> => Len(parts[k]) = 0
    OBVIOUS
  <2> QED
    BY ONLY <2>1, <2>2, <2>3
<1>7. parts[k] \in Seq(Env)
  BY <1>1, <1>3
<1>8. /\ rest \in Seq(Env) /\ Range(rest) \subseteq Range(parts[k])
      /\ Range(parts[k]) \subseteq Range(rest) \union (IF evict THEN {Head(parts[k])} ELSE {})
      /\ evict => Head(parts[k]) \in Env
  BY <1>6, <1>7, RangeOf
<1> HIDE DEF e, k, evict, rest
<1>9. full \in Seq(Env) /\ Range(full) = Range(rest) \union {e}
  BY <1>2, <1>8, RangeOf
<1> HIDE DEF full
<1>10. CASE Lose("too_large", {e}) /\ UNCHANGED <<parts, opened, batch>>
  <2>1. lost' \in [Causes -> SUBSET Env] /\ LostEnvs' = LostEnvs \union {e}
    BY <1>2, <1>5, <1>10, LoseGrows
  <2> e \in Env /\ k \in Keys /\ full \in Seq(Env) /\ {e} \in SUBSET Env
    BY <1>2, <1>3, <1>9
  <2> WITNESS e \in Env, k \in Keys, full \in Seq(Env), {e} \in SUBSET Env
  <2> QED
    BY <1>1, <1>10, <2>1 DEF e, k
<1>11. CASE /\ IF evict THEN Lose("ring", {Head(parts[k])}) ELSE UNCHANGED lost
            /\ \/ /\ batch' = [Fresh(k, "encode") EXCEPT !.envs = full]
                  /\ parts' = [parts EXCEPT ![k] = <<>>]
               \/ parts' = [parts EXCEPT ![k] = full] /\ UNCHANGED batch
  <2> DEFINE gone == IF evict THEN {Head(parts[k])} ELSE {}
  <2>1. gone \in SUBSET Env
    BY <1>8
  <2>2. lost' \in [Causes -> SUBSET Env] /\ LostEnvs' = LostEnvs \union gone
    <3>1. CASE evict
      BY <1>5, <1>8, <1>11, <3>1, LoseGrows
    <3>2. CASE ~evict
      <4>1. lost' = lost
        BY <1>11, <3>2
      <4> QED
        BY <3>2, <4>1 DEF LostEnvs, BatchType
    <3> QED
      BY <3>1, <3>2
  <2>3. Range(parts[k]) \union {e} \subseteq Range(full) \union gone
    BY <1>8, <1>9
  <2>4. Range(full) \subseteq Range(parts[k]) \union {e} /\ e \in Range(full)
    BY <1>8, <1>9
  <2> HIDE DEF gone
  <2> e \in Env /\ k \in Keys /\ full \in Seq(Env) /\ gone \in SUBSET Env
    BY <1>2, <1>3, <1>9, <2>1
  <2> WITNESS e \in Env, k \in Keys, full \in Seq(Env), gone \in SUBSET Env
  <2> QED
    BY <1>1, <1>11, <2>2, <2>3, <2>4 DEF e, k
<1> QED
  BY <1>4, <1>10, <1>11 DEF full

(* The batch a partition becomes. *)
LEMMA FreshTyped ==
    ASSUME NEW k \in Keys, NEW s \in {"encode", "spool"}, NEW envs \in Seq(Env),
           NEW b, b = [stage |-> s, key |-> k, envs |-> envs, attempt |-> 0, file |-> <<>>]
    PROVE  b \in Batches /\ b.key = k /\ b.envs = envs /\ b.file = <<>> /\ b.stage = s
BY DEF Batches, Stages

LEMMA FileOf ==
    ASSUME BatchType, Busy, ~IsFresh
    PROVE  batch.file[1] \in Records /\ batch.file = <<batch.file[1]>>
<1>1. batch \in Batches
  BY DEF BatchType, Busy
<1>2. PICK f \in Records : batch.file = <<f>>
  BY <1>1, BatchFields DEF IsFresh
<1> QED
  BY <1>2

(* GiveUp, Encode and the uploads only move the batch to another stage. *)
LEMMA GiveUpIs ==
    ASSUME BatchType, Busy, NEW why \in Stages, NEW a \in Nat, GiveUp(why, a)
    PROVE  /\ batch' \in Batches /\ batch'.key = batch.key /\ batch'.envs = batch.envs /\ batch'.file = batch.file
           /\ batch'.stage = IF IsFresh THEN "spool" ELSE why
<1>1. batch \in Batches /\ "spool" \in Stages
  BY DEF BatchType, Busy, Stages
<1> DEFINE s == IF IsFresh THEN "spool" ELSE why
<1>2. s \in Stages /\ batch' = [batch EXCEPT !.stage = s, !.attempt = a]
  BY <1>1 DEF GiveUp
<1> HIDE DEF s
<1>3. batch' \in Batches /\ batch'.stage = s /\ batch'.key = batch.key /\ batch'.envs = batch.envs
      /\ batch'.file = batch.file
  BY <1>1, <1>2, MovedTo
<1> QED
  BY <1>3 DEF s

LEMMA MoveIs ==
    ASSUME BatchType, Encode \/ UploadFatal \/ (\E applied \in BOOLEAN : UploadRetry(applied))
    PROVE  /\ Busy /\ batch \in Batches /\ batch' \in Batches
           /\ batch'.key = batch.key /\ batch'.envs = batch.envs /\ batch'.file = batch.file
           /\ batch.stage \in {"encode", "upload"}
           /\ batch'.stage \in {"fatal", "exhausted"} => ~IsFresh
           /\ batch'.stage # "remove" /\ (batch'.stage = "spool" => IsFresh \/ batch.key = NoKey)
           /\ UNCHANGED <<life, load, sent, ingress, parts, todo, unread, recs, spool, failed, lost>>
<1>1. batch.stage \in {"encode", "upload"} /\ {"encode", "upload", "fatal", "exhausted", "spool"} \subseteq Stages
  BY DEF Encode, UploadFatal, UploadRetry, Stages
<1>2. batch \in Batches /\ Busy /\ batch.attempt \in Nat
  BY <1>1, StageMeansBusy, BatchFields
<1>3. UNCHANGED <<life, load, sent, ingress, parts, todo, unread, recs, spool, failed, lost>>
  BY DEF Encode, UploadFatal, UploadRetry, bufVars, diskVars, callVars
<1>4. \/ \E why \in {"fatal", "exhausted"}, a \in Nat : GiveUp(why, a)
      \/ batch.key = NoKey /\ \E a \in Nat : GiveUp("spool", a)
      \/ \E a \in Nat : batch' = [batch EXCEPT !.stage = "upload", !.attempt = a]
  <2>1. CASE Encode
    <3>1. batch' = [batch EXCEPT !.stage = "upload"] =>
            batch' = [batch EXCEPT !.stage = "upload", !.attempt = batch.attempt]
      BY <1>2 DEF Batches
    <3> QED
      BY <1>2, <2>1, <3>1 DEF Encode
  <2>2. CASE UploadFatal
    <3>1. batch.attempt + 1 \in Nat
      BY <1>2
    <3> QED
      BY <2>2, <3>1 DEF UploadFatal
  <2>3. CASE \E applied \in BOOLEAN : UploadRetry(applied)
    <3>1. PICK applied \in BOOLEAN : UploadRetry(applied)
      BY <2>3
    <3>2. batch.stage = "upload" /\ batch.attempt + 1 \in Nat
      BY <1>2, <3>1 DEF UploadRetry
    <3>3. batch' = [batch EXCEPT !.attempt = @ + 1] =>
            batch' = [batch EXCEPT !.stage = "upload", !.attempt = batch.attempt + 1]
      BY <1>2, <3>2 DEF Batches
    <3> QED
      BY <3>1, <3>2, <3>3 DEF UploadRetry
  <2> QED
    BY <2>1, <2>2, <2>3
<1>5. CASE \E why \in {"fatal", "exhausted"}, a \in Nat : GiveUp(why, a)
  BY <1>1, <1>2, <1>3, <1>5, GiveUpIs
<1>6. CASE batch.key = NoKey /\ \E a \in Nat : GiveUp("spool", a)
  BY <1>1, <1>2, <1>3, <1>6, GiveUpIs
<1>7. CASE \E a \in Nat : batch' = [batch EXCEPT !.stage = "upload", !.attempt = a]
  <2>1. PICK a \in Nat : batch' = [batch EXCEPT !.stage = "upload", !.attempt = a]
    BY <1>7
  <2>2. /\ batch' \in Batches /\ batch'.stage = "upload" /\ batch'.key = batch.key
        /\ batch'.envs = batch.envs /\ batch'.file = batch.file
    BY <1>1, <1>2, <2>1, MovedTo
  <2> QED
    BY <1>1, <1>2, <1>3, <2>2
<1> QED
  BY <1>4, <1>5, <1>6, <1>7

(* flush_aged and drain_on_shutdown take a partition out of the map. *)
LEMMA TakeIs ==
    ASSUME BatchType, NEW k \in Keys, FlushNext(k) \/ DrainNext(k)
    PROVE  /\ batch = NoBatch /\ batch' \in Batches
           /\ batch'.key = k /\ batch'.envs = parts[k] /\ batch'.file = <<>> /\ batch'.stage \in {"encode", "spool"}
           /\ parts' = [parts EXCEPT ![k] = <<>>] /\ parts' \in [Keys -> Seq(Env)]
           /\ UNCHANGED <<life, load, sent, ingress, unread, recs, spool, failed, stored, redo, lost>>
           /\ todo' = todo \ {k} \/ todo' = todo
           /\ k \in todo \/ life = "drain"
<1>1. parts[k] \in Seq(Env) /\ <<>> \in Seq(Env)
  BY DEF BatchType
<1>2. PICK s \in {"encode", "spool"} : batch' = Fresh(k, s)
  BY DEF FlushNext, DrainNext
<1>3. batch' \in Batches /\ batch'.key = k /\ batch'.envs = parts[k] /\ batch'.file = <<>> /\ batch'.stage = s
  BY <1>1, <1>2, FreshTyped DEF Fresh
<1>4. parts' = [parts EXCEPT ![k] = <<>>] /\ parts' \in [Keys -> Seq(Env)]
  BY <1>1 DEF FlushNext, DrainNext, BatchType
<1>5. UNCHANGED <<life, load, sent, ingress, unread, recs, spool, failed, stored, redo, lost>>
  BY DEF FlushNext, DrainNext, diskVars, backVars, callVars
<1> QED
  BY <1>3, <1>4, <1>5 DEF FlushNext, DrainNext

(* try_reship takes the next record. *)
LEMMA ReshipIs ==
    ASSUME BatchType, ReshipNext
    PROVE  \E f \in Records :
             /\ batch = NoBatch /\ unread = <<>> /\ recs # <<>> /\ f = Head(recs) /\ recs' = Tail(recs)
             /\ recs' \in Seq(Records)
             /\ \/ Held(f) = {} /\ spool' = Without(spool, f) /\ batch' = NoBatch
                \/ spool' = spool /\ batch' = NoBatch
                \/ /\ spool' = spool /\ batch' \in Batches /\ batch'.stage = "encode" /\ batch'.file = <<f>>
                   /\ batch'.key = KeyOf(Head(batch'.envs)) /\ batch'.key # NoKey
                   /\ batch'.envs = SubSeq(f.envs, 1, f.n) /\ batch'.envs # <<>>
             /\ UNCHANGED <<life, load, sent, ingress, parts, todo, unread, failed, stored, redo, lost>>
<1> DEFINE f == Head(recs)
           envs == SubSeq(f.envs, 1, f.n)
<1>1. recs # <<>> /\ recs \in Seq(Records)
  BY DEF ReshipNext, BatchType
<1>2. f \in Records /\ Tail(recs) \in Seq(Records)
  BY <1>1, RangeOf
<1>3. envs \in Seq(Env) /\ (envs = <<>> => Held(f) = {})
  BY <1>2, HeldIs
<1>4. envs # <<>> => KeyOf(Head(envs)) \in Keys
  <2>1. envs # <<>> => Head(envs) \in Env
    BY <1>3, RangeOf
  <2> QED
    BY <2>1 DEF KeyOf, BatchType
<1>5. /\ batch = NoBatch /\ unread = <<>> /\ recs' = Tail(recs)
      /\ spool' = IF envs = <<>> THEN Without(spool, f) ELSE spool
      /\ batch' = IF envs = <<>> \/ KeyOf(Head(envs)) = NoKey
                    THEN NoBatch
                    ELSE [stage |-> "encode", key |-> KeyOf(Head(envs)), envs |-> envs,
                          attempt |-> 0, file |-> <<f>>]
      /\ UNCHANGED <<life, load, sent, ingress, parts, todo, unread, failed, stored, redo, lost>>
  BY DEF ReshipNext, bufVars, backVars, callVars
<1> HIDE DEF f, envs
<1>6. CASE ~(envs = <<>> \/ KeyOf(Head(envs)) = NoKey)
  <2> DEFINE b == [stage |-> "encode", key |-> KeyOf(Head(envs)), envs |-> envs, attempt |-> 0, file |-> <<f>>]
  <2>1. <<f>> \in {<<g>> : g \in Records} /\ "encode" \in Stages
    BY <1>2 DEF Stages
  <2>2. b \in Batches /\ b.stage = "encode" /\ b.file = <<f>> /\ b.key = KeyOf(Head(envs)) /\ b.envs = envs
    BY <1>3, <1>4, <1>6, <2>1 DEF Batches
  <2>3. batch' = b
    BY <1>5, <1>6
  <2> HIDE DEF b
  <2> QED
    BY <1>1, <1>2, <1>5, <1>6, <2>2, <2>3 DEF f, envs
<1>7. CASE envs = <<>> \/ KeyOf(Head(envs)) = NoKey
  BY <1>1, <1>2, <1>3, <1>5, <1>7 DEF f
<1> QED
  BY <1>6, <1>7

(* upload() answers Ok. *)
LEMMA UploadOkIs ==
    ASSUME BatchType, UploadOk
    PROVE  /\ batch \in Batches /\ batch.stage = "upload" /\ Store
           /\ \/ IsFresh /\ batch' = NoBatch
              \/ /\ ~IsFresh /\ batch' \in Batches /\ batch'.stage = "remove"
                 /\ batch'.key = batch.key /\ batch'.envs = batch.envs /\ batch'.file = batch.file
           /\ UNCHANGED <<life, load, sent, ingress, parts, todo, unread, recs, spool, failed, redo, lost>>
<1>1. batch.stage = "upload" /\ "upload" \in Stages /\ "remove" \in Stages
  BY DEF UploadOk, Stages
<1>2. batch \in Batches /\ batch.attempt \in Nat
  BY <1>1, StageMeansBusy, BatchFields
<1>3. UNCHANGED <<life, load, sent, ingress, parts, todo, unread, recs, spool, failed, redo, lost>>
  BY DEF UploadOk, bufVars, diskVars, callVars
<1>4. CASE IsFresh
  BY <1>1, <1>2, <1>3, <1>4 DEF UploadOk
<1>5. CASE ~IsFresh
  <2>1. batch' = [batch EXCEPT !.stage = "remove", !.attempt = batch.attempt]
    <3>1. batch' = [batch EXCEPT !.stage = "remove"]
      BY <1>5 DEF UploadOk
    <3> QED
      BY <1>2, <3>1 DEF Batches
  <2>2. /\ batch' \in Batches /\ batch'.stage = "remove" /\ batch'.key = batch.key
        /\ batch'.envs = batch.envs /\ batch'.file = batch.file
    BY <1>1, <1>2, <2>1, MovedTo
  <2> QED
    BY <1>1, <1>2, <1>3, <1>5, <2>2 DEF UploadOk
<1> QED
  BY <1>4, <1>5

(* The batch goes to the spool: written whole, with the oldest files       *)
(* evicted or not, or cut short.                                           *)
LEMMA SpoolIs ==
    ASSUME BatchType, WriteOk \/ WriteFails \/ WriteUnevicted
    PROVE  /\ batch \in Batches /\ batch.stage = "spool" /\ batch' = NoBatch
           /\ spool' \in Seq(Records) /\ lost' \in [Causes -> SUBSET Env]
           /\ LostEnvs \subseteq LostEnvs'
           /\ \A e \in Range(batch.envs) : e \in LostEnvs' \/ \E f \in Range(spool') : e \in Held(f)
           /\ \A f \in Range(spool) : f \in Range(spool') \/ Held(f) \subseteq LostEnvs'
           /\ \E n \in 0..Len(spool), tail \in Seq(Records) :
                /\ tail = <<>> \/ \E f \in Records : tail = <<f>> /\ Held(f) \subseteq Range(batch.envs)
                /\ spool' = SubSeq(spool, n + 1, Len(spool)) \o tail
           /\ UNCHANGED <<life, load, sent, ingress, parts, todo, unread, recs, failed, stored, redo>>
<1>1. batch.stage = "spool" /\ "spool" \in Stages
  BY DEF WriteOk, WriteFails, WriteUnevicted, Stages
<1>2. batch \in Batches /\ batch.envs \in Seq(Env)
  BY <1>1, StageMeansBusy, BatchFields
<1>3. batch' = NoBatch /\ UNCHANGED <<life, load, sent, ingress, parts, todo, unread, recs, failed, stored, redo>>
  BY DEF WriteOk, WriteFails, WriteUnevicted, bufVars, backVars, callVars
<1> DEFINE whole == OnDisk(batch.envs, Len(batch.envs), FALSE)
<1>4. whole \in Records /\ Held(whole) = Range(batch.envs) /\ Range(batch.envs) \subseteq Env
  BY <1>2, WrittenIs, RangeOf
<1> HIDE DEF whole
<1>5. spool \in Seq(Records) /\ "evicted" \in Causes /\ "write" \in Causes
  BY DEF BatchType, Causes
<1>50. SubSeq(spool, 0 + 1, Len(spool)) = spool /\ 0 \in 0..Len(spool) /\ <<>> \in Seq(Records)
  BY <1>5
<1>51. \A f \in Records : spool \o <<f>> = Append(spool, f) /\ <<f>> \in Seq(Records)
  BY <1>5
<1>6. CASE WriteUnevicted
  <2>1. spool' = Append(spool, whole) /\ lost' = lost
    BY <1>6 DEF WriteUnevicted, whole
  <2>2. Append(spool, whole) \in Seq(Records) /\ Range(Append(spool, whole)) = Range(spool) \union {whole}
    BY <1>4, <1>5, RangeOf
  <2>3. lost' \in [Causes -> SUBSET Env] /\ LostEnvs' = LostEnvs
    BY <2>1 DEF LostEnvs, BatchType
  <2>4. spool' = SubSeq(spool, 0 + 1, Len(spool)) \o <<whole>>
    BY <1>4, <1>50, <1>51, <2>1
  <2>5. \E n \in 0..Len(spool), tail \in Seq(Records) :
           /\ tail = <<>> \/ \E f \in Records : tail = <<f>> /\ Held(f) \subseteq Range(batch.envs)
           /\ spool' = SubSeq(spool, n + 1, Len(spool)) \o tail
    BY <1>4, <1>50, <1>51, <2>4
  <2> QED
    BY <1>1, <1>2, <1>3, <1>4, <2>1, <2>2, <2>3, <2>5
<1>7. CASE WriteFails
  <2>1. PICK left \in Partial(batch.envs) :
           /\ spool' = spool \o left
           /\ Lose("write", Range(batch.envs) \ (UNION {Held(f) : f \in Range(left)}))
    BY <1>7 DEF WriteFails
  <2>2. left = <<>> \/ \E f \in Records : left = <<f>> /\ Held(f) \subseteq Range(batch.envs)
    BY <1>2, WrittenIs
  <2>3. spool' \in Seq(Records) /\ Range(spool') = Range(spool) \union Range(left)
    BY <2>1, <2>2, LeftBehind
  <2> DEFINE held == UNION {Held(f) : f \in Range(left)}
  <2>4. \A e : e \in held <=> \E f \in Range(left) : e \in Held(f)
    OBVIOUS
  <2>5. LostEnvs' = LostEnvs \union (Range(batch.envs) \ held) /\ lost' \in [Causes -> SUBSET Env]
    <3> HIDE DEF held
    <3>1. Range(batch.envs) \ held \in SUBSET Env
      BY <1>4
    <3>2. Lose("write", Range(batch.envs) \ held)
      BY <2>1 DEF held
    <3> QED
      BY <1>5, <3>1, <3>2, LoseGrows
  <2> HIDE DEF held
  <2>6. \A e \in Range(batch.envs) : e \in LostEnvs' \/ \E f \in Range(spool') : e \in Held(f)
    BY <2>3, <2>4, <2>5
  <2>7. \E n \in 0..Len(spool), tail \in Seq(Records) :
           /\ tail = <<>> \/ \E f \in Records : tail = <<f>> /\ Held(f) \subseteq Range(batch.envs)
           /\ spool' = SubSeq(spool, n + 1, Len(spool)) \o tail
    <3>1. left \in Seq(Records)
      BY <1>50, <1>51, <2>2
    <3> QED
      BY <1>50, <2>1, <2>2, <3>1
  <2> QED
    BY <1>1, <1>2, <1>3, <2>3, <2>5, <2>6, <2>7
<1>8. CASE WriteOk
  <2> DEFINE files == Append(spool, whole)
  <2>1. PICK n \in 0..Len(files) :
           /\ spool' = SubSeq(files, n + 1, Len(files))
           /\ Lose("evicted", UNION {Held(files[i]) : i \in 1..n})
    BY <1>8 DEF WriteOk, whole
  <2> DEFINE out == UNION {Held(files[i]) : i \in 1..n}
             m == Len(files)
  <2>2. files \in Seq(Records) /\ Range(files) = Range(spool) \union {whole} /\ m = Len(spool) + 1
        /\ \A i \in 1..Len(spool) : files[i] = spool[i]
    BY <1>4, <1>5, RangeOf
  <2>20. files[Len(spool) + 1] = whole
    BY <1>4, <1>5
  <2>3. \A e : e \in out <=> \E i \in 1..n : e \in Held(files[i])
    OBVIOUS
  <2>4. m \in Nat /\ n \in 0..m /\ DOMAIN files = 1..m
    BY <2>2
  <2>5. /\ spool' \in Seq(Records) /\ Len(spool') = m - n
        /\ \A i \in 1..(m - n) : spool'[i] = files[n + i]
    BY <2>1, <2>2, <2>4, CutIs
  <2>6. out \in SUBSET Env
    <3>1. \A i \in 1..n : files[i] \in Records
      <4>1. \A i \in 1..n : i \in 1..m
        BY ONLY <2>4
      <4> QED
        BY <2>2, <4>1
    <3> QED
      BY <2>3, <3>1, HeldIs
  <2>7. LostEnvs' = LostEnvs \union out /\ lost' \in [Causes -> SUBSET Env]
    <3> HIDE DEF out
    <3>1. Lose("evicted", out)
      BY <2>1 DEF out
    <3> QED
      BY <1>5, <2>6, <3>1, LoseGrows
  <2> HIDE DEF out, m
  <2>8. ASSUME NEW f \in Range(files) PROVE f \in Range(spool') \/ Held(f) \subseteq LostEnvs'
    <3>1. PICK i \in 1..m : f = files[i]
      BY <2>4, <2>8 DEF Range
    <3>2. CASE i \in 1..n
      BY <2>3, <2>7, <3>1, <3>2
    <3>3. CASE i \notin 1..n
      <4>1. i - n \in 1..(m - n) /\ n + (i - n) = i
        BY ONLY <2>4, <3>3, i \in 1..m
      <4>2. Range(spool') = {spool'[j] : j \in 1..Len(spool')}
        BY <2>5, RangeOf
      <4>3. spool'[i - n] = files[i]
        BY <2>5, <4>1
      <4> QED
        BY <2>5, <3>1, <4>1, <4>2, <4>3
    <3> QED
      BY <3>2, <3>3
  <2>9. \A e \in Range(batch.envs) : e \in LostEnvs' \/ \E f \in Range(spool') : e \in Held(f)
    BY <1>4, <2>2, <2>8
  <2>10. \E j \in 0..Len(spool), tail \in Seq(Records) :
           /\ tail = <<>> \/ \E f \in Records : tail = <<f>> /\ Held(f) \subseteq Range(batch.envs)
           /\ spool' = SubSeq(spool, j + 1, Len(spool)) \o tail
    <3> DEFINE q == Len(spool)
    <3>1. q \in Nat /\ m = q + 1
      BY <1>5, <2>2
    <3>2. CASE n = m
      <4>1. spool' = <<>>
        <5>1. Len(spool') = 0
          BY <2>4, <2>5, <3>2
        <5> QED
          BY <2>5, <5>1
      <4>2. q \in 0..q /\ SubSeq(spool, q + 1, q) = <<>>
        BY <1>5, <3>1
      <4>3. spool' = SubSeq(spool, q + 1, q) \o <<>>
        BY <4>1, <4>2
      <4> QED
        BY <1>50, <4>2, <4>3
    <3>3. CASE n # m
      <4> DEFINE cut == SubSeq(spool, n + 1, q)
                 all == cut \o <<whole>>
      <4>1. n \in 0..q
        BY ONLY <2>4, <3>1, <3>3
      <4>2. cut \in Seq(Records) /\ Len(cut) = q - n /\ \A i \in 1..(q - n) : cut[i] = spool[n + i]
        BY <1>5, <4>1, CutIs
      <4> HIDE DEF cut
      <4>3. all \in Seq(Records) /\ Len(all) = Len(cut) + 1 /\ all[Len(cut) + 1] = whole
            /\ \A i \in 1..Len(cut) : all[i] = cut[i]
        <5>1. cut \in Seq(Records) /\ whole \in Records
          BY <1>4, <4>2
        <5>2. all = Append(cut, whole)
          BY ONLY <5>1
        <5> QED
          BY ONLY <5>1, <5>2
      <4> HIDE DEF all, q
      <4>4. /\ q - n + 1 = m - n /\ n + (q - n + 1) = q + 1
            /\ \A i \in 1..(m - n) : (i \in 1..(q - n) \/ i = q - n + 1)
            /\ \A i \in 1..(q - n) : n + i \in 1..q
        BY ONLY <2>4, <3>1, <4>1
      <4>5. Len(all) = m - n /\ all[q - n + 1] = whole /\ \A i \in 1..(q - n) : all[i] = spool[n + i]
        BY <4>2, <4>3, <4>4
      <4>6. files[q + 1] = whole /\ \A i \in 1..q : files[i] = spool[i]
        BY <2>2, <2>20 DEF q
      <4>7. \A i \in 1..(m - n) : all[i] = spool'[i]
        <5> SUFFICES ASSUME NEW i \in 1..(m - n) PROVE all[i] = spool'[i]
          OBVIOUS
        <5>1. spool'[i] = files[n + i]
          BY <2>5
        <5>2. CASE i = q - n + 1
          BY <4>4, <4>5, <4>6, <5>1, <5>2
        <5>3. CASE i \in 1..(q - n)
          BY <4>4, <4>5, <4>6, <5>1, <5>3
        <5> QED
          BY <4>4, <5>2, <5>3
      <4>8. spool' = all
        <5>1. DOMAIN spool' = 1..(m - n) /\ DOMAIN all = 1..(m - n)
          BY <2>5, <4>3, <4>5
        <5>2. spool' = [i \in 1..(m - n) |-> spool'[i]] /\ all = [i \in 1..(m - n) |-> all[i]]
          BY <2>5, <4>3, <5>1
        <5> QED
          BY <4>7, <5>2
      <4>9. <<whole>> \in Seq(Records)
        BY <1>4
      <4> QED
        BY <1>4, <4>1, <4>8, <4>9 DEF all, cut, q
    <3> QED
      BY <3>2, <3>3
  <2> QED
    BY <1>1, <1>2, <1>3, <2>2, <2>5, <2>7, <2>8, <2>9, <2>10
<1> QED
  BY <1>6, <1>7, <1>8

LEMMA MemTyped ==
    /\ BatchType => InMemory \subseteq Env /\ InFresh \subseteq Env
    /\ BatchType' => InMemory' \subseteq Env /\ InFresh' \subseteq Env
<1>1. \A b \in Batches : Range(b.envs) \subseteq Env
  BY BatchFields, RangeOf
<1>2. \A s \in Seq(Env) : Range(s) \subseteq Env
  BY RangeOf
<1>3. BatchType => InFresh \subseteq Env /\ Range(ingress) \subseteq Env /\ \A k \in Keys : Range(parts[k]) \subseteq Env
  BY <1>1, <1>2 DEF InFresh, FirstTry, Busy, BatchType
<1>4. BatchType' =>
        InFresh' \subseteq Env /\ Range(ingress') \subseteq Env /\ \A k \in Keys : Range(parts'[k]) \subseteq Env
  BY <1>1, <1>2 DEF InFresh, FirstTry, Busy, BatchType
<1> QED
  BY <1>3, <1>4, MemIs

(* The process is killed. *)
LEMMA KillIs ==
    ASSUME BatchType, Kill
    PROVE  /\ ingress' = <<>> /\ parts' = [k \in Keys |-> <<>>] /\ batch' = NoBatch
           /\ unread' = <<>> /\ recs' = <<>> /\ todo' = {} /\ life' = "down"
           /\ spool' \in Seq(Records) /\ lost' \in [Causes -> SUBSET Env] /\ LostEnvs \subseteq LostEnvs'
           /\ \A e \in InMemory : e \in LostEnvs' \/ \E f \in Range(spool') : e \in Held(f)
           /\ Range(spool) \subseteq Range(spool')
           /\ \E tail \in Seq(Records) :
                /\ \/ tail = <<>>
                   \/ batch.stage = "spool" /\ \E f \in Records : tail = <<f>> /\ Held(f) \subseteq Range(batch.envs)
                /\ spool' = spool \o tail
           /\ redo' = IF batch.stage = "remove" THEN redo + 1 ELSE redo
           /\ UNCHANGED <<load, sent, failed, stored>>
<1>1. /\ ingress' = <<>> /\ parts' = [k \in Keys |-> <<>>] /\ batch' = NoBatch
      /\ unread' = <<>> /\ recs' = <<>> /\ todo' = {} /\ life' = "down"
      /\ redo' = IF batch.stage = "remove" THEN redo + 1 ELSE redo
      /\ UNCHANGED <<load, sent, failed, stored>>
  BY DEF Kill, callVars
<1>2. PICK left \in IF batch.stage = "spool" THEN Partial(batch.envs) ELSE {<<>>} :
         /\ spool' = spool \o left
         /\ Lose("killed", InMemory \ (UNION {Held(f) : f \in Range(left)}))
  BY DEF Kill
<1>3. \/ left = <<>>
      \/ batch.stage = "spool" /\ \E f \in Records : left = <<f>> /\ Held(f) \subseteq Range(batch.envs)
  <2>1. CASE batch.stage = "spool"
    <3>1. "spool" \in Stages
      BY DEF Stages
    <3>2. batch.envs \in Seq(Env)
      BY <2>1, <3>1, StageMeansBusy, BatchFields
    <3>3. left \in Partial(batch.envs)
      BY <1>2, <2>1
    <3> QED
      BY <2>1, <3>2, <3>3, WrittenIs
  <2> QED
    BY <1>2, <2>1
<1>4. spool' \in Seq(Records) /\ Range(spool') = Range(spool) \union Range(left)
  BY <1>2, <1>3, LeftBehind
<1> DEFINE held == UNION {Held(f) : f \in Range(left)}
<1>5. \A e : e \in held <=> \E f \in Range(left) : e \in Held(f)
  OBVIOUS
<1> HIDE DEF held
<1>6. LostEnvs' = LostEnvs \union (InMemory \ held) /\ lost' \in [Causes -> SUBSET Env]
  <2>1. InMemory \ held \in SUBSET Env /\ "killed" \in Causes
    BY MemTyped DEF Causes
  <2>2. Lose("killed", InMemory \ held)
    BY <1>2 DEF held
  <2> QED
    BY <2>1, <2>2, LoseGrows
<1>7. \A e \in InMemory : e \in LostEnvs' \/ \E f \in Range(spool') : e \in Held(f)
  BY <1>4, <1>5, <1>6
<1>8. left \in Seq(Records)
  <2>1. <<>> \in Seq(Records) /\ \A f \in Records : <<f>> \in Seq(Records)
    OBVIOUS
  <2> QED
    BY <1>3, <2>1
<1> QED
  BY <1>1, <1>2, <1>3, <1>4, <1>6, <1>7, <1>8

(* list() removes a file that it could decode only with its envelopes.     *)
LEMMA ReadLoses ==
    ASSUME BatchType, ReadNext
    PROVE  /\ lost' \in [Causes -> SUBSET Env] /\ LostEnvs \subseteq LostEnvs'
           /\ \/ spool' = spool
              \/ spool' = Without(spool, Head(unread)) /\ Held(Head(unread)) \subseteq LostEnvs'
<1> DEFINE f == Head(unread)
<1>1. f \in Records
  BY RangeOf DEF ReadNext, BatchType
<1>2. Held(f) \in SUBSET Env /\ "unreadable" \in Causes
  BY <1>1, HeldIs DEF Causes
<1>3. \/ spool' = spool /\ lost' = lost
      \/ spool' = Without(spool, f) /\ Lose("unreadable", Held(f))
  BY DEF ReadNext
<1> HIDE DEF f
<1>4. CASE spool' = spool /\ lost' = lost
  BY <1>4 DEF BatchType, LostEnvs
<1>5. CASE spool' = Without(spool, f) /\ Lose("unreadable", Held(f))
  <2>1. lost' \in [Causes -> SUBSET Env] /\ LostEnvs' = LostEnvs \union Held(f)
    BY <1>2, <1>5, LoseGrows
  <2> QED
    BY <1>5, <2>1 DEF f
<1> QED
  BY <1>3, <1>4, <1>5

-------------------------------------------------------------------------------
LEMMA BatchTypeStep ==
    ASSUME BatchType, BatchShape, [Next]_vars
    PROVE  BatchType'
<1>0. /\ ingress \in Seq(Env) /\ spool \in Seq(Records) /\ parts \in [Keys -> Seq(Env)] /\ recs \in Seq(Records)
      /\ unread \in Seq(Records) /\ sent \in [Env -> {"idle", "closed", "full", "accepted"}] /\ redo \in Nat
      /\ failed \subseteq Records
  BY DEF BatchType
<1>01. <<>> \in Seq(Records) /\ <<>> \in Seq(Env)
  OBVIOUS
<1>1. CASE New \/ Shutdown \/ DropSink \/ BeginDrain \/ FlushAged \/ UNCHANGED vars
  <2>1. UNCHANGED <<load, sent, ingress, parts, unread, recs, spool, failed, batch, stored, redo, lost>>
    BY <1>1 DEF New, Shutdown, DropSink, BeginDrain, FlushAged, vars, bufVars, workVars, diskVars, backVars, callVars
  <2> QED
    BY <2>1 DEF BatchType
<1>2. CASE \E e \in Env : Deliver(e)
  <2>1. PICK e \in Env : Deliver(e)
    BY <1>2
  <2>2. ingress' \in Seq(Env) /\ sent' \in [Env -> {"idle", "closed", "full", "accepted"}]
    <3>1. Append(ingress, e) \in Seq(Env)
      BY <1>0, RangeOf
    <3> QED
      BY <1>0, <2>1, <3>1 DEF Deliver
  <2>3. UNCHANGED <<load, parts, unread, recs, spool, failed, batch, stored, redo, lost>>
    BY <2>1 DEF Deliver, workVars, diskVars, backVars
  <2> QED
    BY <2>2, <2>3 DEF BatchType
<1>3. CASE Admit
  <2>1. PICK e \in Env, k \in Keys, full \in Seq(Env) :
             /\ ingress # <<>> /\ ingress' = Tail(ingress)
             /\ lost' \in [Causes -> SUBSET Env]
             /\ \/ UNCHANGED <<parts, batch>>
                \/ /\ batch' = [Fresh(k, "encode") EXCEPT !.envs = full]
                   /\ parts' = [parts EXCEPT ![k] = <<>>]
                \/ parts' = [parts EXCEPT ![k] = full] /\ UNCHANGED batch
    BY <1>3, AdmitEffect
  <2>2. ingress' \in Seq(Env)
    BY <1>0, <2>1, RangeOf
  <2>3. parts' \in [Keys -> Seq(Env)]
    BY <1>0, <1>01, <2>1
  <2>4. batch' \in Batches \union {NoBatch}
    <3>1. [Fresh(k, "encode") EXCEPT !.envs = full]
            = [stage |-> "encode", key |-> k, envs |-> full, attempt |-> 0, file |-> <<>>]
      BY DEF Fresh
    <3>2. [Fresh(k, "encode") EXCEPT !.envs = full] \in Batches
      BY <3>1, FreshTyped
    <3> QED
      BY <2>1, <3>2 DEF BatchType
  <2>5. UNCHANGED <<load, sent, unread, recs, spool, failed, stored, redo>>
    BY <1>3 DEF Admit, diskVars, backVars, callVars
  <2> QED
    BY <2>1, <2>2, <2>3, <2>4, <2>5 DEF BatchType
<1>4. CASE \E k \in Keys : FlushNext(k) \/ DrainNext(k)
  <2>1. PICK k \in Keys : FlushNext(k) \/ DrainNext(k)
    BY <1>4
  <2> QED
    BY <2>1, TakeIs DEF BatchType
<1>5. CASE RetryTick
  <2>1. unread' = spool /\ UNCHANGED <<load, sent, ingress, parts, recs, spool, failed, batch, stored, redo, lost>>
    BY <1>5 DEF RetryTick, bufVars, diskVars, backVars, callVars
  <2> QED
    BY <2>1 DEF BatchType
<1>6. CASE ReadNext
  <2>1. Head(unread) \in Records /\ Tail(unread) \in Seq(Records)
    BY <1>0, <1>6, RangeOf DEF ReadNext
  <2>2. Append(recs, Head(unread)) \in Seq(Records)
    BY <1>0, <2>1, RangeOf
  <2>3. Without(spool, Head(unread)) \in Seq(Records)
    BY <1>0, WithoutIs
  <2>4. unread' \in Seq(Records) /\ recs' \in Seq(Records) /\ spool' \in Seq(Records)
    BY <1>0, <1>6, <2>1, <2>2, <2>3 DEF ReadNext
  <2>5. UNCHANGED <<load, sent, ingress, parts, failed, batch, stored, redo>>
    BY <1>6 DEF ReadNext, bufVars, callVars
  <2>6. lost' \in [Causes -> SUBSET Env]
    BY <1>6, ReadLoses DEF BatchType
  <2> QED
    BY <2>4, <2>5, <2>6 DEF BatchType
<1>7. CASE ReshipNext
  <2>1. PICK f \in Records :
           /\ recs' \in Seq(Records)
           /\ spool' = spool \/ spool' = Without(spool, f)
           /\ batch' \in Batches \union {NoBatch}
           /\ UNCHANGED <<load, sent, ingress, parts, unread, failed, stored, redo, lost>>
    BY <1>7, ReshipIs
  <2>2. spool' \in Seq(Records)
    BY <1>0, <2>1, WithoutIs
  <2> QED
    BY <2>1, <2>2 DEF BatchType
<1>8. CASE Encode \/ UploadFatal \/ (\E applied \in BOOLEAN : UploadRetry(applied))
  <2>1. batch \in Batches /\ batch' \in Batches /\ UNCHANGED <<load, sent, ingress, parts, unread, recs, spool, failed, lost>>
    BY <1>8, MoveIs
  <2>2. stored' \in [Keys -> [Env -> Nat]] /\ redo' \in Nat
    <3>1. Store => stored' \in [Keys -> [Env -> Nat]]
      BY <2>1, StoreEffect
    <3>2. stored \in [Keys -> [Env -> Nat]]
      BY DEF BatchType
    <3>3. (Store \/ stored' = stored) /\ (redo' = redo \/ redo' = redo + 1)
      BY <1>8 DEF Encode, UploadFatal, UploadRetry
    <3>4. redo' \in Nat
      <4>1. redo \in Nat
        BY <1>0
      <4> QED
        BY ONLY <3>3, <4>1
    <3> QED
      BY <3>1, <3>2, <3>3, <3>4
  <2> QED
    BY <2>1, <2>2 DEF BatchType
<1>9. CASE UploadOk
  BY <1>9, UploadOkIs, StoreEffect DEF BatchType
<1>10. CASE WriteOk \/ WriteFails \/ WriteUnevicted
  BY <1>10, SpoolIs DEF BatchType
<1>11. CASE RemoveShipped
  <2>1. spool' = spool \/ spool' = Without(spool, batch.file[1])
    BY <1>11 DEF RemoveShipped
  <2>2. spool' \in Seq(Records)
    BY <1>0, <2>1, WithoutIs
  <2>3. redo' \in Nat
    BY <1>0, <1>11 DEF RemoveShipped
  <2>4. batch' = NoBatch /\ UNCHANGED <<load, sent, ingress, parts, unread, recs, failed, stored, lost>>
    BY <1>11 DEF RemoveShipped, bufVars, callVars
  <2> QED
    BY <2>2, <2>3, <2>4 DEF BatchType
<1>12. CASE \E old \in BOOLEAN : EscalateIfStuck(old)
  <2>1. PICK old \in BOOLEAN : EscalateIfStuck(old)
    BY <1>12
  <2>2. batch.stage \in {"fatal", "exhausted"} /\ {"fatal", "exhausted"} \subseteq Stages
    BY <2>1 DEF EscalateIfStuck, Stages
  <2>3. Busy /\ ~IsFresh
    BY <2>2, StageMeansBusy DEF BatchShape
  <2>4. batch.file[1] \in Records
    BY <2>3, FileOf
  <2>5. spool' \in Seq(Records) /\ failed' \subseteq Records
    <3>1. Without(spool, batch.file[1]) \in Seq(Records)
      BY <1>0, WithoutIs
    <3> QED
      BY <1>0, <2>1, <2>4, <3>1 DEF EscalateIfStuck, diskVars
  <2>6. batch' = NoBatch /\ UNCHANGED <<load, sent, ingress, parts, unread, recs, stored, redo, lost>>
    BY <2>1 DEF EscalateIfStuck, bufVars, backVars, callVars
  <2> QED
    BY <2>5, <2>6 DEF BatchType
<1>13. CASE WorkerExit
  <2>1. Range(ingress) \in SUBSET Env /\ "stopped" \in Causes
    BY <1>0, RangeOf DEF Causes
  <2>2. lost' \in [Causes -> SUBSET Env]
    BY <1>13, <2>1, LoseGrows DEF WorkerExit
  <2>3. ingress' = <<>> /\ UNCHANGED <<load, sent, parts, unread, recs, spool, failed, batch, stored, redo>>
    BY <1>13 DEF WorkerExit, workVars, diskVars, backVars, callVars
  <2> QED
    BY <1>01, <2>2, <2>3 DEF BatchType
<1>14. CASE Kill
  <2>1. redo' \in Nat
    BY <1>0, <1>14 DEF Kill
  <2>2. parts' \in [Keys -> Seq(Env)]
    BY <1>01, <1>14, KillIs
  <2> QED
    BY <1>01, <1>14, <2>1, <2>2, KillIs DEF BatchType
<1> QED
  BY <1>1, <1>2, <1>3, <1>4, <1>5, <1>6, <1>7, <1>8, <1>9, <1>10, <1>11, <1>12, <1>13, <1>14 DEF Next, WorkerStep

(* No step lets go of an accepted envelope: what leaves the process's      *)
(* memory is kept, stored or lost for a named cause, and stays so.         *)
LEMMA AccountKept ==
    ASSUME BatchInv, BatchType', BatchShape', sent' = sent,
           Busy' /\ batch'.stage = "remove" => Range(batch'.envs) \subseteq StoredEnvs',
           \A e \in Range(ingress) : e \in InMemory' \union Safe',
           \A k \in Keys : \A e \in Range(parts[k]) : e \in InMemory' \union Safe',
           \A e \in InFresh : e \in InMemory' \union Safe',
           StoredEnvs \subseteq StoredEnvs', LostEnvs \subseteq LostEnvs',
           \A f \in Range(spool) \union failed :
              f \in Range(spool') \union failed' \/ Held(f) \subseteq Safe'
    PROVE  BatchInv'
<1>1. InMemory \subseteq InMemory' \union Safe'
  BY MemIs DEF BatchInv
<1>2. Kept \subseteq Safe'
  BY KeptIs DEF Safe
<1>3. Safe \subseteq Safe'
  BY <1>2 DEF Safe
<1>4. \A e \in Env : sent'[e] = "accepted" => e \in InMemory' \union Safe'
  BY <1>1, <1>3 DEF BatchInv
<1> QED
  BY <1>4 DEF BatchInv

LEMMA BatchStart == ASSUME Init PROVE BatchInv
<1>1. NoBatch.stage \notin Stages /\ ~Busy
  BY DEF Init, NoBatch, Stages, Busy
<1>2. BatchType
  <2>1. <<>> \in Seq(Records) /\ <<>> \in Seq(Env) /\ load \in [Env -> [key : Keys, size : Nat \ {0}]]
    BY BatchAssumption DEF Init
  <2> QED
    BY <2>1 DEF Init, BatchType
<1>3. BatchShape
  BY <1>1 DEF BatchShape, Again
<1> QED
  BY <1>1, <1>2, <1>3 DEF BatchInv, Init

LEMMA BatchStep ==
    ASSUME BatchInv, [Next]_vars
    PROVE  BatchInv'
<1>0. BatchType /\ BatchShape /\ BatchType'
  BY BatchTypeStep DEF BatchInv
<1>01. /\ ingress \in Seq(Env) /\ spool \in Seq(Records) /\ parts \in [Keys -> Seq(Env)] /\ recs \in Seq(Records)
       /\ unread \in Seq(Records) /\ stored \in [Keys -> [Env -> Nat]]
  BY <1>0 DEF BatchType
<1>02. ~(NoBatch # NoBatch)
  OBVIOUS
<1>03. batch' = NoBatch => ~Busy' /\ BatchShape' /\ InFresh' = {}
  BY DEF Busy, BatchShape, Again, InFresh, FirstTry
<1>04. \A e : e \in InMemory' <=>
          e \in Range(ingress') \/ (\E k \in Keys : e \in Range(parts'[k])) \/ e \in InFresh'
  BY <1>0, MemIs
<1>05. stored' = stored => StoredEnvs' = StoredEnvs
  BY DEF StoredEnvs
<1>06. lost' = lost => LostEnvs' = LostEnvs
  BY DEF LostEnvs
<1>07. batch' = batch => /\ Busy' = Busy /\ BatchShape' /\ InFresh' = InFresh
                         /\ batch'.stage = batch.stage /\ batch'.envs = batch.envs
  BY <1>0 DEF Busy, BatchShape, Again, InFresh, FirstTry, IsFresh, Held
<1>08. Busy /\ batch.stage = "remove" => Range(batch.envs) \subseteq StoredEnvs
  BY DEF BatchInv
<1>1. CASE New \/ Shutdown \/ DropSink \/ BeginDrain \/ FlushAged \/ RetryTick \/ UNCHANGED vars
  <2>1. UNCHANGED <<sent, ingress, parts, spool, failed, batch, stored, lost>>
    BY <1>1 DEF New, Shutdown, DropSink, BeginDrain, FlushAged, RetryTick, vars, bufVars, workVars, diskVars,
                backVars, callVars
  <2> QED
    BY <1>0, <1>04, <1>05, <1>06, <1>07, <1>08, <2>1, AccountKept
<1>2. CASE \E e \in Env : Deliver(e)
  <2>1. PICK e \in Env : Deliver(e)
    BY <1>2
  <2>2. UNCHANGED <<parts, spool, failed, batch, stored, lost>>
    BY <2>1 DEF Deliver, diskVars, backVars, workVars
  <2>3. /\ \A g \in Env : g # e => sent'[g] = sent[g]
        /\ (ingress' = ingress /\ sent'[e] # "accepted") \/ ingress' = Append(ingress, e)
    BY <1>0, <2>1 DEF Deliver, BatchType
  <2>4. Range(Append(ingress, e)) = Range(ingress) \union {e}
    BY <1>01, RangeOf
  <2>5. \A g : g \in InMemory => g \in InMemory'
    BY <1>0, <1>04, <1>07, <2>2, <2>3, <2>4, MemIs
  <2>6. Safe' = Safe
    BY <2>2 DEF Safe, Kept, StoredEnvs, LostEnvs, Held
  <2>7. \A g \in Env : sent'[g] = "accepted" => g \in InMemory' \union Safe'
    BY <1>04, <2>3, <2>4, <2>5, <2>6 DEF BatchInv
  <2> QED
    BY <1>0, <1>05, <1>07, <1>08, <2>2, <2>7 DEF BatchInv
<1>3. CASE Admit
  <2>1. PICK e \in Env, k \in Keys, full \in Seq(Env), gone \in SUBSET Env :
             /\ ingress # <<>> /\ e = Head(ingress) /\ ingress' = Tail(ingress)
             /\ LostEnvs' = LostEnvs \union gone
             /\ \/ gone = {e} /\ UNCHANGED <<parts, batch>>
                \/ /\ Range(parts[k]) \union {e} \subseteq Range(full) \union gone
                   /\ \/ /\ batch' = [Fresh(k, "encode") EXCEPT !.envs = full]
                         /\ parts' = [parts EXCEPT ![k] = <<>>]
                      \/ parts' = [parts EXCEPT ![k] = full] /\ UNCHANGED batch
    BY <1>0, <1>3, AdmitEffect
  <2>2. batch = NoBatch /\ UNCHANGED <<sent, spool, failed, stored>>
    BY <1>3 DEF Admit, AtSelect, diskVars, backVars, callVars
  <2>3. Range(ingress) = {e} \union Range(ingress')
    BY <1>01, <2>1, RangeOf
  <2>4. InFresh = {}
    BY <2>2 DEF InFresh, FirstTry, Busy
  <2>5. gone \subseteq Safe'
    BY <2>1 DEF Safe
  <2>6. CASE UNCHANGED <<parts, batch>> /\ gone = {e}
    BY <1>0, <1>04, <1>05, <1>07, <1>08, <2>1, <2>2, <2>3, <2>4, <2>5, <2>6, AccountKept
  <2>7. CASE parts' = [parts EXCEPT ![k] = full] /\ UNCHANGED batch
             /\ Range(parts[k]) \union {e} \subseteq Range(full) \union gone
    <3>1. parts'[k] = full /\ \A j \in Keys : j # k => parts'[j] = parts[j]
      BY <1>01, <2>7
    <3>2. \A j \in Keys : \A x \in Range(parts[j]) : x \in InMemory' \union Safe'
      BY <1>04, <2>5, <2>7, <3>1
    <3>3. \A x \in Range(ingress) : x \in InMemory' \union Safe'
      BY <1>04, <2>3, <2>5, <2>7, <3>1
    <3> QED
      BY <1>0, <1>05, <1>07, <1>08, <2>1, <2>2, <2>4, <2>7, <3>2, <3>3, AccountKept
  <2>8. CASE /\ batch' = [Fresh(k, "encode") EXCEPT !.envs = full] /\ parts' = [parts EXCEPT ![k] = <<>>]
             /\ Range(parts[k]) \union {e} \subseteq Range(full) \union gone
    <3>0. [Fresh(k, "encode") EXCEPT !.envs = full]
            = [stage |-> "encode", key |-> k, envs |-> full, attempt |-> 0, file |-> <<>>]
      BY DEF Fresh
    <3>1. batch' \in Batches /\ batch'.envs = full /\ batch'.file = <<>> /\ batch'.stage = "encode"
      BY <2>8, <3>0, FreshTyped
    <3>2. Busy' /\ BatchShape' /\ InFresh' = Range(full)
      BY <3>1, BatchFields DEF Busy, BatchShape, Again, InFresh, FirstTry, IsFresh
    <3>3. \A j \in Keys : j # k => parts'[j] = parts[j]
      BY <1>01, <2>8
    <3>4. \A j \in Keys : \A x \in Range(parts[j]) : x \in InMemory' \union Safe'
      BY <1>04, <2>5, <2>8, <3>2, <3>3
    <3>5. \A x \in Range(ingress) : x \in InMemory' \union Safe'
      BY <1>04, <2>3, <2>5, <2>8, <3>2
    <3> QED
      BY <1>0, <1>05, <2>1, <2>2, <2>4, <3>1, <3>2, <3>4, <3>5, AccountKept
  <2> QED
    BY <2>1, <2>6, <2>7, <2>8
<1>4. CASE \E k \in Keys : FlushNext(k) \/ DrainNext(k)
  <2>1. PICK k \in Keys : FlushNext(k) \/ DrainNext(k)
    BY <1>4
  <2>2. /\ batch = NoBatch /\ batch' \in Batches
        /\ batch'.envs = parts[k] /\ batch'.file = <<>> /\ batch'.stage \in {"encode", "spool"}
        /\ parts' = [parts EXCEPT ![k] = <<>>]
        /\ UNCHANGED <<sent, ingress, spool, failed, stored, lost>>
    BY <1>0, <2>1, TakeIs
  <2>3. Busy' /\ BatchShape' /\ InFresh' = Range(parts[k])
    BY <2>2, BatchFields DEF Busy, BatchShape, Again, InFresh, FirstTry, IsFresh
  <2>4. \A j \in Keys : j # k => parts'[j] = parts[j]
    BY <1>01, <2>2
  <2>5. InFresh = {}
    BY <2>2 DEF InFresh, FirstTry, Busy
  <2>6. \A j \in Keys : \A x \in Range(parts[j]) : x \in InMemory'
    BY <1>04, <2>3, <2>4
  <2>7. \A x \in Range(ingress) : x \in InMemory'
    BY <1>04, <2>2
  <2> QED
    BY <1>0, <1>05, <1>06, <2>2, <2>3, <2>5, <2>6, <2>7, AccountKept
<1>5. CASE ReadNext
  <2>1. UNCHANGED <<sent, ingress, parts, failed, batch, stored>>
    BY <1>5 DEF ReadNext, bufVars, callVars
  <2>2. /\ LostEnvs \subseteq LostEnvs'
        /\ \/ spool' = spool
           \/ spool' = Without(spool, Head(unread)) /\ Held(Head(unread)) \subseteq LostEnvs'
    BY <1>0, <1>5, ReadLoses
  <2>3. \A f \in Range(spool) : f \in Range(spool') \/ Held(f) \subseteq Safe'
    <3> SUFFICES ASSUME NEW f \in Range(spool), f \notin Range(spool') PROVE Held(f) \subseteq Safe'
      OBVIOUS
    <3>1. spool' = Without(spool, Head(unread)) /\ Held(Head(unread)) \subseteq LostEnvs'
      BY <2>2
    <3>2. f = Head(unread)
      BY <1>01, <3>1, WithoutIs
    <3>3. LostEnvs' \subseteq Safe'
      BY DEF Safe
    <3>4. Held(f) = Held(Head(unread))
      BY <3>2
    <3> QED
      BY <3>1, <3>3, <3>4
  <2> QED
    BY <1>0, <1>04, <1>05, <1>07, <1>08, <2>1, <2>2, <2>3, AccountKept
<1>6. CASE ReshipNext
  <2>1. PICK f \in Records :
             /\ batch = NoBatch
             /\ \/ Held(f) = {} /\ spool' = Without(spool, f) /\ batch' = NoBatch
                \/ spool' = spool /\ batch' = NoBatch
                \/ /\ spool' = spool /\ batch' \in Batches /\ batch'.stage = "encode" /\ batch'.file = <<f>>
                   /\ batch'.envs = SubSeq(f.envs, 1, f.n)
             /\ UNCHANGED <<sent, ingress, parts, failed, stored, lost>>
    BY <1>0, <1>6, ReshipIs
  <2>2. \A g \in Range(spool) : g \in Range(spool') \/ Held(g) = {}
    BY <1>01, <2>1, WithoutIs
  <2>3. BatchShape' /\ InFresh' = {} /\ ~(Busy' /\ batch'.stage = "remove")
    <3>1. CASE batch' = NoBatch
      BY <1>03, <3>1
    <3>2. CASE batch' \in Batches /\ batch'.stage = "encode" /\ batch'.file = <<f>>
               /\ batch'.envs = SubSeq(f.envs, 1, f.n)
      <4>1. Held(f) \subseteq Range(batch'.envs)
        BY <3>2, HeldIs DEF Held
      <4>2. batch'.file # <<>> /\ batch'.file[1] = f
        BY <3>2
      <4> QED
        <5>1. ~(IsFresh') /\ ~(FirstTry') /\ Held(batch.file[1])' = Held(f)
          BY <4>2 DEF IsFresh, FirstTry, Held
        <5>2. batch'.stage # "remove" /\ batch'.stage # "fatal" /\ batch'.stage # "exhausted"
          BY <3>2
        <5>3. BatchShape'
          BY <4>1, <5>1, <5>2 DEF BatchShape
        <5> QED
          BY <5>1, <5>2, <5>3 DEF InFresh
    <3> QED
      BY <2>1, <3>1, <3>2
  <2>4. InFresh = {}
    BY <2>1 DEF InFresh, FirstTry, Busy
  <2> QED
    BY <1>0, <1>04, <1>05, <1>06, <2>1, <2>2, <2>3, <2>4, AccountKept
<1>7. CASE Encode \/ UploadFatal \/ (\E applied \in BOOLEAN : UploadRetry(applied))
  <2>1. /\ Busy /\ batch \in Batches /\ batch' \in Batches
        /\ batch'.envs = batch.envs /\ batch'.file = batch.file
        /\ batch'.stage \in {"fatal", "exhausted"} => ~IsFresh
        /\ batch'.stage # "remove"
        /\ UNCHANGED <<sent, ingress, parts, spool, failed, lost>>
    BY <1>0, <1>7, MoveIs
  <2>2. Busy' /\ BatchShape' /\ InFresh' = InFresh
    BY <1>0, <2>1, BatchFields DEF Busy, BatchShape, Again, InFresh, FirstTry, IsFresh, Held
  <2>3. StoredEnvs \subseteq StoredEnvs'
    <3>1. CASE Store
      <4>1. \A k \in Keys, e \in Env : stored[k][e] > 0 => stored'[k][e] > 0
        <5>1. \A k \in Keys, e \in Env : stored[k][e] \in Nat
          BY <1>01
        <5> QED
          BY <1>0, <2>1, <3>1, <5>1, StoreEffect
      <4> QED
        BY <4>1 DEF StoredEnvs
    <3>2. CASE stored' = stored
      BY <1>05, <3>2
    <3> QED
      BY <1>7, <3>1, <3>2 DEF Encode, UploadFatal, UploadRetry
  <2> QED
    BY <1>0, <1>04, <1>06, <2>1, <2>2, <2>3, AccountKept
<1>8. CASE UploadOk
  <2>1. /\ batch \in Batches /\ Store
        /\ \/ IsFresh /\ batch' = NoBatch
           \/ /\ ~IsFresh /\ batch' \in Batches /\ batch'.stage = "remove"
              /\ batch'.envs = batch.envs /\ batch'.file = batch.file
        /\ UNCHANGED <<sent, ingress, parts, spool, failed, lost>>
    BY <1>0, <1>8, UploadOkIs
  <2>2. batch.key \in Keys /\ Range(batch.envs) \subseteq Env /\ Busy
    BY <2>1, BatchFields, RangeOf DEF Busy
  <2>3. \A k \in Keys, e \in Env : stored[k][e] \in Nat
    BY <1>01
  <2>4. \A k \in Keys, e \in Env :
           stored'[k][e] = stored[k][e] + (IF k = batch.key /\ e \in Range(batch.envs) THEN 1 ELSE 0)
    BY <1>0, <2>1, StoreEffect
  <2>5. StoredEnvs \subseteq StoredEnvs'
    BY <2>3, <2>4 DEF StoredEnvs
  <2>6. Range(batch.envs) \subseteq StoredEnvs'
    <3>1. \A e \in Range(batch.envs) : stored'[batch.key][e] > 0
      BY <2>2, <2>3, <2>4
    <3> QED
      BY <2>2, <3>1 DEF StoredEnvs
  <2>7. BatchShape' /\ (Busy' /\ batch'.stage = "remove" => Range(batch'.envs) \subseteq StoredEnvs')
    BY <1>0, <1>03, <2>1, <2>2, <2>6 DEF Busy, BatchShape, Again, IsFresh, Held
  <2>8. \A e \in InFresh : e \in Safe'
    BY <2>6 DEF InFresh, Safe
  <2> QED
    BY <1>0, <1>04, <1>06, <2>1, <2>5, <2>7, <2>8, AccountKept
<1>9. CASE WriteOk \/ WriteFails \/ WriteUnevicted
  <2>1. /\ batch' = NoBatch /\ LostEnvs \subseteq LostEnvs'
        /\ \A e \in Range(batch.envs) : e \in LostEnvs' \/ \E f \in Range(spool') : e \in Held(f)
        /\ \A f \in Range(spool) : f \in Range(spool') \/ Held(f) \subseteq LostEnvs'
        /\ UNCHANGED <<sent, ingress, parts, failed, stored>>
    BY <1>0, <1>9, SpoolIs
  <2>2. \A e \in InFresh : e \in Safe'
    BY <2>1, KeptIs DEF InFresh, Safe
  <2>3. LostEnvs' \subseteq Safe'
    BY DEF Safe
  <2> QED
    BY <1>0, <1>03, <1>04, <1>05, <2>1, <2>2, <2>3, AccountKept
<1>10. CASE RemoveShipped
  <2>1. batch.stage = "remove" /\ "remove" \in Stages
    BY <1>10 DEF RemoveShipped, Stages
  <2>2. Busy /\ ~IsFresh
    BY <1>0, <2>1, StageMeansBusy DEF BatchShape
  <2>3. Held(batch.file[1]) \subseteq StoredEnvs /\ InFresh = {}
    BY <1>0, <1>08, <2>1, <2>2 DEF BatchShape, Again, InFresh, FirstTry
  <2>4. batch' = NoBatch /\ UNCHANGED <<sent, ingress, parts, failed, stored, lost>>
    BY <1>10 DEF RemoveShipped, bufVars, callVars
  <2>5. spool' = spool \/ spool' = Without(spool, batch.file[1])
    BY <1>10 DEF RemoveShipped
  <2>6. \A f \in Range(spool) : f \in Range(spool') \/ Held(f) \subseteq Safe'
    BY <1>01, <1>05, <2>3, <2>4, <2>5, WithoutIs DEF Safe
  <2> QED
    BY <1>0, <1>03, <1>04, <1>05, <1>06, <2>3, <2>4, <2>6, AccountKept
<1>11. CASE \E old \in BOOLEAN : EscalateIfStuck(old)
  <2>1. PICK old \in BOOLEAN : EscalateIfStuck(old)
    BY <1>11
  <2>2. batch.stage \in {"fatal", "exhausted"} /\ {"fatal", "exhausted"} \subseteq Stages
    BY <2>1 DEF EscalateIfStuck, Stages
  <2>3. Busy /\ ~IsFresh
    BY <1>0, <2>2, StageMeansBusy DEF BatchShape
  <2>4. InFresh = {}
    BY <2>3 DEF InFresh, FirstTry
  <2>5. batch' = NoBatch /\ UNCHANGED <<sent, ingress, parts, stored, lost>>
    BY <2>1 DEF EscalateIfStuck, bufVars, backVars, callVars
  <2>6. \/ spool' = Without(spool, batch.file[1]) /\ failed' = failed \union {batch.file[1]}
        \/ spool' = spool /\ failed' = failed
    BY <2>1 DEF EscalateIfStuck, diskVars
  <2>7. \A f \in Range(spool) \union failed : f \in Range(spool') \union failed'
    BY <1>01, <2>6, WithoutIs
  <2> QED
    BY <1>0, <1>03, <1>04, <1>05, <1>06, <2>4, <2>5, <2>7, AccountKept
<1>12. CASE WorkerExit
  <2>1. Range(ingress) \in SUBSET Env /\ "stopped" \in Causes
    BY <1>01, RangeOf DEF Causes
  <2>2. LostEnvs' = LostEnvs \union Range(ingress)
    BY <1>0, <1>12, <2>1, LoseGrows DEF WorkerExit
  <2>3. UNCHANGED <<sent, parts, spool, failed, batch, stored>>
    BY <1>12 DEF WorkerExit, workVars, diskVars, backVars, callVars
  <2>4. \A e \in Range(ingress) : e \in Safe'
    BY <2>2 DEF Safe
  <2> QED
    BY <1>0, <1>04, <1>05, <1>07, <1>08, <2>2, <2>3, <2>4, AccountKept
<1>13. CASE Kill
  <2>1. /\ batch' = NoBatch /\ LostEnvs \subseteq LostEnvs'
        /\ \A e \in InMemory : e \in LostEnvs' \/ \E f \in Range(spool') : e \in Held(f)
        /\ Range(spool) \subseteq Range(spool')
        /\ UNCHANGED <<sent, failed, stored>>
    BY <1>0, <1>13, KillIs
  <2>2. \A e \in InMemory : e \in Safe'
    BY <2>1, KeptIs DEF Safe
  <2>3. /\ \A e \in Range(ingress) : e \in Safe'
        /\ \A k \in Keys : \A e \in Range(parts[k]) : e \in Safe'
        /\ \A e \in InFresh : e \in Safe'
    BY <1>0, <2>2, MemIs
  <2> QED
    BY <1>0, <1>03, <1>05, <2>1, <2>3, AccountKept
<1> QED
  BY <1>1, <1>2, <1>3, <1>4, <1>5, <1>6, <1>7, <1>8, <1>9, <1>10, <1>11, <1>12, <1>13 DEF Next, WorkerStep

(* Every envelope deliver() accepted is in the channel, in a partition, in *)
(* the batch in work, readable in the spool or in failed/, stored, or lost *)
(* for one of the six named causes, through retries, failed writes,        *)
(* evictions, escalations, shutdowns, kills and restarts.                  *)
THEOREM AcceptedIsAccounted == Spec => []Accounted
<1>1. BatchInv => Accounted
  <2> SUFFICES ASSUME BatchInv, NEW e \in Env, sent[e] = "accepted"
               PROVE  \/ e \in Range(ingress) \/ e \in InBatch \/ e \in Kept
                      \/ \E k \in Keys : e \in Range(parts[k]) \/ stored[k][e] > 0
                      \/ \E c \in Causes : e \in lost[c]
    BY DEF Accounted
  <2>1. e \in InMemory \union Safe /\ BatchType
    BY DEF BatchInv
  <2>2. InFresh \subseteq InBatch
    <3>1. FirstTry => batch \in Batches
      BY <2>1 DEF FirstTry, Busy, BatchType
    <3> QED
      BY <3>1, BatchFields DEF InFresh, InBatch
  <2> QED
    BY <2>1, <2>2, MemIs DEF Safe, StoredEnvs, LostEnvs
<1>2. Init => BatchInv
  BY BatchStart
<1>3. BatchInv /\ [Next]_vars => BatchInv'
  BY BatchStep
<1> QED
  BY <1>1, <1>2, <1>3, PTL DEF Spec

-------------------------------------------------------------------------------
(* No two files of a list share an envelope, and none do after one leaves. *)
LEMMA ApartBy ==
    ASSUME NEW s, NEW w, NEW m, NEW n, NEW K, Apart(s), Len(s) = n, 1..Len(w) = K,
           \A i \in K : m[i] \in 1..n /\ w[i] = s[m[i]],
           \A i, j \in K : i # j => m[i] # m[j]
    PROVE  Apart(w)
BY DEF Apart

LEMMA ApartTail ==
    ASSUME NEW s, s \in Seq(Records), Apart(s), s # <<>>
    PROVE  Apart(Tail(s)) /\ \A g \in Range(Tail(s)) : Held(g) \intersect Held(Head(s)) = {}
<1> DEFINE n == Len(s)
           t == Tail(s)
           m == [i \in 1..(n - 1) |-> i + 1]
<1>1. n \in Nat
  OBVIOUS
<1>2. t \in Seq(Records) /\ Len(t) = n - 1 /\ Head(s) = s[1] /\ 1 \in 1..n
      /\ \A i \in 1..(n - 1) : t[i] = s[i + 1] /\ i + 1 \in 1..n
  BY TailIs
<1>3. Range(t) = {t[i] : i \in 1..Len(t)}
  BY <1>2, RangeOf
<1> HIDE DEF n, t
<1>4. (\A i \in 1..(n - 1) : m[i] = i + 1 /\ i + 1 # 1) /\ \A i, j \in 1..(n - 1) : i # j => m[i] # m[j]
  BY ONLY <1>1
<1> HIDE DEF m
<1>5. Apart(t)
  <2>1. Len(s) = n /\ \A i \in 1..(n - 1) : m[i] \in 1..n /\ t[i] = s[m[i]]
    BY <1>2, <1>4 DEF n
  <2>2. 1..Len(t) = 1..(n - 1)
    BY <1>2
  <2> DEFINE K == 1..(n - 1)
  <2>3. /\ Len(s) = n /\ 1..Len(t) = K /\ \A i \in K : m[i] \in 1..n /\ t[i] = s[m[i]]
        /\ \A i, j \in K : i # j => m[i] # m[j]
    BY <1>4, <2>1, <2>2
  <2> HIDE DEF K
  <2> QED
    BY ONLY <2>3, Apart(s), ApartBy
<1>6. \A g \in Range(t) : Held(g) \intersect Held(s[1]) = {}
  <2>1. \A i, j \in 1..n : i # j => Held(s[i]) \intersect Held(s[j]) = {}
    BY DEF Apart, n
  <2>2. Range(t) = {t[i] : i \in 1..(n - 1)}
    BY <1>2, <1>3
  <2>3. \A i \in 1..(n - 1) : t[i] = s[i + 1] /\ i + 1 \in 1..n /\ i + 1 # 1 /\ 1 \in 1..n
    BY <1>2, <1>4
  <2> QED
    BY ONLY <2>1, <2>2, <2>3
<1> QED
  BY <1>2, <1>5, <1>6 DEF t

LEMMA ApartAppend ==
    ASSUME NEW s, s \in Seq(Records), Apart(s), NEW f \in Records,
           \A g \in Range(s) : Held(g) \intersect Held(f) = {}
    PROVE  Apart(Append(s, f))
<1> DEFINE n == Len(s)
           t == Append(s, f)
<1>1. n \in Nat
  OBVIOUS
<1>2. t \in Seq(Records) /\ Len(t) = n + 1 /\ t[n + 1] = f /\ (\A i \in 1..n : t[i] = s[i])
      /\ \A i \in 1..(n + 1) : i = n + 1 \/ i \in 1..n
  BY AppendIs
<1>3. \A i \in 1..n : Held(s[i]) \intersect Held(f) = {}
  BY RangeOf
<1> HIDE DEF t
<1>4. ASSUME NEW i \in 1..(n + 1), NEW j \in 1..(n + 1), i # j
      PROVE  Held(t[i]) \intersect Held(t[j]) = {}
  BY <1>2, <1>3, <1>4 DEF Apart
<1> QED
  BY <1>2, <1>4 DEF Apart, t

LEMMA ApartWithout ==
    ASSUME NEW s, s \in Seq(Records), Apart(s), NEW f
    PROVE  /\ Apart(Without(s, f))
           /\ (\A g \in Range(s) : Held(g) \intersect Held(f) # {} => g = f) =>
                \A g \in Range(Without(s, f)) : Held(g) \intersect Held(f) = {}
<1>1. CASE f \notin Range(s) /\ Without(s, f) = s
  BY <1>1
<1>2. ASSUME NEW i \in 1..Len(s), s[i] = f, Without(s, f) = RemoveAt(s, i)
      PROVE  Apart(Without(s, f)) /\ \A g \in Range(Without(s, f)) : Held(g) \intersect Held(f) = {}
  <2> DEFINE n == Len(s)
             w == RemoveAt(s, i)
             m == [j \in 1..(n - 1) |-> IF j < i THEN j ELSE j + 1]
  <2>1. n \in Nat /\ i \in 1..n
    OBVIOUS
  <2>2. w \in Seq(Records) /\ Len(w) = n - 1 /\ \A j \in 1..(n - 1) : w[j] = s[IF j < i THEN j ELSE j + 1]
    BY RemoveAtKeeps
  <2>3. Range(w) = {w[j] : j \in 1..Len(w)}
    BY <2>2, RangeOf
  <2> HIDE DEF n, w
  <2>4. /\ \A j \in 1..(n - 1) : m[j] \in 1..n /\ m[j] # i /\ m[j] = (IF j < i THEN j ELSE j + 1)
        /\ \A j, k \in 1..(n - 1) : j # k => m[j] # m[k]
    BY ONLY <2>1
  <2> HIDE DEF m
  <2>5. \A j \in 1..(n - 1) : w[j] = s[m[j]]
    BY <2>2, <2>4
  <2>6. Apart(w)
    <3>1. Len(s) = n /\ \A j \in 1..(n - 1) : m[j] \in 1..n /\ w[j] = s[m[j]]
      BY <2>4, <2>5 DEF n
    <3> DEFINE K == 1..(n - 1)
    <3>2. /\ Len(s) = n /\ 1..Len(w) = K /\ \A j \in K : m[j] \in 1..n /\ w[j] = s[m[j]]
          /\ \A j, k \in K : j # k => m[j] # m[k]
      BY <2>2, <2>4, <3>1
    <3> HIDE DEF K
    <3> QED
      BY ONLY <3>2, Apart(s), ApartBy
  <2>7. \A g \in Range(w) : Held(g) \intersect Held(s[i]) = {}
    <3>1. \A j, k \in 1..n : j # k => Held(s[j]) \intersect Held(s[k]) = {}
      BY DEF Apart, n
    <3>2. Range(w) = {w[j] : j \in 1..(n - 1)}
      BY <2>2, <2>3
    <3>3. i \in 1..n /\ \A j \in 1..(n - 1) : m[j] \in 1..n /\ m[j] # i /\ w[j] = s[m[j]]
      BY <2>1, <2>4, <2>5
    <3> SUFFICES ASSUME NEW j \in 1..(n - 1) PROVE Held(w[j]) \intersect Held(s[i]) = {}
      BY <3>2
    <3> QED
      BY ONLY <3>1, <3>3, j \in 1..(n - 1)
  <2> QED
    BY <1>2, <2>6, <2>7 DEF w
<1> QED
  BY <1>1, <1>2, RemoveFirstIs DEF Without

LEMMA ApartCut ==
    ASSUME NEW s, s \in Seq(Records), Apart(s), NEW n, n \in 0..Len(s)
    PROVE  Apart(SubSeq(s, n + 1, Len(s))) /\ Range(SubSeq(s, n + 1, Len(s))) \subseteq Range(s)
<1> DEFINE q == Len(s)
           w == SubSeq(s, n + 1, q)
           m == [j \in 1..(q - n) |-> n + j]
<1>1. q \in Nat /\ n \in 0..q
  OBVIOUS
<1>2. w \in Seq(Records) /\ Len(w) = q - n /\ \A j \in 1..(q - n) : w[j] = s[n + j]
  BY CutIs
<1>4. Range(s) = {s[j] : j \in 1..q}
  BY RangeOf
<1> HIDE DEF q, w, m
<1>3. Range(w) = {w[j] : j \in 1..Len(w)}
  BY <1>2, RangeOf
<1> USE DEF m
<1>5. /\ \A j \in 1..(q - n) : m[j] \in 1..q /\ m[j] = n + j
      /\ \A j, k \in 1..(q - n) : j # k => m[j] # m[k]
  BY ONLY <1>1
<1> HIDE DEF m
<1>6. Apart(w)
  <2>1. Len(s) = q /\ \A j \in 1..(q - n) : m[j] \in 1..q /\ w[j] = s[m[j]]
    BY <1>2, <1>5 DEF q
  <2> DEFINE K == 1..(q - n)
  <2>2. /\ Len(s) = q /\ 1..Len(w) = K /\ \A j \in K : m[j] \in 1..q /\ w[j] = s[m[j]]
        /\ \A j, k \in K : j # k => m[j] # m[k]
    BY <1>2, <1>5, <2>1
  <2> HIDE DEF K
  <2> QED
    BY ONLY <2>2, Apart(s), ApartBy
<1>7. Range(w) \subseteq Range(s)
  BY ONLY <1>2, <1>3, <1>4, <1>5
<1> QED
  BY <1>6, <1>7 DEF w, q

LEMMA SpooledIs ==
    /\ BatchType =>
         /\ Spooled \subseteq Env
         /\ \A e : e \in OnSpool <=> \E f \in Range(spool) : e \in Held(f)
         /\ \A e : e \in Waiting <=> \E f \in Range(recs) \union Range(unread) : e \in Held(f)
    /\ BatchType' =>
         /\ Spooled' \subseteq Env
         /\ \A e : e \in OnSpool' <=> \E f \in Range(spool') : e \in Held(f)
         /\ \A e : e \in Waiting' <=> \E f \in Range(recs') \union Range(unread') : e \in Held(f)
<1>1. \A b \in Batches : Range(b.envs) \subseteq Env
  BY BatchFields, RangeOf
<1>2. BatchType => InAgain \subseteq Env
  BY <1>1 DEF InAgain, Again, Busy, BatchType
<1>3. BatchType' => InAgain' \subseteq Env
  BY <1>1 DEF InAgain, Again, Busy, BatchType
<1>4. BatchType => Range(spool) \union Range(recs) \union Range(unread) \subseteq Records
  BY RangeOf DEF BatchType
<1>5. BatchType' => Range(spool') \union Range(recs') \union Range(unread') \subseteq Records
  BY RangeOf DEF BatchType
<1>6. \A f \in Records : Held(f) \subseteq Env
  BY HeldIs
<1> QED
  BY <1>2, <1>3, <1>4, <1>5, <1>6 DEF Spooled, OnSpool, Waiting, Held

-------------------------------------------------------------------------------
Live == InMemory \union Spooled

(* A step that stores nothing and brings no envelope back keeps the counts. *)
LEMMA CountsKept ==
    ASSUME BatchType, BatchType', Counts, load' = load, stored' = stored, redo' = redo \/ redo' = redo + 1,
           \A e \in Env : sent'[e] = "idle" => sent[e] = "idle",
           \A e \in Live' : e \in Live \/ (sent[e] = "idle" /\ sent'[e] # "idle"),
           redo' = redo + 1 \/ \A e \in Shipped : e \in Shipped' \/ e \notin Live'
    PROVE  Counts'
<1>1. \A e \in Env : KeyOf(e)' = KeyOf(e) /\ KeyOf(e) \in Keys
  BY DEF KeyOf, BatchType
<1>2. redo \in Nat /\ \A k \in Keys, e \in Env : stored[k][e] \in Nat
  BY DEF BatchType
<1>3. Live' \subseteq Env /\ Live \subseteq Env
  BY MemTyped, SpooledIs DEF Live
<1>4. ASSUME NEW e \in Env, sent'[e] = "idle"
      PROVE  e \notin Live' /\ \A k \in Keys : stored'[k][e] = 0
  BY <1>4 DEF Counts, Live
<1>5. StoredOnce'
  <2> SUFFICES ASSUME NEW e \in Env, NEW k \in Keys
               PROVE  stored'[k][e] <= IF k = KeyOf(e)' THEN 1 + redo' ELSE 0
    BY DEF StoredOnce
  <2>1. stored[k][e] <= IF k = KeyOf(e) THEN 1 + redo ELSE 0
    BY DEF Counts, StoredOnce
  <2>2. stored[k][e] \in Nat /\ redo \in Nat /\ stored'[k][e] = stored[k][e] /\ KeyOf(e)' = KeyOf(e)
    BY <1>1, <1>2
  <2> QED
    BY ONLY <2>1, <2>2, redo' = redo \/ redo' = redo + 1
<1>6. ASSUME NEW e \in Live', e \notin Shipped'
      PROVE  stored'[KeyOf(e)'][e] <= redo'
  <2>1. e \in Env /\ KeyOf(e)' = KeyOf(e) /\ KeyOf(e) \in Keys
    BY <1>1, <1>3
  <2>2. stored[KeyOf(e)][e] \in Nat /\ stored'[KeyOf(e)][e] = stored[KeyOf(e)][e]
    BY <1>2, <2>1
  <2>3. CASE sent[e] = "idle"
    <3>1. stored[KeyOf(e)][e] = 0
      BY <2>1, <2>3 DEF Counts
    <3> QED
      BY <1>2, <2>1, <2>2, <3>1
  <2>4. CASE e \in Live /\ e \notin Shipped
    <3>1. stored[KeyOf(e)][e] <= redo
      BY <2>4 DEF Counts, Live
    <3> QED
      BY <1>2, <2>1, <2>2, <3>1
  <2>5. CASE redo' = redo + 1
    <3>1. stored[KeyOf(e)][e] <= 1 + redo
      BY <2>1 DEF Counts, StoredOnce
    <3> QED
      BY <1>2, <2>1, <2>2, <2>5, <3>1
  <2> QED
    BY <1>6, <2>3, <2>4, <2>5
<1>7. /\ \A e \in Env : sent'[e] = "idle" =>
            e \notin InMemory' \union Spooled' /\ \A k \in Keys : stored'[k][e] = 0
      /\ \A e \in (InMemory' \union Spooled') \ Shipped' : stored'[KeyOf(e)'][e] <= redo'
  BY <1>4, <1>6 DEF Live
<1> QED
  BY <1>5, <1>7 DEF Counts

(* The files of the spool, and of a tick's lists, only become fewer. *)
LEMMA RecordsKept ==
    ASSUME RecordShape, load' = load, Apart(spool'), Range(spool') \subseteq Range(spool),
           Apart(recs'), Apart(unread'),
           \A f \in Range(recs'), g \in Range(unread') : Held(f) \intersect Held(g) = {},
           \A f \in Range(recs') : ~f.torn,
           Range(recs') \union Range(unread') \subseteq Range(recs) \union Range(unread)
    PROVE  RecordShape' /\ \A f : Agrees(f) => \A g \in Range(spool') : Held(g) \intersect Held(f) # {} => g = f
<1>1. \A f : Agrees(f) => \A g \in Range(spool') : Held(g) \intersect Held(f) # {} => g = f
  BY DEF Agrees
<1>2. \A f \in Range(recs') \union Range(unread') :
         \A g \in Range(spool') : Held(g) \intersect Held(f) # {} => g = f
  BY <1>1 DEF RecordShape
<1>3. \A f \in Range(spool') \union Range(recs') \union Range(unread') :
         \A e, g \in Held(f) : KeyOf(e)' = KeyOf(g)'
  BY DEF RecordShape, OneKey, KeyOf
<1> QED
  BY <1>1, <1>2, <1>3 DEF RecordShape, Agrees, OneKey, Held

(* A step that moves nothing into or within memory. *)
LEMMA PlaceKept ==
    ASSUME BatchType, BatchType', OnePlace, IsInjective(ingress'), Range(ingress') \subseteq Range(ingress),
           \A k \in Keys : Range(parts'[k]) \subseteq Range(parts[k]),
           InFresh' \subseteq InFresh, \A e \in InMemory' : e \notin Spooled'
    PROVE  OnePlace' /\ InMemory' \subseteq InMemory
<1>1. InMemory' \subseteq InMemory
  BY MemIs
<1>2. \A k \in Keys : Range(parts'[k]) \intersect (Range(ingress') \union InFresh') = {}
  BY DEF OnePlace
<1>3. Range(ingress') \intersect InFresh' = {}
  BY DEF OnePlace
<1> QED
  BY <1>1, <1>2, <1>3 DEF OnePlace

(* The sets of envelopes do not change when what they are made of does not. *)
LEMMA SameBatch ==
    ASSUME batch' = batch
    PROVE  /\ Busy' = Busy /\ FirstTry' = FirstTry /\ Again' = Again /\ InFresh' = InFresh /\ InAgain' = InAgain
           /\ Shipped' = Shipped
BY DEF Busy, FirstTry, Again, IsFresh, InFresh, InAgain, Shipped

LEMMA NoBatchIs ==
    /\ batch = NoBatch => ~Busy /\ ~FirstTry /\ ~Again /\ InFresh = {} /\ InAgain = {} /\ Shipped = {}
    /\ batch' = NoBatch => ~Busy' /\ ~FirstTry' /\ ~Again' /\ InFresh' = {} /\ InAgain' = {} /\ Shipped' = {}
BY DEF Busy, FirstTry, Again, InFresh, InAgain, Shipped

LEMMA SameMemory ==
    ASSUME BatchType, BatchType', InFresh' = InFresh, UNCHANGED <<ingress, parts>>
    PROVE  InMemory' = InMemory
BY MemIs

LEMMA SameSpooled ==
    ASSUME InAgain' = InAgain, UNCHANGED <<spool, recs, unread>>
    PROVE  Spooled' = Spooled /\ OnSpool' = OnSpool /\ Waiting' = Waiting
BY DEF Spooled, OnSpool, Waiting, Held

LEMMA SameShape ==
    ASSUME UNCHANGED <<load, spool, recs, unread>>
    PROVE  (RecordShape => RecordShape') /\ \A f : Agrees(f)' <=> Agrees(f)
<1>1. \A f : Agrees(f)' <=> Agrees(f)
  BY DEF Agrees, Held
<1>2. ASSUME RecordShape PROVE RecordShape'
  <2>1. /\ Apart(spool') /\ Apart(recs') /\ Apart(unread')
        /\ \A f \in Range(recs'), g \in Range(unread') : Held(f) \intersect Held(g) = {}
        /\ \A f \in Range(recs') : ~f.torn
        /\ Range(spool') \subseteq Range(spool)
        /\ Range(recs') \union Range(unread') \subseteq Range(recs) \union Range(unread)
    BY <1>2 DEF RecordShape
  <2> QED
    BY <1>2, <2>1, RecordsKept
<1> QED
  BY <1>1, <1>2

-------------------------------------------------------------------------------
(* A batch in work and the lists of a tick stay as they are. *)
LEMMA SameWork ==
    ASSUME WorkShape, UNCHANGED <<load, batch, spool, recs, unread>>,
           todo' # {} \/ life' = "drain" => todo # {} \/ life = "drain" \/ (recs = <<>> /\ unread = <<>>)
    PROVE  WorkShape'
<1>1. Again' = Again /\ FirstTry' = FirstTry /\ InAgain' = InAgain
  BY SameBatch
<1>2. Waiting' = Waiting /\ \A f : Agrees(f)' <=> Agrees(f)
  BY <1>1, SameSpooled, SameShape
<1>3. Again => /\ batch'.key # NoKey /\ batch'.stage # "spool"
               /\ Range(batch'.envs) = Held(batch'.file[1])
               /\ \A g \in Range(spool') : Held(g) \intersect Held(batch'.file[1]) # {} => g = batch'.file[1]
               /\ Waiting' \intersect Range(batch'.envs) = {}
  BY <1>2 DEF WorkShape, Agrees
<1>4. FirstTry' \/ todo' # {} \/ life' = "drain" => recs' = <<>> /\ unread' = <<>>
  BY <1>1 DEF WorkShape
<1> QED
  BY <1>1, <1>3, <1>4 DEF WorkShape, Agrees, Held

LEMMA SameKeys ==
    ASSUME KeyShape, UNCHANGED <<load, parts, batch>>
    PROVE  KeyShape'
<1>1. Busy' = Busy /\ \A e : KeyOf(e)' = KeyOf(e)
  BY SameBatch DEF KeyOf
<1> QED
  BY <1>1 DEF KeyShape, KeyOf

LEMMA OnceQuiet ==
    ASSUME OnceInv, BatchType',
           New \/ Shutdown \/ DropSink \/ BeginDrain \/ FlushAged \/ UNCHANGED vars
    PROVE  OnceShape'
<1>0. BatchType
  BY DEF OnceInv, BatchInv
<1>1. UNCHANGED <<load, sent, ingress, parts, batch, spool, recs, unread, stored, redo>>
  BY DEF New, Shutdown, DropSink, BeginDrain, FlushAged, vars, bufVars, workVars, diskVars, backVars, callVars
<1>2. todo' # {} \/ life' = "drain" => todo # {} \/ life = "drain" \/ (recs = <<>> /\ unread = <<>>)
  BY DEF New, Shutdown, DropSink, BeginDrain, FlushAged, vars, workVars, AtSelect, Quiet
<1>3. InFresh' = InFresh /\ InAgain' = InAgain /\ Shipped' = Shipped
  BY <1>1, SameBatch
<1>4. InMemory' = InMemory /\ Spooled' = Spooled
  BY <1>0, <1>1, <1>3, SameMemory, SameSpooled
<1>5. RecordShape' /\ WorkShape' /\ KeyShape'
  BY <1>1, <1>2, SameShape, SameWork, SameKeys DEF OnceInv, OnceShape
<1>6. OnePlace'
  BY <1>0, <1>1, <1>3, <1>4 DEF OnceInv, OnceShape, OnePlace
<1>7. Counts'
  BY <1>0, <1>1, <1>3, <1>4, CountsKept DEF OnceInv, OnceShape, Live
<1> QED
  BY <1>5, <1>6, <1>7 DEF OnceShape

LEMMA OnceDeliver ==
    ASSUME OnceInv, BatchType', NEW e \in Env, Deliver(e)
    PROVE  OnceShape'
<1>0. BatchType /\ ingress \in Seq(Env) /\ sent \in [Env -> {"idle", "closed", "full", "accepted"}]
  BY DEF OnceInv, BatchInv, BatchType
<1>1. /\ sent[e] = "idle" /\ UNCHANGED <<life, load, parts, batch, todo, spool, recs, unread, stored, redo>>
      /\ ingress' = ingress \/ ingress' = Append(ingress, e)
      /\ sent'[e] # "idle" /\ \A g \in Env : sent'[g] = "idle" => sent[g] = "idle"
  BY <1>0 DEF Deliver, workVars, diskVars, backVars
<1>2. e \notin InMemory /\ e \notin Spooled
  BY <1>1 DEF OnceInv, OnceShape, Counts
<1>3. InFresh' = InFresh /\ InAgain' = InAgain /\ Shipped' = Shipped
  BY <1>1, SameBatch
<1>4. Spooled' = Spooled
  BY <1>1, <1>3, SameSpooled
<1>5. Range(ingress') \subseteq Range(ingress) \union {e}
  BY <1>0, <1>1, RangeOf
<1>6. e \notin Range(ingress) /\ e \notin InFresh /\ \A k \in Keys : e \notin Range(parts[k])
  BY <1>0, <1>2, MemIs
<1>7. IsInjective(ingress')
  <2>1. IsInjective(ingress) /\ ingress \in Seq(Env) /\ e \notin Range(ingress)
    BY <1>0, <1>6 DEF OnceInv, OnceShape, OnePlace
  <2>2. IsInjective(Append(ingress, e))
    BY <2>1, InjectiveAppend
  <2> QED
    BY <1>1, <2>1, <2>2
<1>8. InMemory' \subseteq InMemory \union {e}
  BY <1>0, <1>1, <1>3, <1>5, MemIs
<1>9. OnePlace'
  <2>1. /\ \A k \in Keys : Range(parts[k]) \intersect (Range(ingress) \union InFresh) = {}
        /\ Range(ingress) \intersect InFresh = {} /\ InMemory \intersect Spooled = {}
    BY DEF OnceInv, OnceShape, OnePlace
  <2>2. /\ \A k \in Keys : Range(parts'[k]) \intersect (Range(ingress') \union InFresh') = {}
        /\ Range(ingress') \intersect InFresh' = {} /\ InMemory' \intersect Spooled' = {}
    BY <1>1, <1>2, <1>3, <1>4, <1>5, <1>6, <1>8, <2>1
  <2> QED
    BY <1>7, <2>2 DEF OnePlace
<1>10. Counts'
  <2>1. \A g \in Live' : g \in Live \/ (sent[g] = "idle" /\ sent'[g] # "idle")
    BY <1>1, <1>4, <1>8 DEF Live
  <2>2. Counts /\ load' = load /\ stored' = stored /\ redo' = redo
    BY <1>1 DEF OnceInv, OnceShape
  <2> QED
    BY <1>0, <1>1, <1>3, <2>1, <2>2, CountsKept
<1>11. RecordShape' /\ WorkShape' /\ KeyShape'
  BY <1>1, SameShape, SameWork, SameKeys DEF OnceInv, OnceShape
<1> QED
  BY <1>9, <1>10, <1>11 DEF OnceShape

(* An envelope goes from the channel to its partition, or on with it. *)
LEMMA OnceAdmit ==
    ASSUME OnceInv, BatchType', Admit
    PROVE  OnceShape'
<1>0. BatchType /\ ingress \in Seq(Env) /\ parts \in [Keys -> Seq(Env)]
  BY DEF OnceInv, BatchInv, BatchType
<1>1. PICK e \in Env, k \in Keys, full \in Seq(Env), gone \in SUBSET Env :
             /\ k = KeyOf(e) /\ ingress # <<>> /\ e = Head(ingress) /\ ingress' = Tail(ingress)
             /\ \/ UNCHANGED <<parts, batch>>
                \/ /\ Range(full) \subseteq Range(parts[k]) \union {e}
                   /\ \/ /\ batch' = [Fresh(k, "encode") EXCEPT !.envs = full]
                         /\ parts' = [parts EXCEPT ![k] = <<>>]
                      \/ parts' = [parts EXCEPT ![k] = full] /\ UNCHANGED batch
  BY <1>0, AdmitEffect
<1>2. /\ batch = NoBatch /\ recs = <<>> /\ unread = <<>>
      /\ UNCHANGED <<load, sent, life, todo, recs, unread, spool, stored, redo>>
  BY DEF Admit, AtSelect, diskVars, backVars, callVars
<1>3. ~Busy /\ InFresh = {} /\ InAgain = {} /\ Shipped = {}
  BY <1>2, NoBatchIs
<1>4. Range(ingress) = {e} \union Range(ingress') /\ e \notin Range(ingress') /\ IsInjective(ingress')
  BY <1>0, <1>1, RangeOf, InjectiveTail DEF OnceInv, OnceShape, OnePlace
<1>5. [Fresh(k, "encode") EXCEPT !.envs = full]
            = [stage |-> "encode", key |-> k, envs |-> full, attempt |-> 0, file |-> <<>>]
  BY DEF Fresh
<1>6. \/ batch' = NoBatch /\ InFresh' = {} /\ InAgain' = {} /\ Shipped' = {} /\ ~Busy' /\ ~Again'
      \/ /\ Busy' /\ InFresh' = Range(full) /\ InAgain' = {} /\ Shipped' = {} /\ ~Again'
         /\ batch'.key = k /\ batch'.envs = full /\ parts' = [parts EXCEPT ![k] = <<>>]
         /\ Range(full) \subseteq Range(parts[k]) \union {e}
  <2>1. CASE batch' = batch
    BY <1>2, <2>1, NoBatchIs
  <2>2. CASE batch' = [Fresh(k, "encode") EXCEPT !.envs = full] /\ parts' = [parts EXCEPT ![k] = <<>>]
             /\ Range(full) \subseteq Range(parts[k]) \union {e}
    <3>1. batch' \in Batches /\ batch'.key = k /\ batch'.envs = full /\ batch'.file = <<>> /\ batch'.stage = "encode"
      BY <1>5, <2>2, FreshTyped
    <3>2. batch' # NoBatch
      BY <3>1, BatchFields
    <3> QED
      BY <2>2, <3>1, <3>2 DEF Busy, Again, InFresh, InAgain, FirstTry, IsFresh, Shipped
  <2> QED
    BY <1>1, <2>1, <2>2
<1>7. \A j \in Keys : Range(parts'[j]) \subseteq Range(parts[j]) \union (IF j = k THEN {e} ELSE {})
  BY <1>0, <1>1, RangeEmpty
<1>70. InFresh' # {} => parts'[k] = <<>> /\ Range(parts'[k]) = {}
  BY <1>0, <1>6, RangeEmpty
<1>8. InFresh' \subseteq Range(parts[k]) \union {e}
  BY <1>6
<1>9. Spooled' = Spooled
  BY <1>2, <1>3, <1>6, SameSpooled
<1>10. InMemory' \subseteq InMemory
  BY <1>0, <1>4, <1>7, <1>8, MemIs
<1>11. \A j \in Keys : \A x \in Range(parts[j]) : KeyOf(x) = j
  BY DEF OnceInv, OnceShape, KeyShape
<1>12. \A x : KeyOf(x)' = KeyOf(x)
  BY <1>2 DEF KeyOf
<1>13. KeyShape'
  <2>1. \A j \in Keys : \A x \in Range(parts'[j]) : KeyOf(x) = j
    BY <1>1, <1>7, <1>11
  <2>2. Busy' => \A x \in Range(batch'.envs) : KeyOf(x) = batch'.key
    BY <1>1, <1>6, <1>11
  <2> QED
    BY <1>12, <2>1, <2>2 DEF KeyShape
<1>14. OnePlace'
  <2>1. \A j \in Keys : Range(parts[j]) \intersect Range(ingress) = {}
    BY DEF OnceInv, OnceShape, OnePlace
  <2>2. \A j \in Keys : Range(parts'[j]) \intersect Range(ingress') = {}
    BY <1>4, <1>7, <2>1
  <2>3. Range(ingress') \intersect InFresh' = {}
    BY <1>4, <1>8, <2>1
  <2>4. \A j \in Keys : j # k => Range(parts[j]) \intersect (Range(parts[k]) \union {e}) = {}
    BY <1>1, <1>11
  <2>5. \A j \in Keys : Range(parts'[j]) \intersect InFresh' = {}
    BY <1>7, <1>70, <1>8, <2>4
  <2>6. InMemory' \intersect Spooled' = {}
    BY <1>9, <1>10 DEF OnceInv, OnceShape, OnePlace
  <2> QED
    BY <1>4, <2>2, <2>3, <2>5, <2>6 DEF OnePlace
<1>15. Counts'
  BY <1>0, <1>2, <1>3, <1>9, <1>10, CountsKept DEF OnceInv, OnceShape, Live
<1>16. RecordShape' /\ WorkShape'
  <2>1. ~Again'
    BY <1>6
  <2> QED
    BY <1>2, <2>1, SameShape DEF OnceInv, OnceShape, WorkShape
<1> QED
  BY <1>13, <1>14, <1>15, <1>16 DEF OnceShape

(* A partition becomes the batch. *)
LEMMA OnceTake ==
    ASSUME OnceInv, BatchType', NEW k \in Keys, FlushNext(k) \/ DrainNext(k)
    PROVE  OnceShape'
<1>0. BatchType /\ parts \in [Keys -> Seq(Env)]
  BY DEF OnceInv, BatchInv, BatchType
<1>1. /\ batch = NoBatch /\ batch' \in Batches
      /\ batch'.key = k /\ batch'.envs = parts[k] /\ batch'.file = <<>> /\ batch'.stage \in {"encode", "spool"}
      /\ parts' = [parts EXCEPT ![k] = <<>>]
      /\ UNCHANGED <<life, load, sent, ingress, unread, recs, spool, stored, redo>>
      /\ k \in todo \/ life = "drain"
  BY <1>0, TakeIs
<1>2. recs = <<>> /\ unread = <<>>
  BY <1>1 DEF OnceInv, OnceShape, WorkShape
<1>3. ~Busy /\ InFresh = {} /\ InAgain = {} /\ Shipped = {}
  BY <1>1, NoBatchIs
<1>4. Busy' /\ FirstTry' /\ ~Again' /\ InFresh' = Range(parts[k]) /\ InAgain' = {} /\ Shipped' = {}
  <2>1. batch' # NoBatch
    BY <1>1, BatchFields
  <2> QED
    BY <1>1, <2>1 DEF Busy, Again, InFresh, InAgain, FirstTry, IsFresh, Shipped
<1>5. /\ parts'[k] = <<>> /\ Range(parts'[k]) = {}
      /\ \A j \in Keys : j # k => parts'[j] = parts[j]
  BY <1>0, <1>1, RangeEmpty
<1>6. Spooled' = Spooled
  BY <1>1, <1>3, <1>4, SameSpooled
<1>7. InMemory' \subseteq InMemory
  BY <1>0, <1>1, <1>4, <1>5, MemIs
<1>8. (\A j \in Keys : \A x \in Range(parts[j]) : KeyOf(x) = j) /\ \A x : KeyOf(x)' = KeyOf(x)
  BY <1>1 DEF OnceInv, OnceShape, KeyShape, KeyOf
<1>9. KeyShape'
  <2>1. \A j \in Keys : \A x \in Range(parts'[j]) : KeyOf(x) = j
    BY <1>5, <1>8
  <2> QED
    BY <1>1, <1>8, <2>1 DEF KeyShape
<1>10. OnePlace'
  <2>1. /\ \A j \in Keys : Range(parts[j]) \intersect Range(ingress) = {}
        /\ IsInjective(ingress) /\ InMemory \intersect Spooled = {}
    BY DEF OnceInv, OnceShape, OnePlace
  <2>2. \A j \in Keys : j # k => Range(parts[j]) \intersect Range(parts[k]) = {}
    BY <1>8
  <2>3. \A j \in Keys : Range(parts'[j]) \intersect (Range(ingress') \union InFresh') = {}
    BY <1>1, <1>4, <1>5, <2>1, <2>2
  <2>4. Range(ingress') \intersect InFresh' = {} /\ InMemory' \intersect Spooled' = {}
    BY <1>1, <1>4, <1>6, <1>7, <2>1
  <2> QED
    BY <1>1, <2>1, <2>3, <2>4 DEF OnePlace
<1>11. Counts'
  BY <1>0, <1>1, <1>3, <1>6, <1>7, CountsKept DEF OnceInv, OnceShape, Live
<1>12. RecordShape' /\ WorkShape'
  BY <1>1, <1>2, <1>4, SameShape DEF OnceInv, OnceShape, WorkShape
<1> QED
  BY <1>9, <1>10, <1>11, <1>12 DEF OnceShape

(* A retry tick lists the spool. *)
LEMMA OnceTick ==
    ASSUME OnceInv, BatchType', RetryTick
    PROVE  OnceShape'
<1>0. BatchType
  BY DEF OnceInv, BatchInv
<1>1. /\ unread' = spool /\ recs = <<>> /\ batch = NoBatch /\ todo = {} /\ life = "run"
      /\ UNCHANGED <<life, load, sent, ingress, parts, todo, batch, recs, spool, stored, redo>>
  BY DEF RetryTick, Quiet, AtSelect, bufVars, diskVars, backVars, callVars
<1>2. InFresh' = InFresh /\ InAgain' = InAgain /\ Shipped' = Shipped /\ ~Busy' /\ ~Again' /\ ~FirstTry'
  BY <1>1, SameBatch, NoBatchIs
<1>3. InMemory' = InMemory
  BY <1>0, <1>1, <1>2, SameMemory
<1>4. Range(recs) = {}
  BY <1>1, RangeEmpty
<1>5. Spooled' = OnSpool \union InAgain
  <2>1. OnSpool' = OnSpool
    BY <1>1 DEF OnSpool, Held
  <2>2. \A e : e \in Waiting' <=> e \in OnSpool
    BY <1>0, <1>1, <1>4, SpooledIs
  <2> QED
    BY <1>2, <2>1, <2>2 DEF Spooled
<1>6. Spooled' \subseteq Spooled
  BY <1>5 DEF Spooled
<1>7. OnePlace'
  BY <1>1, <1>2, <1>3, <1>6 DEF OnceInv, OnceShape, OnePlace
<1>8. Counts'
  BY <1>0, <1>1, <1>2, <1>3, <1>6, CountsKept DEF OnceInv, OnceShape, Live
<1>9. RecordShape'
  <2>1. Apart(spool) /\ Apart(recs) /\ \A f \in Range(spool) : OneKey(f)
    BY DEF OnceInv, OnceShape, RecordShape
  <2>2. \A f \in Range(spool) : OneKey(f)'
    BY <1>1, <2>1 DEF OneKey, KeyOf, Held
  <2>3. \A f \in Range(spool) : \A g \in Range(spool) : Held(g) \intersect Held(f) # {} => g = f
    <3>1. Range(spool) = {spool[i] : i \in 1..Len(spool)}
      BY RangeOf DEF BatchType, OnceInv, BatchInv
    <3> QED
      BY <2>1, <3>1 DEF Apart
  <2> QED
    BY <1>1, <1>4, <2>1, <2>2, <2>3 DEF RecordShape, Agrees, Held
<1>10. WorkShape' /\ KeyShape'
  BY <1>1, <1>2, SameKeys DEF OnceInv, OnceShape, WorkShape
<1> QED
  BY <1>7, <1>8, <1>9, <1>10 DEF OnceShape

(* list() reads the next file. *)
LEMMA OnceRead ==
    ASSUME OnceInv, BatchType', ReadNext
    PROVE  OnceShape'
<1>0. BatchType /\ unread \in Seq(Records) /\ recs \in Seq(Records) /\ spool \in Seq(Records)
  BY DEF OnceInv, BatchInv, BatchType
<1> DEFINE f == Head(unread)
<1>1. /\ unread # <<>> /\ unread' = Tail(unread)
      /\ UNCHANGED <<life, load, sent, ingress, parts, todo, batch, stored, redo>>
      /\ \/ ~f.torn /\ recs' = Append(recs, f) /\ spool' = spool
         \/ recs' = recs /\ (spool' = spool \/ spool' = Without(spool, f))
  BY DEF ReadNext, bufVars, callVars
<1>2. f \in Records /\ Range(unread) = {f} \union Range(unread')
  BY <1>0, <1>1, RangeOf
<1>3. Apart(unread') /\ \A g \in Range(unread') : Held(g) \intersect Held(f) = {}
  BY <1>0, <1>1, ApartTail DEF OnceInv, OnceShape, RecordShape
<1> HIDE DEF f
<1>4. Apart(spool') /\ Range(spool') \subseteq Range(spool)
  BY <1>0, <1>1, ApartWithout, WithoutIs DEF OnceInv, OnceShape, RecordShape
<1>5. /\ Apart(recs) /\ \A g \in Range(recs) : ~g.torn /\ Held(g) \intersect Held(f) = {}
      /\ \A g \in Range(recs), h \in Range(unread') : Held(g) \intersect Held(h) = {}
  BY <1>2 DEF OnceInv, OnceShape, RecordShape
<1>6. /\ Apart(recs') /\ \A g \in Range(recs') : ~g.torn
      /\ \A g \in Range(recs'), h \in Range(unread') : Held(g) \intersect Held(h) = {}
      /\ Range(recs') \union Range(unread') \subseteq Range(recs) \union Range(unread)
  <2>1. CASE recs' = recs
    BY <1>2, <1>5, <2>1
  <2>2. CASE ~f.torn /\ recs' = Append(recs, f)
    <3>1. Apart(Append(recs, f)) /\ Range(Append(recs, f)) = Range(recs) \union {f}
      BY <1>0, <1>2, <1>5, ApartAppend, RangeOf
    <3> QED
      BY <1>2, <1>3, <1>5, <2>2, <3>1
  <2> QED
    BY <1>1, <2>1, <2>2
<1>7. RecordShape' /\ \A g : Agrees(g) => \A h \in Range(spool') : Held(h) \intersect Held(g) # {} => h = g
  BY <1>1, <1>3, <1>4, <1>6, RecordsKept DEF OnceInv, OnceShape
<1>8. InFresh' = InFresh /\ InAgain' = InAgain /\ Shipped' = Shipped /\ Again' = Again /\ FirstTry' = FirstTry
  BY <1>1, SameBatch
<1>9. InMemory' = InMemory
  BY <1>0, <1>1, <1>8, SameMemory
<1>10. Waiting' \subseteq Waiting /\ OnSpool' \subseteq OnSpool
  BY <1>0, <1>4, <1>6, SpooledIs
<1>11. Spooled' \subseteq Spooled
  BY <1>8, <1>10 DEF Spooled
<1>12. OnePlace'
  BY <1>1, <1>8, <1>9, <1>11 DEF OnceInv, OnceShape, OnePlace
<1>13. Counts'
  BY <1>0, <1>1, <1>8, <1>9, <1>11, CountsKept DEF OnceInv, OnceShape, Live
<1>14. WorkShape'
  <2>1. WorkShape /\ ~(FirstTry \/ todo # {} \/ life = "drain")
    BY <1>1 DEF OnceInv, OnceShape, WorkShape
  <2>2. Again => /\ batch'.key # NoKey /\ batch'.stage # "spool"
                 /\ Range(batch'.envs) = Held(batch'.file[1])
                 /\ \A g \in Range(spool') : Held(g) \intersect Held(batch'.file[1]) # {} => g = batch'.file[1]
                 /\ Waiting' \intersect Range(batch'.envs) = {}
    BY <1>1, <1>7, <1>10, <2>1 DEF WorkShape
  <2> QED
    BY <1>1, <1>8, <2>1, <2>2 DEF WorkShape, Agrees, Held
<1>15. KeyShape'
  BY <1>1, SameKeys DEF OnceInv, OnceShape
<1> QED
  BY <1>7, <1>12, <1>13, <1>14, <1>15 DEF OnceShape

(* try_reship takes the next record. *)
LEMMA OnceReship ==
    ASSUME OnceInv, BatchType', ReshipNext
    PROVE  OnceShape'
<1>0. BatchType /\ recs \in Seq(Records) /\ spool \in Seq(Records)
  BY DEF OnceInv, BatchInv, BatchType
<1>1. PICK f \in Records :
             /\ batch = NoBatch /\ unread = <<>> /\ recs # <<>> /\ f = Head(recs) /\ recs' = Tail(recs)
             /\ \/ Held(f) = {} /\ spool' = Without(spool, f) /\ batch' = NoBatch
                \/ spool' = spool /\ batch' = NoBatch
                \/ /\ spool' = spool /\ batch' \in Batches /\ batch'.stage = "encode" /\ batch'.file = <<f>>
                   /\ batch'.key = KeyOf(Head(batch'.envs)) /\ batch'.key # NoKey
                   /\ batch'.envs = SubSeq(f.envs, 1, f.n) /\ batch'.envs # <<>>
             /\ UNCHANGED <<life, load, sent, ingress, parts, todo, unread, failed, stored, redo>>
  BY <1>0, ReshipIs
<1>2. Range(recs) = {f} \union Range(recs')
  BY <1>0, <1>1, RangeOf
<1>3. Apart(recs') /\ \A g \in Range(recs') : Held(g) \intersect Held(f) = {}
  BY <1>0, <1>1, ApartTail DEF OnceInv, OnceShape, RecordShape
<1>4. Apart(spool') /\ Range(spool') \subseteq Range(spool)
  BY <1>0, <1>1, ApartWithout, WithoutIs DEF OnceInv, OnceShape, RecordShape
<1>5. RecordShape /\ ~f.torn /\ Agrees(f) /\ OneKey(f) /\ Range(unread) = {}
  BY <1>1, <1>2, RangeEmpty DEF OnceInv, OnceShape, RecordShape
<1>6. RecordShape' /\ \A g : Agrees(g) => \A h \in Range(spool') : Held(h) \intersect Held(g) # {} => h = g
  <2>1. /\ Apart(unread') /\ \A g \in Range(recs') : ~g.torn
        /\ \A g \in Range(recs'), h \in Range(unread') : Held(g) \intersect Held(h) = {}
        /\ Range(recs') \union Range(unread') \subseteq Range(recs) \union Range(unread)
    BY <1>1, <1>2, <1>5 DEF RecordShape
  <2> QED
    BY <1>1, <1>3, <1>4, <1>5, <2>1, RecordsKept
<1>7. ~Busy /\ ~FirstTry /\ ~Again /\ InFresh = {} /\ InAgain = {} /\ Shipped = {}
  BY <1>1, NoBatchIs
<1>8. /\ InFresh' = {} /\ Shipped' = {} /\ ~FirstTry'
      /\ \/ ~Busy' /\ ~Again' /\ InAgain' = {}
         \/ /\ Again' /\ batch'.file[1] = f /\ batch'.stage = "encode" /\ batch'.key # NoKey
            /\ Range(batch'.envs) = Held(f) /\ InAgain' = Held(f)
            /\ batch'.key = KeyOf(Head(batch'.envs)) /\ Head(batch'.envs) \in Held(f)
  <2>1. CASE batch' = NoBatch
    BY <2>1, NoBatchIs
  <2>2. CASE batch' # NoBatch
    <3>1. /\ batch' \in Batches /\ batch'.stage = "encode" /\ batch'.file = <<f>>
          /\ batch'.key = KeyOf(Head(batch'.envs)) /\ batch'.key # NoKey
          /\ batch'.envs = SubSeq(f.envs, 1, f.n) /\ batch'.envs # <<>>
      BY <1>1, <2>2
    <3>2. batch'.envs \in Seq(Env)
      BY <3>1, HeldIs
    <3>3. Range(batch'.envs) = Held(f)
      BY <1>5, <3>1, HeldIs
    <3>4. Head(batch'.envs) \in Held(f)
      <4>1. \A s \in Seq(Env) : s # <<>> => Head(s) \in Range(s)
        BY RangeOf
      <4> QED
        BY <3>1, <3>2, <3>3, <4>1
    <3>5. batch'.file # <<>> /\ batch'.file[1] = f
      BY <3>1
    <3> QED
      BY <2>2, <3>1, <3>3, <3>4, <3>5 DEF Busy, Again, FirstTry, IsFresh, InFresh, InAgain, Shipped
  <2> QED
    BY <2>1, <2>2
<1>9. InMemory' = InMemory
  BY <1>0, <1>1, <1>7, <1>8, SameMemory
<1>10. Waiting' \subseteq Waiting /\ OnSpool' \subseteq OnSpool /\ Held(f) \subseteq Waiting
       /\ Waiting' \intersect Held(f) = {}
  <2>1. Range(unread') = {}
    BY <1>1, <1>5
  <2> QED
    BY <1>0, <1>2, <1>3, <1>4, <2>1, SpooledIs
<1>11. Spooled' \subseteq Spooled
  BY <1>8, <1>10 DEF Spooled
<1>12. OnePlace'
  BY <1>1, <1>7, <1>8, <1>9, <1>11 DEF OnceInv, OnceShape, OnePlace
<1>13. Counts'
  BY <1>0, <1>1, <1>7, <1>9, <1>11, CountsKept DEF OnceInv, OnceShape, Live
<1>14. WorkShape'
  <2>1. WorkShape /\ ~(todo # {} \/ life = "drain")
    BY <1>1 DEF OnceInv, OnceShape, WorkShape
  <2>2. Again' => /\ batch'.key # NoKey /\ batch'.stage # "spool"
                  /\ Range(batch'.envs) = Held(batch'.file[1])
                  /\ \A g \in Range(spool') : Held(g) \intersect Held(batch'.file[1]) # {} => g = batch'.file[1]
                  /\ Waiting' \intersect Range(batch'.envs) = {}
    BY <1>5, <1>6, <1>8, <1>10
  <2> QED
    BY <1>1, <1>8, <2>1, <2>2 DEF WorkShape, Agrees, Held
<1>15. KeyShape'
  <2>1. \A x : KeyOf(x)' = KeyOf(x)
    BY <1>1 DEF KeyOf
  <2>2. Busy' => \A x \in Range(batch'.envs) : KeyOf(x) = batch'.key
    <3>1. Busy' => Again'
      BY <1>8
    <3> QED
      BY <1>5, <1>8, <3>1 DEF OneKey
  <2> QED
    BY <1>1, <2>1, <2>2 DEF OnceInv, OnceShape, KeyShape
<1> QED
  BY <1>6, <1>12, <1>13, <1>14, <1>15 DEF OnceShape

(* The batch is the same, in another stage. *)
LEMMA MovedIs ==
    ASSUME OnceInv, BatchType', Busy, Busy', batch'.key = batch.key, batch'.envs = batch.envs,
           batch'.file = batch.file, batch'.stage = "spool" => IsFresh \/ batch.key = NoKey,
           UNCHANGED <<life, load, ingress, parts, todo, unread, recs, spool>>
    PROVE  /\ RecordShape' /\ WorkShape' /\ KeyShape' /\ OnePlace'
           /\ InMemory' = InMemory /\ Spooled' = Spooled /\ InFresh' = InFresh /\ InAgain' = InAgain
<1>0. BatchType
  BY DEF OnceInv, BatchInv
<1>1. FirstTry' = FirstTry /\ Again' = Again /\ InFresh' = InFresh /\ InAgain' = InAgain
  BY DEF FirstTry, Again, IsFresh, InFresh, InAgain
<1>2. InMemory' = InMemory /\ Spooled' = Spooled /\ Waiting' = Waiting
  BY <1>0, <1>1, SameMemory, SameSpooled
<1>3. RecordShape' /\ \A f : Agrees(f)' <=> Agrees(f)
  BY SameShape DEF OnceInv, OnceShape
<1>4. WorkShape'
  <2>1. WorkShape
    BY DEF OnceInv, OnceShape
  <2>2. Again => batch'.stage # "spool"
    BY <2>1 DEF WorkShape, Again
  <2>3. Again' => /\ batch'.key # NoKey /\ batch'.stage # "spool"
                  /\ Range(batch'.envs) = Held(batch'.file[1])
                  /\ \A g \in Range(spool') : Held(g) \intersect Held(batch'.file[1]) # {} => g = batch'.file[1]
                  /\ Waiting' \intersect Range(batch'.envs) = {}
    BY <1>1, <1>2, <2>1, <2>2 DEF WorkShape, Agrees
  <2> QED
    BY <1>1, <2>1, <2>3 DEF WorkShape, Agrees, Held
<1>5. KeyShape'
  BY DEF OnceInv, OnceShape, KeyShape, KeyOf
<1>6. OnePlace'
  BY <1>1, <1>2 DEF OnceInv, OnceShape, OnePlace
<1> QED
  BY <1>1, <1>2, <1>3, <1>4, <1>5, <1>6

(* The backend stores the batch of what was stored at most redo times. *)
LEMMA StoreOnce ==
    ASSUME OnceInv, BatchType', batch \in Batches, batch.stage # "remove", Store, load' = load,
           redo' = redo \/ redo' = redo + 1
    PROVE  /\ StoredOnce'
           /\ \A e \in Env : e \notin Live => \A k \in Keys : stored'[k][e] = stored[k][e]
           /\ \A e \in Env : e \in Live => stored'[KeyOf(e)][e] <= redo + (IF e \in Range(batch.envs) THEN 1 ELSE 0)
<1>0. BatchType /\ redo \in Nat /\ (\A k \in Keys, e \in Env : stored[k][e] \in Nat) /\ \A e \in Env : KeyOf(e) \in Keys
  <2>1. BatchType
    BY DEF OnceInv, BatchInv
  <2>2. redo \in Nat /\ \A k \in Keys, e \in Env : stored[k][e] \in Nat
    BY <2>1 DEF BatchType
  <2>3. \A e \in Env : KeyOf(e) \in Keys
    BY <2>1 DEF BatchType, KeyOf
  <2> QED
    BY <2>1, <2>2, <2>3
<1>1. Busy /\ batch.key \in Keys /\ Shipped = {}
  BY BatchFields DEF Busy, Shipped
<1>2. \A k \in Keys, e \in Env :
         stored'[k][e] = stored[k][e] + (IF k = batch.key /\ e \in Range(batch.envs) THEN 1 ELSE 0)
  BY <1>0, StoreEffect
<1>3. \A e \in Range(batch.envs) : KeyOf(e) = batch.key
  BY <1>1 DEF OnceInv, OnceShape, KeyShape
<1>4. Range(batch.envs) \subseteq Live
  <2>1. Range(batch.envs) \subseteq InFresh \union InAgain
    BY <1>1 DEF InFresh, InAgain, FirstTry, Again
  <2> QED
    BY <1>0, <2>1, MemIs DEF Live, Spooled
<1>5. \A e \in Live : stored[KeyOf(e)][e] <= redo
  BY <1>1 DEF OnceInv, OnceShape, Counts, Live
<1>6. \A e \in Env : KeyOf(e)' = KeyOf(e)
  BY DEF KeyOf
<1>7. StoredOnce'
  <2> SUFFICES ASSUME NEW e \in Env, NEW k \in Keys
               PROVE  stored'[k][e] <= IF k = KeyOf(e) THEN 1 + redo' ELSE 0
    BY <1>6 DEF StoredOnce
  <2>1. stored[k][e] <= IF k = KeyOf(e) THEN 1 + redo ELSE 0
    BY DEF OnceInv, OnceShape, Counts, StoredOnce
  <2>2. stored[k][e] \in Nat /\ redo \in Nat /\ redo' >= redo
    BY <1>0
  <2>3. CASE k = batch.key /\ e \in Range(batch.envs)
    <3>1. k = KeyOf(e) /\ stored[k][e] <= redo /\ stored'[k][e] = stored[k][e] + 1
      BY <1>2, <1>3, <1>4, <1>5, <2>3
    <3> QED
      BY ONLY <2>2, <3>1, redo' = redo \/ redo' = redo + 1
  <2>4. CASE ~(k = batch.key /\ e \in Range(batch.envs))
    <3>1. stored'[k][e] = stored[k][e]
      BY <1>2, <2>2, <2>4
    <3> QED
      BY ONLY <2>1, <2>2, <3>1, redo' = redo \/ redo' = redo + 1
  <2> QED
    BY <2>3, <2>4
<1>8. \A e \in Env : e \notin Live => \A k \in Keys : stored'[k][e] = stored[k][e]
  BY <1>0, <1>2, <1>4
<1>9. \A e \in Env : e \in Live => stored'[KeyOf(e)][e] <= redo + (IF e \in Range(batch.envs) THEN 1 ELSE 0)
  <2> SUFFICES ASSUME NEW e \in Env, e \in Live
               PROVE  stored'[KeyOf(e)][e] <= redo + (IF e \in Range(batch.envs) THEN 1 ELSE 0)
    OBVIOUS
  <2>1. stored[KeyOf(e)][e] <= redo /\ stored[KeyOf(e)][e] \in Nat
        /\ stored'[KeyOf(e)][e] = stored[KeyOf(e)][e] + (IF e \in Range(batch.envs) THEN 1 ELSE 0)
    BY <1>0, <1>2, <1>3, <1>5
  <2> QED
    BY <1>0, <2>1
<1> QED
  BY <1>7, <1>8, <1>9

(* Encode and the uploads that are not answered Ok. *)
LEMMA OnceMove ==
    ASSUME OnceInv, BatchType', Encode \/ UploadFatal \/ (\E applied \in BOOLEAN : UploadRetry(applied))
    PROVE  OnceShape'
<1>0. BatchType
  BY DEF OnceInv, BatchInv
<1>1. /\ Busy /\ batch \in Batches /\ batch' \in Batches
      /\ batch'.key = batch.key /\ batch'.envs = batch.envs /\ batch'.file = batch.file
      /\ batch.stage \in {"encode", "upload"}
      /\ batch'.stage # "remove" /\ (batch'.stage = "spool" => IsFresh \/ batch.key = NoKey)
      /\ UNCHANGED <<life, load, sent, ingress, parts, todo, unread, recs, spool>>
  BY <1>0, MoveIs
<1>2. Busy' /\ Shipped = {} /\ Shipped' = {}
  BY <1>1, BatchFields DEF Busy, Shipped
<1>3. /\ RecordShape' /\ WorkShape' /\ KeyShape' /\ OnePlace'
      /\ InMemory' = InMemory /\ Spooled' = Spooled
  BY <1>1, <1>2, MovedIs
<1>4. \/ stored' = stored /\ redo' = redo
      \/ Store /\ redo' = redo + 1
  BY DEF Encode, UploadFatal, UploadRetry
<1>5. Counts'
  <2>1. CASE stored' = stored /\ redo' = redo
    BY <1>0, <1>1, <1>2, <1>3, <2>1, CountsKept DEF OnceInv, OnceShape, Live
  <2>2. CASE Store /\ redo' = redo + 1
    <3>1. /\ StoredOnce'
          /\ \A e \in Env : e \notin Live => \A k \in Keys : stored'[k][e] = stored[k][e]
          /\ \A e \in Env : e \in Live => stored'[KeyOf(e)][e] <= redo + (IF e \in Range(batch.envs) THEN 1 ELSE 0)
      BY <1>0, <1>1, <2>2, StoreOnce
    <3>2. Live \subseteq Env /\ redo \in Nat /\ stored' \in [Keys -> [Env -> Nat]]
          /\ \A e \in Env : KeyOf(e) \in Keys /\ KeyOf(e)' = KeyOf(e)
      <4>1. Live \subseteq Env
        BY <1>0, MemTyped, SpooledIs DEF Live
      <4>2. redo \in Nat /\ stored' \in [Keys -> [Env -> Nat]]
        BY <1>0 DEF BatchType
      <4>3. \A e \in Env : KeyOf(e) \in Keys /\ KeyOf(e)' = KeyOf(e)
        BY <1>0, <1>1 DEF BatchType, KeyOf
      <4> QED
        BY <4>1, <4>2, <4>3
    <3>3. ASSUME NEW e \in Live PROVE stored'[KeyOf(e)][e] <= redo'
      <4>1. stored'[KeyOf(e)][e] <= redo + (IF e \in Range(batch.envs) THEN 1 ELSE 0)
            /\ stored'[KeyOf(e)][e] \in Nat /\ redo \in Nat /\ redo' = redo + 1
        BY <2>2, <3>1, <3>2, <3>3
      <4> QED
        BY ONLY <4>1
    <3>4. \A e \in Env : sent'[e] = "idle" => e \notin Live /\ \A k \in Keys : stored'[k][e] = 0
      BY <1>1, <3>1 DEF OnceInv, OnceShape, Counts, Live
    <3> QED
      BY <1>3, <3>1, <3>2, <3>3, <3>4 DEF Counts, Live
  <2> QED
    BY <1>4, <2>1, <2>2
<1> QED
  BY <1>3, <1>5 DEF OnceShape

(* upload() answers Ok: a fresh batch is gone from memory, a file that was *)
(* shipped again is about to go from the spool.                            *)
LEMMA OnceUploaded ==
    ASSUME OnceInv, BatchType', UploadOk
    PROVE  OnceShape'
<1>0. BatchType
  BY DEF OnceInv, BatchInv
<1>1. /\ batch \in Batches /\ batch.stage = "upload" /\ Store
      /\ \/ IsFresh /\ batch' = NoBatch
         \/ /\ ~IsFresh /\ batch' \in Batches /\ batch'.stage = "remove"
            /\ batch'.key = batch.key /\ batch'.envs = batch.envs /\ batch'.file = batch.file
      /\ UNCHANGED <<life, load, sent, ingress, parts, todo, unread, recs, spool, redo>>
  BY <1>0, UploadOkIs
<1>2. Busy /\ Shipped = {}
  BY <1>1, BatchFields DEF Busy, Shipped
<1>3. /\ StoredOnce'
      /\ \A e \in Env : e \notin Live => \A k \in Keys : stored'[k][e] = stored[k][e]
      /\ \A e \in Env : e \in Live => stored'[KeyOf(e)][e] <= redo + (IF e \in Range(batch.envs) THEN 1 ELSE 0)
  BY <1>1, StoreOnce
<1>4. /\ RecordShape' /\ WorkShape' /\ KeyShape' /\ OnePlace'
      /\ \A e \in Live' : e \in Live /\ (e \in Range(batch.envs) => e \in Shipped')
  <2>1. CASE IsFresh /\ batch' = NoBatch
    <3>1. FirstTry /\ InFresh = Range(batch.envs) /\ InAgain = {}
      BY <1>2, <2>1 DEF FirstTry, InFresh, Again, InAgain
    <3>2. ~Busy' /\ ~FirstTry' /\ ~Again' /\ InFresh' = {} /\ InAgain' = {}
      BY <2>1, NoBatchIs
    <3>3. Spooled' = Spooled
      BY <1>1, <3>1, <3>2, SameSpooled
    <3>4. \A e : e \in InMemory' <=> e \in Range(ingress) \/ \E k \in Keys : e \in Range(parts[k])
      BY <1>1, <3>2, MemIs
    <3>5. \A e : e \in InMemory <=> e \in Range(ingress) \/ (\E k \in Keys : e \in Range(parts[k])) \/ e \in InFresh
      BY <1>0, MemIs
    <3>6. OnePlace
      BY DEF OnceInv, OnceShape
    <3>7. OnePlace' /\ InMemory' \subseteq InMemory
      BY <1>1, <3>2, <3>3, <3>4, <3>5, <3>6 DEF OnePlace
    <3>8. \A e \in Live' : e \in Live /\ e \notin InFresh
      <4>1. \A e \in InMemory' : e \notin InFresh
        BY <3>4, <3>6 DEF OnePlace
      <4>2. \A e \in Spooled : e \notin InFresh
        BY <3>5, <3>6 DEF OnePlace
      <4> QED
        BY <3>3, <3>7, <4>1, <4>2 DEF Live
    <3>9. RecordShape' /\ KeyShape'
      BY <1>1, <3>2, SameShape DEF OnceInv, OnceShape, KeyShape, KeyOf
    <3>10. WorkShape'
      BY <1>1, <3>1, <3>2 DEF OnceInv, OnceShape, WorkShape
    <3> QED
      BY <3>1, <3>7, <3>8, <3>9, <3>10
  <2>2. CASE /\ ~IsFresh /\ batch' \in Batches /\ batch'.stage = "remove"
             /\ batch'.key = batch.key /\ batch'.envs = batch.envs /\ batch'.file = batch.file
    <3>1. Busy' /\ Shipped' = Range(batch.envs)
      BY <2>2, BatchFields DEF Busy, Shipped
    <3>2. /\ RecordShape' /\ WorkShape' /\ KeyShape' /\ OnePlace'
          /\ InMemory' = InMemory /\ Spooled' = Spooled
      BY <1>1, <1>2, <2>2, <3>1, MovedIs
    <3> QED
      BY <3>1, <3>2 DEF Live
  <2> QED
    BY <1>1, <2>1, <2>2
<1>5. Counts'
  <2>1. Live \subseteq Env /\ redo \in Nat /\ stored' \in [Keys -> [Env -> Nat]] /\ redo' = redo
        /\ \A e \in Env : KeyOf(e) \in Keys /\ KeyOf(e)' = KeyOf(e)
    <3>1. Live \subseteq Env
      BY <1>0, MemTyped, SpooledIs DEF Live
    <3>2. redo \in Nat /\ stored' \in [Keys -> [Env -> Nat]]
      BY <1>0 DEF BatchType
    <3>3. \A e \in Env : KeyOf(e) \in Keys /\ KeyOf(e)' = KeyOf(e)
      BY <1>0, <1>1 DEF BatchType, KeyOf
    <3> QED
      BY <1>1, <3>1, <3>2, <3>3
  <2>2. ASSUME NEW e \in Live', e \notin Shipped' PROVE stored'[KeyOf(e)][e] <= redo'
    <3>1. e \in Live /\ e \notin Range(batch.envs) /\ e \in Env
      BY <1>4, <2>1, <2>2
    <3>2. stored'[KeyOf(e)][e] <= redo + 0
      BY <1>3, <3>1
    <3> QED
      BY <2>1, <3>2
  <2>3. \A e \in Env : sent'[e] = "idle" => e \notin Live' /\ \A k \in Keys : stored'[k][e] = 0
    <3>1. \A e \in Env : sent[e] = "idle" => e \notin Live /\ \A k \in Keys : stored[k][e] = 0
      BY DEF OnceInv, OnceShape, Counts, Live
    <3> QED
      BY <1>1, <1>3, <1>4, <3>1
  <2> QED
    BY <1>3, <1>4, <2>1, <2>2, <2>3 DEF Counts, Live
<1> QED
  BY <1>4, <1>5 DEF OnceShape

(* A file of fresh envelopes joins what is left of the spool. *)
LEMMA SpoolGrows ==
    ASSUME NEW s, s \in Seq(Records), NEW c, c \in Seq(Records), NEW tail, NEW w, NEW E,
           Apart(c), Range(c) \subseteq Range(s), \A g \in Range(s) : Held(g) \intersect E = {},
           tail = <<>> \/ (\E f \in Records : tail = <<f>> /\ Held(f) \subseteq E), w = c \o tail
    PROVE  Apart(w) /\ \A g \in Range(w) : g \in Range(s) \/ Held(g) \subseteq E
<1>1. CASE tail = <<>>
  <2>1. w = c
    BY <1>1
  <2> QED
    BY <2>1
<1>2. CASE \E f \in Records : tail = <<f>> /\ Held(f) \subseteq E
  <2>1. PICK f \in Records : tail = <<f>> /\ Held(f) \subseteq E
    BY <1>2
  <2>2. w = Append(c, f)
    BY <2>1
  <2>3. Range(Append(c, f)) = Range(c) \union {f}
    BY RangeOf
  <2>4. \A g \in Range(c) : Held(g) \intersect Held(f) = {}
    BY <2>1
  <2>5. Apart(Append(c, f))
    BY <2>4, ApartAppend
  <2> QED
    BY <2>1, <2>2, <2>3, <2>5
<1> QED
  BY <1>1, <1>2

(* The batch is gone, to the spool or not at all; nothing is listed. *)
LEMMA OnceGone ==
    ASSUME OnceInv, BatchType', load' = load, sent' = sent, stored' = stored,
           redo' = redo \/ redo' = redo + 1, Shipped # {} => redo' = redo + 1,
           batch' = NoBatch, recs' = <<>>, unread' = <<>>, Apart(spool'),
           \A g \in Range(spool') : g \in Range(spool) \/ (FirstTry /\ Held(g) \subseteq Range(batch.envs)),
           IsInjective(ingress'), Range(ingress') \subseteq Range(ingress),
           \A k \in Keys : Range(parts'[k]) \subseteq Range(parts[k])
    PROVE  OnceShape'
<1>0. BatchType
  BY DEF OnceInv, BatchInv
<1>1. ~Busy' /\ ~FirstTry' /\ ~Again' /\ InFresh' = {} /\ InAgain' = {} /\ Shipped' = {}
  BY NoBatchIs
<1>2. FirstTry => InFresh = Range(batch.envs)
  BY DEF InFresh
<1>3. Range(recs') = {} /\ Range(unread') = {}
  BY RangeEmpty
<1>4. \A e \in Spooled' : e \in OnSpool \/ e \in InFresh
  <2>1. \A e \in OnSpool' : e \in OnSpool \/ e \in InFresh
    BY <1>0, <1>2, SpooledIs
  <2>2. Waiting' = {}
    BY <1>3, SpooledIs
  <2> QED
    BY <1>1, <2>1, <2>2 DEF Spooled
<1>5. \A e \in InMemory' : e \in Range(ingress) \/ \E k \in Keys : e \in Range(parts[k])
  BY <1>1, MemIs
<1>6. \A e : e \in InMemory <=> e \in Range(ingress) \/ (\E k \in Keys : e \in Range(parts[k])) \/ e \in InFresh
  BY <1>0, MemIs
<1>7. OnePlace /\ Counts /\ RecordShape /\ KeyShape
  BY DEF OnceInv, OnceShape
<1>8. \A e \in InMemory' : e \notin Spooled'
  <2>1. \A e \in InMemory' : e \in InMemory /\ e \notin InFresh
    BY <1>5, <1>6, <1>7 DEF OnePlace
  <2>2. \A e \in InMemory : e \notin OnSpool
    BY <1>7 DEF OnePlace, Spooled
  <2> QED
    BY <1>4, <2>1, <2>2
<1>9. OnePlace' /\ InMemory' \subseteq InMemory
  BY <1>0, <1>1, <1>7, <1>8, PlaceKept
<1>10. Live' \subseteq Live
  BY <1>4, <1>6, <1>9 DEF Live, Spooled
<1>11. Counts'
  <2>1. redo' = redo + 1 \/ \A e \in Shipped : e \in Shipped' \/ e \notin Live'
    OBVIOUS
  <2> QED
    BY <1>0, <1>7, <1>10, <2>1, CountsKept
<1>12. \A x : KeyOf(x)' = KeyOf(x)
  BY DEF KeyOf
<1>13. KeyShape'
  BY <1>1, <1>7, <1>12 DEF KeyShape
<1>14. RecordShape'
  <2>1. Apart(recs') /\ Apart(unread')
    <3>1. \A i, j \in 1..Len(<<>>) : i = j
      OBVIOUS
    <3> QED
      BY <3>1 DEF Apart
  <2>2. \A g \in Range(spool') : OneKey(g)
    <3>1. \A g \in Range(spool) : OneKey(g)
      BY <1>7 DEF RecordShape
    <3>2. FirstTry => \A e \in Range(batch.envs) : KeyOf(e) = batch.key
      BY <1>7 DEF KeyShape, FirstTry
    <3> QED
      BY <3>1, <3>2 DEF OneKey
  <2>3. \A g \in Range(spool') : OneKey(g)'
    BY <1>12, <2>2 DEF OneKey, Held
  <2> QED
    BY <1>3, <2>1, <2>3 DEF RecordShape
<1>15. WorkShape'
  BY <1>1 DEF WorkShape
<1> QED
  BY <1>9, <1>11, <1>13, <1>14, <1>15 DEF OnceShape

LEMMA OnceWrite ==
    ASSUME OnceInv, BatchType', WriteOk \/ WriteFails \/ WriteUnevicted
    PROVE  OnceShape'
<1>0. BatchType /\ spool \in Seq(Records)
  BY DEF OnceInv, BatchInv, BatchType
<1>1. /\ batch \in Batches /\ batch.stage = "spool" /\ batch' = NoBatch
      /\ UNCHANGED <<life, load, sent, ingress, parts, todo, unread, recs, stored, redo>>
  BY <1>0, SpoolIs
<1>2. PICK n \in 0..Len(spool), tail \in Seq(Records) :
        /\ tail = <<>> \/ \E f \in Records : tail = <<f>> /\ Held(f) \subseteq Range(batch.envs)
        /\ spool' = SubSeq(spool, n + 1, Len(spool)) \o tail
  BY <1>0, SpoolIs
<1>3. Busy /\ FirstTry /\ Shipped = {} /\ recs = <<>> /\ unread = <<>>
  <2>1. Busy
    BY <1>1, BatchFields DEF Busy
  <2>2. FirstTry
    BY <1>1, <2>1 DEF OnceInv, OnceShape, WorkShape, Again, FirstTry
  <2> QED
    BY <1>1, <2>1, <2>2 DEF OnceInv, OnceShape, WorkShape, Shipped
<1>4. \A g \in Range(spool) : Held(g) \intersect Range(batch.envs) = {}
  <2>1. Range(batch.envs) \subseteq InMemory
    BY <1>0, <1>3, MemIs DEF InFresh
  <2>2. InMemory \intersect OnSpool = {}
    BY DEF OnceInv, OnceShape, OnePlace, Spooled
  <2> QED
    BY <1>0, <2>1, <2>2, SpooledIs
<1>5. Apart(spool') /\ \A g \in Range(spool') : g \in Range(spool) \/ Held(g) \subseteq Range(batch.envs)
  <2> DEFINE c == SubSeq(spool, n + 1, Len(spool))
  <2>1. c \in Seq(Records)
    BY <1>0, CutIs
  <2>2. Apart(c) /\ Range(c) \subseteq Range(spool)
    BY <1>0, ApartCut DEF OnceInv, OnceShape, RecordShape
  <2>3. spool' = c \o tail
    BY <1>2
  <2> HIDE DEF c
  <2> QED
    BY ONLY <1>0, <1>2, <1>4, <2>1, <2>2, <2>3, SpoolGrows
<1>6. IsInjective(ingress)
  BY DEF OnceInv, OnceShape, OnePlace
<1> QED
  BY <1>1, <1>3, <1>5, <1>6, OnceGone

(* The process is killed. *)
LEMMA OnceKill ==
    ASSUME OnceInv, BatchType', Kill
    PROVE  OnceShape'
<1>0. BatchType /\ spool \in Seq(Records)
  BY DEF OnceInv, BatchInv, BatchType
<1>1. /\ ingress' = <<>> /\ parts' = [k \in Keys |-> <<>>] /\ batch' = NoBatch
      /\ unread' = <<>> /\ recs' = <<>>
      /\ redo' = IF batch.stage = "remove" THEN redo + 1 ELSE redo
      /\ UNCHANGED <<load, sent, stored>>
  BY <1>0, KillIs
<1>2. PICK tail \in Seq(Records) :
        /\ \/ tail = <<>>
           \/ batch.stage = "spool" /\ \E f \in Records : tail = <<f>> /\ Held(f) \subseteq Range(batch.envs)
        /\ spool' = spool \o tail
  BY <1>0, KillIs
<1>3. Apart(spool') /\ \A g \in Range(spool') : g \in Range(spool) \/ (FirstTry /\ Held(g) \subseteq Range(batch.envs))
  <2>0. Apart(spool)
    BY DEF OnceInv, OnceShape, RecordShape
  <2>1. CASE tail = <<>>
    <3>1. spool' = spool
      BY <1>0, <1>2, <2>1
    <3> QED
      BY <2>0, <3>1
  <2>2. CASE batch.stage = "spool" /\ \E f \in Records : tail = <<f>> /\ Held(f) \subseteq Range(batch.envs)
    <3>1. "spool" \in Stages
      BY DEF Stages
    <3>2. FirstTry
      BY <1>0, <2>2, <3>1, StageMeansBusy DEF OnceInv, OnceShape, WorkShape, Again, FirstTry
    <3>3. Range(batch.envs) \subseteq InMemory
      BY <1>0, <3>2, MemIs DEF InFresh
    <3>4. InMemory \intersect OnSpool = {}
      BY DEF OnceInv, OnceShape, OnePlace, Spooled
    <3>5. \A g \in Range(spool) : Held(g) \intersect Range(batch.envs) = {}
      BY <1>0, <3>3, <3>4, SpooledIs
    <3>6. Apart(spool') /\ \A g \in Range(spool') : g \in Range(spool) \/ Held(g) \subseteq Range(batch.envs)
      <4>1. /\ spool \in Seq(Records) /\ spool' = spool \o tail /\ Range(spool) \subseteq Range(spool)
            /\ tail = <<>> \/ (\E f \in Records : tail = <<f>> /\ Held(f) \subseteq Range(batch.envs))
        BY <1>0, <1>2, <2>2
      <4> QED
        BY ONLY <2>0, <3>5, <4>1, SpoolGrows
    <3> QED
      BY <3>2, <3>6
  <2> QED
    BY <1>2, <2>1, <2>2
<1>4. IsInjective(ingress') /\ Range(ingress') \subseteq Range(ingress)
      /\ \A k \in Keys : Range(parts'[k]) \subseteq Range(parts[k])
  <2>1. IsInjective(<<>>)
    BY DEF IsInjective
  <2> QED
    BY <1>1, <2>1, RangeEmpty
<1>5. Shipped # {} => redo' = redo + 1
  BY <1>1 DEF Shipped
<1>6. redo' = redo \/ redo' = redo + 1
  BY <1>1
<1> QED
  BY <1>1, <1>3, <1>4, <1>5, <1>6, OnceGone

(* A re-ship is over, the file is removed, moved or left where it is. *)
LEMMA OnceFiled ==
    ASSUME OnceInv, BatchType', Again, batch' = NoBatch,
           UNCHANGED <<life, load, sent, ingress, parts, todo, recs, unread, stored>>,
           \/ redo' = redo /\ (batch.stage = "remove" => spool' = Without(spool, batch.file[1]))
           \/ redo' = redo + 1,
           spool' = spool \/ spool' = Without(spool, batch.file[1])
    PROVE  OnceShape'
<1>0. BatchType /\ spool \in Seq(Records)
  BY DEF OnceInv, BatchInv, BatchType
<1>1. ~Busy' /\ ~FirstTry' /\ ~Again' /\ InFresh' = {} /\ InAgain' = {} /\ Shipped' = {}
  BY NoBatchIs
<1>2. ~FirstTry /\ InFresh = {} /\ InAgain = Range(batch.envs)
  BY DEF Again, FirstTry, InFresh, InAgain
<1>3. /\ RecordShape /\ OnePlace /\ Counts /\ KeyShape /\ WorkShape
      /\ Range(batch.envs) = Held(batch.file[1]) /\ Agrees(batch.file[1])
      /\ Waiting \intersect Range(batch.envs) = {}
  BY DEF OnceInv, OnceShape, WorkShape
<1>4. Apart(spool') /\ Range(spool') \subseteq Range(spool)
  BY <1>0, <1>3, ApartWithout, WithoutIs DEF RecordShape
<1>5. RecordShape'
  <2>1. /\ Apart(recs') /\ Apart(unread')
        /\ \A f \in Range(recs'), g \in Range(unread') : Held(f) \intersect Held(g) = {}
        /\ \A f \in Range(recs') : ~f.torn
        /\ Range(recs') \union Range(unread') \subseteq Range(recs) \union Range(unread)
    BY <1>3 DEF RecordShape
  <2> QED
    BY <1>3, <1>4, <2>1, RecordsKept
<1>6. InMemory' = InMemory
  BY <1>0, <1>1, <1>2, SameMemory
<1>7. Waiting' = Waiting /\ OnSpool' \subseteq OnSpool
  <2>1. Waiting' = Waiting
    BY DEF Waiting, Held
  <2> QED
    BY <1>0, <1>4, <2>1, SpooledIs
<1>8. Spooled' \subseteq Spooled
  BY <1>1, <1>7 DEF Spooled
<1>9. OnePlace'
  BY <1>1, <1>2, <1>3, <1>6, <1>8 DEF OnePlace
<1>10. redo' = redo + 1 \/ \A e \in Shipped : e \notin Live'
  <2>1. CASE redo' = redo + 1
    BY <2>1
  <2>2. CASE redo' = redo /\ (batch.stage = "remove" => spool' = Without(spool, batch.file[1]))
    <3> SUFFICES ASSUME NEW e \in Shipped PROVE e \notin Live'
      OBVIOUS
    <3>1. batch.stage = "remove" /\ e \in Range(batch.envs)
      BY DEF Shipped
    <3>2. \A g \in Range(spool') : Held(g) \intersect Held(batch.file[1]) = {}
      <4>1. \A g \in Range(spool) : Held(g) \intersect Held(batch.file[1]) # {} => g = batch.file[1]
        BY <1>3 DEF Agrees
      <4>2. Apart(spool) /\ spool' = Without(spool, batch.file[1])
        BY <1>3, <2>2, <3>1 DEF RecordShape
      <4> QED
        BY <1>0, <4>1, <4>2, ApartWithout
    <3>3. e \notin OnSpool'
      BY <1>0, <1>3, <3>1, <3>2, SpooledIs
    <3>4. e \notin InMemory
      BY <1>2, <1>3, <3>1 DEF OnePlace, Spooled
    <3>5. e \notin Waiting'
      BY <1>3, <1>7, <3>1
    <3> QED
      BY <1>1, <1>6, <3>3, <3>4, <3>5 DEF Live, Spooled
  <2> QED
    BY <2>1, <2>2
<1>11. Counts'
  BY <1>0, <1>3, <1>6, <1>8, <1>10, CountsKept DEF Live
<1>12. WorkShape' /\ KeyShape'
  BY <1>1, <1>3 DEF WorkShape, KeyShape, KeyOf
<1> QED
  BY <1>5, <1>9, <1>11, <1>12 DEF OnceShape

LEMMA OnceStep ==
    ASSUME OnceInv, [Next]_vars
    PROVE  OnceInv'
<1>0. BatchInv' /\ BatchType' /\ BatchType /\ BatchShape
  BY BatchStep DEF OnceInv, BatchInv
<1>1. CASE New \/ Shutdown \/ DropSink \/ BeginDrain \/ FlushAged \/ UNCHANGED vars
  BY <1>0, <1>1, OnceQuiet DEF OnceInv
<1>2. CASE \E e \in Env : Deliver(e)
  BY <1>0, <1>2, OnceDeliver DEF OnceInv
<1>3. CASE Admit
  BY <1>0, <1>3, OnceAdmit DEF OnceInv
<1>4. CASE \E k \in Keys : FlushNext(k) \/ DrainNext(k)
  BY <1>0, <1>4, OnceTake DEF OnceInv
<1>5. CASE RetryTick \/ ReadNext \/ ReshipNext
  BY <1>0, <1>5, OnceTick, OnceRead, OnceReship DEF OnceInv
<1>6. CASE Encode \/ UploadFatal \/ (\E applied \in BOOLEAN : UploadRetry(applied))
  BY <1>0, <1>6, OnceMove DEF OnceInv
<1>7. CASE UploadOk
  BY <1>0, <1>7, OnceUploaded DEF OnceInv
<1>8. CASE WriteOk \/ WriteFails \/ WriteUnevicted
  BY <1>0, <1>8, OnceWrite DEF OnceInv
<1>9. CASE RemoveShipped
  <2>1. batch.stage = "remove" /\ "remove" \in Stages
    BY <1>9 DEF RemoveShipped, Stages
  <2>2. Again
    BY <1>0, <2>1, StageMeansBusy DEF BatchShape, Again
  <2>3. /\ batch' = NoBatch
        /\ UNCHANGED <<life, load, sent, ingress, parts, todo, recs, unread, stored>>
        /\ spool' = spool \/ spool' = Without(spool, batch.file[1])
        /\ \/ redo' = redo /\ (batch.stage = "remove" => spool' = Without(spool, batch.file[1]))
           \/ redo' = redo + 1
    BY <1>9 DEF RemoveShipped, bufVars, callVars
  <2> QED
    BY <1>0, <2>2, <2>3, OnceFiled DEF OnceInv
<1>10. CASE \E old \in BOOLEAN : EscalateIfStuck(old)
  <2>1. PICK old \in BOOLEAN : EscalateIfStuck(old)
    BY <1>10
  <2>2. batch.stage \in {"fatal", "exhausted"} /\ {"fatal", "exhausted"} \subseteq Stages
    BY <2>1 DEF EscalateIfStuck, Stages
  <2>3. Again
    BY <1>0, <2>2, StageMeansBusy DEF BatchShape, Again
  <2>4. /\ batch' = NoBatch /\ redo' = redo /\ batch.stage # "remove"
        /\ UNCHANGED <<life, load, sent, ingress, parts, todo, recs, unread, stored>>
        /\ spool' = spool \/ spool' = Without(spool, batch.file[1])
    BY <2>1, <2>2 DEF EscalateIfStuck, bufVars, diskVars, backVars, callVars
  <2> QED
    BY <1>0, <2>3, <2>4, OnceFiled DEF OnceInv
<1>11. CASE WorkerExit
  <2>1. /\ batch = NoBatch /\ batch' = NoBatch /\ life = "drain" /\ ingress' = <<>>
        /\ UNCHANGED <<load, sent, parts, recs, unread, spool, stored, redo>>
    BY <1>11 DEF WorkerExit, workVars, diskVars, backVars, callVars
  <2>2. recs = <<>> /\ unread = <<>> /\ Shipped = {}
    BY <2>1, NoBatchIs DEF OnceInv, OnceShape, WorkShape
  <2>3. IsInjective(<<>>) /\ Apart(spool)
    BY DEF IsInjective, OnceInv, OnceShape, RecordShape
  <2> QED
    BY <1>0, <2>1, <2>2, <2>3, RangeEmpty, OnceGone DEF OnceInv
<1>12. CASE Kill
  BY <1>0, <1>12, OnceKill DEF OnceInv
<1> QED
  BY <1>1, <1>2, <1>3, <1>4, <1>5, <1>6, <1>7, <1>8, <1>9, <1>10, <1>11, <1>12 DEF Next, WorkerStep

LEMMA OnceStart == ASSUME Init PROVE OnceInv
<1>0. BatchInv /\ BatchType
  BY BatchStart DEF BatchInv
<1>1. /\ batch = NoBatch /\ ingress = <<>> /\ parts = [k \in Keys |-> <<>>] /\ spool = <<>>
      /\ recs = <<>> /\ unread = <<>> /\ todo = {} /\ life = "down" /\ redo = 0
      /\ stored = [k \in Keys |-> [e \in Env |-> 0]]
  BY DEF Init
<1>2. ~Busy /\ ~FirstTry /\ ~Again /\ InFresh = {} /\ InAgain = {} /\ Shipped = {}
  BY <1>1, NoBatchIs
<1>3. Range(ingress) = {} /\ Range(spool) = {} /\ Range(recs) = {} /\ Range(unread) = {}
      /\ \A k \in Keys : Range(parts[k]) = {}
  BY <1>1, RangeEmpty
<1>4. InMemory = {} /\ Spooled = {}
  BY <1>0, <1>2, <1>3, MemIs, SpooledIs DEF Spooled
<1>5. \A i, j \in 1..Len(<<>>) : i = j
  OBVIOUS
<1>6. RecordShape /\ WorkShape /\ KeyShape
  BY <1>1, <1>2, <1>3, <1>5 DEF RecordShape, WorkShape, KeyShape, Apart
<1>7. OnePlace
  BY <1>1, <1>2, <1>3, <1>4 DEF OnePlace, IsInjective
<1>8. Counts
  BY <1>1, <1>4 DEF Counts, StoredOnce
<1> QED
  BY <1>0, <1>6, <1>7, <1>8 DEF OnceInv, OnceShape

(* The backend stores an envelope once, under its own key, plus once for   *)
(* every upload whose answer was lost and every re-ship whose file could   *)
(* not be removed: an envelope is in one place at a time, in memory or in  *)
(* one file of the spool, and a retry tick ships a file at most once.      *)
THEOREM StoredAtMostOnce == Spec => []StoredOnce
<1>1. OnceInv => StoredOnce
  BY DEF OnceInv, OnceShape, Counts
<1>2. Init => OnceInv
  BY OnceStart
<1>3. OnceInv /\ [Next]_vars => OnceInv'
  BY OnceStep
<1> QED
  BY <1>1, <1>2, <1>3, PTL DEF Spec
===============================================================================
