--------------------------- MODULE ScopeStackProofs ---------------------------
(* Theorems about scope frames under async tasks, for any number of        *)
(* threads, tasks and events, any ring capacity, any configurations and    *)
(* any applications, whether tasks keep guards across an .await or not.    *)
EXTENDS ScopeStack, SequenceLemmas

-------------------------------------------------------------------------------
Vals == {NoVal} \union (Task \X Nat)

Envs == [id : Event, by : Task, sev : {Debug, Info, Error}, reason : {"none", "bypass", "override", "tail"},
         big : BOOLEAN, val : Vals, on : Thread, pure : BOOLEAN, depth : Nat]

Frames == [owner : Task, kind : {"Scope", "Context"}, val : Vals, sampled : {"unset", "yes", "no"},
           tail : Seq(Envs), seen_error : BOOLEAN]

ScopeType ==
    /\ stack \in [Thread -> Seq(Frames)]
    /\ run \in [Thread -> Task \union {Idle}]
    /\ task \in [Task -> {"idle", "polling", "dropping", "done"}]
    /\ held \in [Task -> Seq({"guard", "span"})]
    /\ left \in [Thread -> Task \union {Idle, Mixed}]
    /\ flush \in [Thread -> Seq(Envs)]
    /\ sent \in Seq(Envs)

(* A share k of a thread: the thread, k.on, and the task whose frames it   *)
(* has, k.by, or Mixed.  What belongs to it: an envelope, a frame with all *)
(* that is in its ring, a whole stack.                                     *)
OwnEnv(env, k) ==
    /\ env \in Envs /\ env.on = k.on
    /\ k.by # Mixed => (env.by = k.by /\ (env.val # NoVal => env.val[1] = k.by))
OwnEnvs(q, k) == q \in Seq(Envs) /\ \A i \in 1..Len(q) : OwnEnv(q[i], k)
OwnFrame(f, k) ==
    /\ f \in Frames /\ OwnEnvs(f.tail, k)
    /\ k.by # Mixed => (f.owner = k.by /\ (f.val # NoVal => f.val[1] = k.by))
OwnFrames(s, k) == s \in Seq(Frames) /\ \A i \in 1..Len(s) : OwnFrame(s[i], k)

(* The share of a thread now. *)
Whose(th) == [on |-> th, by |-> IF left[th] = Mixed THEN Mixed ELSE Host(th)]

(* The frames a task has on the thread that has its frames only. *)
Depth(n, k, at) == n + (IF Seeded(k) /\ at = "polling" THEN 1 ELSE 0)
Size(k) == IF k = Idle THEN 0 ELSE Depth(Len(held[k]), k, task[k])

(* A thread between two polls has nothing to flush, and of a suspended     *)
(* task the frames it left there; one that polls or drops a task has what  *)
(* that task pushed and has not popped; unless frames have mixed.          *)
ThreadOk(th) ==
    /\ OwnFrames(stack[th], Whose(th)) /\ OwnEnvs(flush[th], Whose(th))
    /\ run[th] = Idle => (flush[th] = <<>> /\ (left[th] \in Task => task[left[th]] = "idle"))
    /\ run[th] # Idle => (task[run[th]] \in {"polling", "dropping"} /\ left[th] \in {Idle, Mixed})
    /\ left[th] # Mixed => Len(stack[th]) = Size(Host(th))

ScopeInv ==
    /\ ScopeType
    /\ \A th \in Thread : ThreadOk(th)
    /\ \A th, u \in Thread : run[th] = run[u] /\ run[th] # Idle => th = u
    /\ OwnTrace

-------------------------------------------------------------------------------
(* Operators.                                                              *)

LEMMA PoppedOwn ==
    ASSUME NEW k, NEW s, OwnFrames(s, k)
    PROVE  OwnFrames(Popped(s), k) /\ (s # <<>> => Len(Popped(s)) = Len(s) - 1)
<1>0. CASE s = <<>>
  BY <1>0 DEF Popped
<1> SUFFICES ASSUME s # <<>> PROVE OwnFrames(Popped(s), k) /\ Len(Popped(s)) = Len(s) - 1
  BY <1>0
<1> DEFINE n == Len(s)
           m == n - 1
<1>1. n \in Nat /\ n > 0 /\ \A i \in 1..n : s[i] \in Frames
  BY DEF OwnFrames
<1>2. Popped(s) = SubSeq(s, 1, m)
  BY DEF Popped, Front
<1> HIDE DEF n
<1>3. m \in Nat /\ n \in 1..n /\ m - 1 + 1 = m /\ \A i \in 1..m : i \in 1..n /\ 1 + i - 1 = i
  BY ONLY <1>1
<1> HIDE DEF m
<1>4. \A i \in 1..m : s[i] \in Frames
  BY ONLY <1>1, <1>3
<1>5. /\ SubSeq(s, 1, m) \in Seq(Frames)
      /\ Len(SubSeq(s, 1, m)) = IF 1 <= m THEN m - 1 + 1 ELSE 0
      /\ \A i \in 1..(m - 1 + 1) : SubSeq(s, 1, m)[i] = s[1 + i - 1]
  BY <1>3, <1>4, SubSeqProperties
<1>6. Len(SubSeq(s, 1, m)) = m
  BY ONLY <1>3, <1>5
<1>7. \A i \in 1..m : SubSeq(s, 1, m)[i] = s[i]
  BY ONLY <1>3, <1>5
<1>8. \A i \in 1..m : OwnFrame(s[i], k)
  BY <1>3 DEF OwnFrames, n
<1>9. OwnFrames(SubSeq(s, 1, m), k)
  BY <1>5, <1>6, <1>7, <1>8 DEF OwnFrames
<1> QED
  BY <1>2, <1>6, <1>9 DEF n, m

LEMMA PushedOwn ==
    ASSUME NEW k, NEW s, OwnFrames(s, k), NEW f, OwnFrame(f, k)
    PROVE  OwnFrames(Append(s, f), k) /\ Len(Append(s, f)) = Len(s) + 1
<1>1. s \in Seq(Frames) /\ f \in Frames
  BY DEF OwnFrames, OwnFrame
<1>2. /\ Append(s, f) \in Seq(Frames) /\ Len(Append(s, f)) = Len(s) + 1
      /\ \A i \in 1..Len(s) : Append(s, f)[i] = s[i]
      /\ Append(s, f)[Len(s) + 1] = f
  BY <1>1
<1>3. \A i \in 1..(Len(s) + 1) : i \in 1..Len(s) \/ i = Len(s) + 1
  <2>1. Len(s) \in Nat
    BY <1>1
  <2> QED
    BY ONLY <2>1
<1> QED
  BY <1>2, <1>3 DEF OwnFrames

LEMMA EmptyOwn ==
    ASSUME NEW k
    PROVE  OwnEnvs(<<>>, k) /\ OwnFrames(<<>>, k)
BY DEF OwnEnvs, OwnFrames

LEMMA TailOwn ==
    ASSUME NEW k, NEW q, OwnEnvs(q, k), q # <<>>
    PROVE  OwnEnvs(Tail(q), k) /\ OwnEnv(Head(q), k)
<1>1. q \in Seq(Envs) /\ Len(q) \in Nat \ {0} /\ Head(q) = q[1] /\ 1 \in 1..Len(q)
  BY DEF OwnEnvs
<1>2. Tail(q) \in Seq(Envs) /\ Len(Tail(q)) = Len(q) - 1
      /\ \A i \in 1..(Len(q) - 1) : Tail(q)[i] = q[i + 1] /\ i + 1 \in 1..Len(q)
  BY <1>1
<1> QED
  BY <1>1, <1>2 DEF OwnEnvs

LEMMA AppendOwn ==
    ASSUME NEW k, NEW q, OwnEnvs(q, k), NEW env, OwnEnv(env, k)
    PROVE  OwnEnvs(Append(q, env), k)
<1>1. q \in Seq(Envs) /\ env \in Envs
  BY DEF OwnEnvs, OwnEnv
<1>2. /\ Append(q, env) \in Seq(Envs) /\ Len(Append(q, env)) = Len(q) + 1
      /\ \A i \in 1..Len(q) : Append(q, env)[i] = q[i]
      /\ Append(q, env)[Len(q) + 1] = env
  BY <1>1
<1>3. \A i \in 1..(Len(q) + 1) : i \in 1..Len(q) \/ i = Len(q) + 1
  <2>1. Len(q) \in Nat
    BY <1>1
  <2> QED
    BY ONLY <2>1
<1> QED
  BY <1>2, <1>3 DEF OwnEnvs

(* auto_fill_envelope takes its value from a frame of the same task. *)
LEMMA AutoFillOwn ==
    ASSUME NEW k, NEW env, OwnEnv(env, k), NEW s, OwnFrames(s, k)
    PROVE  OwnEnv(AutoFill(env, s), k)
<1> DEFINE declares == {i \in DOMAIN s : s[i].val # NoVal}
           v == s[Max(declares)].val
<1>1. CASE env.val # NoVal \/ declares = {}
  BY <1>1 DEF AutoFill
<1>2. CASE env.val = NoVal /\ declares # {}
  <2>1. Len(s) \in Nat /\ DOMAIN s = 1..Len(s) /\ declares \in SUBSET (1..Len(s))
    BY DEF OwnFrames
  <2>2. Max(declares) \in declares
    BY <1>2, <2>1, MaxIsIn
  <2>3. OwnFrame(s[Max(declares)], k) /\ v # NoVal
    BY <2>1, <2>2 DEF OwnFrames
  <2>4. v \in Vals /\ (k.by # Mixed => v[1] = k.by)
    BY <2>3 DEF OwnFrame, Frames
  <2>5. AutoFill(env, s) = [env EXCEPT !.val = v]
    BY <1>2 DEF AutoFill
  <2> HIDE DEF v
  <2> QED
    BY <2>4, <2>5 DEF OwnEnv, Envs
<1> QED
  BY <1>1, <1>2

(* A ring takes envelopes of its own task only. *)
LEMMA PushTailOwn ==
    ASSUME NEW k, NEW f, OwnFrame(f, k), NEW env, OwnEnv(env, k)
    PROVE  OwnFrame(PushTail(f, env), k)
<1> DEFINE kept == IF Len(f.tail) >= TailCapacity THEN Tail(f.tail) ELSE f.tail
           q == Append(kept, env)
<1>1. CASE f.kind = "Context" \/ TailCapacity = 0
  BY <1>1 DEF PushTail
<1>2. CASE ~(f.kind = "Context" \/ TailCapacity = 0)
  <2>1. OwnEnvs(f.tail, k) /\ f.tail \in Seq(Envs)
    BY DEF OwnFrame, OwnEnvs
  <2>2. OwnEnvs(kept, k)
    <3>1. Len(f.tail) >= TailCapacity => f.tail # <<>>
      BY <1>2, <2>1, ScopeAssumption
    <3> QED
      BY <2>1, <3>1, TailOwn
  <2>3. OwnEnvs(q, k)
    <3> HIDE DEF kept
    <3> QED
      BY <2>2, AppendOwn
  <2>4. PushTail(f, env) = [f EXCEPT !.tail = q]
    BY <1>2 DEF PushTail
  <2> HIDE DEF q
  <2> QED
    BY <2>3, <2>4 DEF OwnFrame, OwnEnvs, Frames
<1> QED
  BY <1>1, <1>2

LEMMA RecordOwn ==
    ASSUME NEW k, NEW env, OwnEnv(env, k), NEW s, OwnFrames(s, k)
    PROVE  OwnFrames(Record(env, s), k) /\ Len(Record(env, s)) = Len(s)
<1>0. s \in Seq(Frames) /\ DOMAIN s = 1..Len(s) /\ Len(s) \in Nat
  BY DEF OwnFrames
<1>1. CASE env.sev = Debug /\ s # <<>>
  <2> DEFINE n == Len(s)
             f == PushTail(s[n], env)
             r == [s EXCEPT ![n] = f]
  <2>1. n \in 1..n
    BY <1>0, <1>1
  <2>2. OwnFrame(f, k)
    BY <2>1, PushTailOwn DEF OwnFrames
  <2>3. Record(env, s) = r
    BY <1>1 DEF Record
  <2> HIDE DEF f
  <2>4. f \in Frames
    BY <2>2 DEF OwnFrame
  <2>5. r \in Seq(Frames) /\ Len(r) = n /\ \A i \in 1..n : r[i] = IF i = n THEN f ELSE s[i]
    BY <1>0, <2>1, <2>4
  <2> QED
    BY <2>2, <2>3, <2>5 DEF OwnFrames
<1>2. CASE ~(env.sev = Debug /\ s # <<>>) /\ env.sev >= Error
  <2> DEFINE marked(i) == [s[i] EXCEPT !.seen_error = TRUE]
             r == [i \in 1..Len(s) |-> marked(i)]
  <2>1. Record(env, s) = r
    BY <1>0, <1>2 DEF Record
  <2>2. \A i \in 1..Len(s) : OwnFrame(marked(i), k)
    BY DEF OwnFrames, OwnFrame, Frames
  <2>3. \A i \in 1..Len(s) : marked(i) \in Frames
    BY <2>2 DEF OwnFrame
  <2> HIDE DEF marked
  <2>4. r \in Seq(Frames) /\ Len(r) = Len(s) /\ \A i \in 1..Len(s) : r[i] = marked(i)
    BY <1>0, <2>3
  <2>5. \A i \in 1..Len(s) : OwnFrame(r[i], k)
    BY <2>2, <2>4
  <2> HIDE DEF r
  <2> QED
    BY <2>1, <2>4, <2>5 DEF OwnFrames
<1>3. CASE ~(env.sev = Debug /\ s # <<>>) /\ ~(env.sev >= Error)
  BY <1>3 DEF Record
<1> QED
  BY <1>1, <1>2, <1>3

(* What leaves run_emit_pipeline, and what it leaves on the stack. *)
LEMMA PipelineOwn ==
    ASSUME NEW k, NEW env, OwnEnv(env, k), NEW s, OwnFrames(s, k), NEW out \in Pipeline(env, s)
    PROVE  /\ OwnFrames(out.stack, k) /\ Len(out.stack) = Len(s) /\ OwnEnvs(out.keep, k)
           /\ \A i \in 1..Len(out.keep) : out.keep[i].pure = env.pure
<1> DEFINE filled == AutoFill(env, s)
           named(d) == IF d = "ParentYes" THEN [filled EXCEPT !.reason = "override"] ELSE filled
           Good(y) == OwnFrames(y.stack, k) /\ Len(y.stack) = Len(s) /\ OwnEnvs(y.keep, k)
                      /\ \A i \in 1..Len(y.keep) : y.keep[i].pure = env.pure
<1>1. OwnEnv(filled, k) /\ filled.pure = env.pure
  BY AutoFillOwn DEF AutoFill, OwnEnv, Envs
<1> HIDE DEF filled
<1>2. \A x : OwnEnv(x, k) => OwnEnvs(<<x>>, k)
  BY DEF OwnEnv, OwnEnvs
<1>3. OwnEnvs(<<>>, k)
  BY DEF OwnEnvs
<1>4. CASE out = Lost(s)
  BY <1>3, <1>4 DEF Lost
<1>5. CASE out = [keep |-> <<filled>>, stack |-> s]
  BY <1>1, <1>2, <1>5
<1>6. ASSUME NEW d, out = [keep |-> <<named(d)>>, stack |-> Record(named(d), s)]
      PROVE  Good(out)
  <2>1. OwnEnv(named(d), k) /\ named(d).pure = env.pure
    BY <1>1 DEF OwnEnv, Envs
  <2> HIDE DEF named
  <2> QED
    BY <1>2, <1>6, <2>1, RecordOwn
<1>7. \/ out = Lost(s)
      \/ out = [keep |-> <<filled>>, stack |-> s]
      \/ \E d : out = [keep |-> <<named(d)>>, stack |-> Record(named(d), s)]
  BY DEF Pipeline, filled
<1> QED
  BY <1>4, <1>5, <1>6, <1>7

LEMMA SentOwn ==
    ASSUME ScopeInv, NEW k, NEW keep, OwnEnvs(keep, k), sent' = sent \o keep,
           \A i \in 1..Len(keep) : keep[i].pure => k.by # Mixed
    PROVE  sent' \in Seq(Envs) /\ OwnTrace'
<1>1. sent \in Seq(Envs) /\ keep \in Seq(Envs)
  BY DEF ScopeInv, ScopeType, OwnEnvs
<1>2. /\ sent' \in Seq(Envs) /\ Len(sent') = Len(sent) + Len(keep)
      /\ \A i \in 1..(Len(sent) + Len(keep)) :
            sent'[i] = IF i <= Len(sent) THEN sent[i] ELSE keep[i - Len(sent)]
  BY <1>1
<1>3. Len(sent) \in Nat /\ Len(keep) \in Nat /\ DOMAIN sent = 1..Len(sent) /\ DOMAIN sent' = 1..Len(sent')
  BY <1>1, <1>2
<1>4. ASSUME NEW i \in DOMAIN sent', sent'[i].pure, sent'[i].val # NoVal PROVE sent'[i].val[1] = sent'[i].by
  <2>1. CASE i <= Len(sent)
    <3>1. i \in DOMAIN sent /\ sent'[i] = sent[i]
      BY <1>2, <1>3, <2>1
    <3> QED
      BY <1>4, <3>1 DEF ScopeInv, OwnTrace
  <2>2. CASE ~(i <= Len(sent))
    <3>1. i - Len(sent) \in 1..Len(keep)
      <4>1. i \in 1..(Len(sent) + Len(keep))
        BY <1>2, <1>3
      <4> QED
        BY ONLY <1>3, <2>2, <4>1
    <3>2. sent'[i] = keep[i - Len(sent)]
      BY <1>2, <1>3, <2>2
    <3>3. OwnEnv(sent'[i], k) /\ k.by # Mixed
      BY <1>4, <3>1, <3>2 DEF OwnEnvs
    <3> QED
      BY <1>4, <3>3 DEF OwnEnv
  <2> QED
    BY <2>1, <2>2
<1> QED
  BY <1>2, <1>4 DEF OwnTrace

(* A thread whose frames mix has them still. *)
LEMMA WidenedOwn ==
    ASSUME NEW k, NEW w, w = k \/ (w.on = k.on /\ w.by = Mixed)
    PROVE  /\ \A env : OwnEnv(env, k) => OwnEnv(env, w)
           /\ \A q : OwnEnvs(q, k) => OwnEnvs(q, w)
           /\ \A f : OwnFrame(f, k) => OwnFrame(f, w)
           /\ \A s : OwnFrames(s, k) => OwnFrames(s, w)
<1>1. \A env : OwnEnv(env, k) => OwnEnv(env, w)
  BY DEF OwnEnv
<1>2. \A q : OwnEnvs(q, k) => OwnEnvs(q, w)
  BY <1>1 DEF OwnEnvs
<1>3. \A f : OwnFrame(f, k) => OwnFrame(f, w)
  BY <1>2 DEF OwnFrame
<1> QED
  BY <1>1, <1>2, <1>3 DEF OwnFrames

(* A step of one thread, with a task it has or takes up. *)
LEMMA OneThread ==
    ASSUME ScopeInv, NEW th \in Thread, NEW k \in Task, ScopeType', OwnTrace',
           \A u \in Thread : u # th => run'[u] = run[u] /\ stack'[u] = stack[u] /\ flush'[u] = flush[u],
           \A l \in Task : l # k => task'[l] = task[l] /\ held'[l] = held[l],
           \/ run[th] = k /\ run'[th] \in {Idle, k} /\ \A u \in Thread : u # th => left'[u] = left[u]
           \/ /\ task[k] = "idle" /\ run'[th] = k
              /\ \A u \in Thread : u # th => left'[u] = IF left[u] = k THEN Mixed ELSE left[u],
           ThreadOk(th)'
    PROVE  ScopeInv'
<1>1. /\ \A u \in Thread : run[u] \in Task \union {Idle} /\ left[u] \in Task \union {Idle, Mixed}
      /\ \A u \in Thread : ThreadOk(u)
      /\ Idle \notin Task /\ Mixed \notin Task /\ Mixed # Idle
  BY ScopeAssumption DEF ScopeInv, ScopeType
<1>2. ASSUME NEW u \in Thread, u # th
      PROVE  run[u] # k /\ ((left'[u] = left[u] /\ left[u] # k) \/ (left[u] = k /\ left'[u] = Mixed))
  <2>1. CASE run[th] = k /\ \A v \in Thread : v # th => left'[v] = left[v]
    <3>1. run[u] # k
      BY <1>1, <1>2, <2>1 DEF ScopeInv
    <3>2. task[k] # "idle"
      BY <1>1, <2>1 DEF ThreadOk
    <3>3. left[u] # k
      <4>1. CASE run[u] = Idle
        BY <1>1, <3>2, <4>1 DEF ThreadOk
      <4>2. CASE run[u] # Idle
        BY <1>1, <4>2 DEF ThreadOk
      <4> QED
        BY <4>1, <4>2
    <3> QED
      BY <1>2, <2>1, <3>1, <3>3
  <2>2. CASE task[k] = "idle" /\ \A v \in Thread : v # th => left'[v] = IF left[v] = k THEN Mixed ELSE left[v]
    <3>1. run[u] # k
      BY <1>1, <2>2 DEF ThreadOk
    <3> QED
      BY <1>2, <2>2, <3>1
  <2> QED
    BY <2>1, <2>2
<1>3. ASSUME NEW u \in Thread PROVE ThreadOk(u)'
  <2>1. CASE u = th
    BY <2>1
  <2>2. CASE u # th
    <3>1. run'[u] = run[u] /\ stack'[u] = stack[u] /\ flush'[u] = flush[u] /\ run[u] # k
      BY <1>2, <2>2
    <3>2. \A l \in Task : l # k => task'[l] = task[l] /\ held'[l] = held[l]
      OBVIOUS
    <3>3. ThreadOk(u)
      BY <1>1
    <3>4. CASE left'[u] = left[u] /\ left[u] # k
      <4>1. Host(u)' = Host(u) /\ Whose(u)' = Whose(u) /\ Host(u) # k
        BY <3>1, <3>4 DEF Host, Whose
      <4>2. left[u] # Mixed => Size(Host(u))' = Size(Host(u))
        <5>1. PICK l : l = Host(u)
          OBVIOUS
        <5>2. l = Host(u)' /\ l # k
          BY <4>1, <5>1
        <5>3. left[u] # Mixed => l \in Task \union {Idle}
          BY <1>1, <5>1 DEF Host
        <5>4. left[u] # Mixed => Size(l)' = Size(l)
          BY <3>2, <5>2, <5>3 DEF Size, Depth
        <5> QED
          BY <5>1, <5>2, <5>4 DEF Size
      <4>3. PICK w : w = Whose(u)
        OBVIOUS
      <4>4. w = Whose(u)'
        BY <4>1, <4>3
      <4>5. OwnFrames(stack'[u], Whose(u)') /\ OwnEnvs(flush'[u], Whose(u)')
        BY <3>1, <3>3, <4>3, <4>4 DEF ThreadOk
      <4>6. /\ run'[u] = Idle => (flush'[u] = <<>> /\ (left'[u] \in Task => task'[left'[u]] = "idle"))
            /\ run'[u] # Idle => (task'[run'[u]] \in {"polling", "dropping"} /\ left'[u] \in {Idle, Mixed})
        BY <1>1, <3>1, <3>2, <3>3, <3>4 DEF ThreadOk
      <4>7. left'[u] # Mixed => Len(stack'[u]) = Size(Host(u))'
        BY <3>1, <3>3, <3>4, <4>2 DEF ThreadOk
      <4> QED
        BY <4>5, <4>6, <4>7 DEF ThreadOk
    <3>5. CASE left[u] = k /\ left'[u] = Mixed
      <4>1. run[u] = Idle
        BY <1>1, <3>3, <3>5 DEF ThreadOk
      <4>2. PICK w, v : w = Whose(u)' /\ v = Whose(u)
        OBVIOUS
      <4>3. w.on = v.on /\ w.by = Mixed
        BY <3>5, <4>2 DEF Whose
      <4>4. OwnFrames(stack[u], w) /\ OwnEnvs(flush[u], w)
        BY <3>3, <4>2, <4>3, WidenedOwn DEF ThreadOk
      <4> QED
        BY <1>1, <3>1, <3>3, <3>5, <4>1, <4>2, <4>4 DEF ThreadOk
    <3> QED
      BY <1>2, <2>2, <3>4, <3>5
  <2> QED
    BY <2>1, <2>2
<1>4. ASSUME NEW u \in Thread, NEW v \in Thread, run'[u] = run'[v], run'[u] # Idle PROVE u = v
  <2>1. \A x \in Thread : x # th => run'[x] = run[x] /\ run[x] # k
    BY <1>2
  <2>2. run'[th] \in {Idle, k}
    OBVIOUS
  <2> QED
    BY <1>4, <2>1, <2>2 DEF ScopeInv
<1> QED
  BY <1>3, <1>4 DEF ScopeInv

LEMMA ScopeInitInv == Init => ScopeInv
<1> SUFFICES ASSUME Init PROVE ScopeInv
  OBVIOUS
<1>1. ScopeType
  BY DEF Init, ScopeType
<1>2. ASSUME NEW th \in Thread PROVE ThreadOk(th)
  <2>1. stack[th] = <<>> /\ flush[th] = <<>> /\ run[th] = Idle /\ left[th] = Idle /\ Len(<<>>) = 0
    BY <1>2 DEF Init
  <2>2. OwnFrames(<<>>, Whose(th)) /\ OwnEnvs(<<>>, Whose(th))
    BY EmptyOwn
  <2>3. Idle \notin Task
    BY ScopeAssumption
  <2> QED
    BY <2>1, <2>2, <2>3 DEF ThreadOk, Host, Size
<1> QED
  BY <1>1, <1>2 DEF Init, ScopeInv, OwnTrace

(* A thread that runs a task, and that task. *)
LEMMA Running ==
    ASSUME ScopeInv, NEW th \in Thread, run[th] # Idle
    PROVE  /\ run[th] \in Task /\ task[run[th]] \in {"polling", "dropping"} /\ left[th] \in {Idle, Mixed}
           /\ OwnFrames(stack[th], Whose(th)) /\ OwnEnvs(flush[th], Whose(th))
           /\ stack[th] \in Seq(Frames) /\ held[run[th]] \in Seq({"guard", "span"})
           /\ Whose(th).on = th /\ Whose(th).by \in {run[th], Mixed}
           /\ left[th] # Mixed => Len(stack[th]) = Depth(Len(held[run[th]]), run[th], task[run[th]])
BY DEF ScopeInv, ScopeType, ThreadOk, Whose, Host, Size

LEMMA DepthMoves ==
    ASSUME NEW n \in Nat, NEW k, NEW at
    PROVE  Depth(n + 1, k, at) = Depth(n, k, at) + 1 /\ Depth(n, k, at) \in Nat /\ Depth(n, k, at) >= n
BY DEF Depth

(* A thread goes on with the same task. *)
LEMMA GoesOn ==
    ASSUME ScopeInv, NEW th \in Thread, run[th] # Idle, UNCHANGED <<run, task, left>>,
           OwnFrames(stack'[th], Whose(th)), OwnEnvs(flush'[th], Whose(th)),
           left[th] # Mixed => Len(stack'[th]) = Depth(Len(held'[run[th]]), run[th], task[run[th]])
    PROVE  ThreadOk(th)' /\ Whose(th)' = Whose(th)
<1>1. Whose(th)' = Whose(th) /\ Host(th)' = Host(th) /\ Host(th) = run[th]
  BY DEF Whose, Host
<1>2. PICK w, k : w = Whose(th) /\ k = run[th]
  OBVIOUS
<1>3. w = Whose(th)' /\ k = Host(th)' /\ k = run'[th] /\ k # Idle
  BY <1>1, <1>2
<1>4. task'[k] \in {"polling", "dropping"} /\ left'[th] \in {Idle, Mixed}
  BY <1>2, Running
<1>5. left'[th] # Mixed => Len(stack'[th]) = Size(Host(th))'
  <2>1. Size(k)' = Depth(Len(held'[k]), k, task'[k])
    BY <1>3 DEF Size, Depth
  <2>2. Size(Host(th))' = Size(k)'
    BY <1>3 DEF Size
  <2> QED
    BY <1>2, <2>1, <2>2
<1>6. OwnFrames(stack'[th], Whose(th)') /\ OwnEnvs(flush'[th], Whose(th)')
  BY <1>2, <1>3
<1> QED
  BY <1>1, <1>3, <1>4, <1>5, <1>6 DEF ThreadOk

(* A frame is pushed by the task being polled. *)
LEMMA FramePushed ==
    ASSUME ScopeInv, NEW th \in Thread, Busy(th), NEW f, OwnFrame(f, Whose(th)),
           NEW what \in {"guard", "span"}, Push(th, f),
           held' = [held EXCEPT ![run[th]] = Append(@, what)],
           UNCHANGED <<run, task, left, flush, cfg, emitted, sent>>
    PROVE  ScopeInv'
<1>0. PICK k, w : k = run[th] /\ w = Whose(th)
  OBVIOUS
<1> DEFINE s == Append(stack[th], f)
           hs == Append(held[k], what)
<1>1. /\ k \in Task /\ OwnFrames(stack[th], w) /\ held[k] \in Seq({"guard", "span"})
      /\ stack[th] \in Seq(Frames) /\ OwnEnvs(flush[th], w) /\ k # Idle
      /\ left[th] # Mixed => Len(stack[th]) = Depth(Len(held[k]), k, task[k])
  BY <1>0, Running DEF Busy
<1>2. OwnFrames(s, w) /\ Len(s) = Len(stack[th]) + 1
  BY <1>0, <1>1, PushedOwn
<1>3. hs \in Seq({"guard", "span"}) /\ Len(hs) = Len(held[k]) + 1 /\ Len(held[k]) \in Nat
  BY <1>1
<1>4. /\ stack' = [stack EXCEPT ![th] = s] /\ held' = [held EXCEPT ![k] = hs]
      /\ UNCHANGED <<run, task, left, flush, sent>>
  BY <1>0 DEF Push
<1> HIDE DEF s, hs
<1>5. ScopeType'
  BY <1>1, <1>2, <1>3, <1>4 DEF ScopeInv, ScopeType, OwnFrames
<1>6. /\ stack'[th] = s /\ held'[k] = hs
      /\ \A u \in Thread : u # th => stack'[u] = stack[u]
      /\ \A l \in Task : l # k => held'[l] = held[l]
  BY <1>1, <1>4 DEF ScopeInv, ScopeType
<1>7. left[th] # Mixed => Len(s) = Depth(Len(hs), k, task[k])
  <2> SUFFICES ASSUME left[th] # Mixed PROVE Len(s) = Depth(Len(hs), k, task[k])
    OBVIOUS
  <2>1. /\ Len(s) = Depth(Len(held[k]), k, task[k]) + 1 /\ Len(hs) = Len(held[k]) + 1
        /\ Len(held[k]) \in Nat
    BY <1>1, <1>2, <1>3
  <2> QED
    BY ONLY <2>1, DepthMoves
<1>8. ThreadOk(th)'
  BY <1>0, <1>1, <1>2, <1>4, <1>6, <1>7, GoesOn
<1>9. OwnTrace'
  BY <1>4 DEF ScopeInv, OwnTrace
<1> QED
  BY <1>0, <1>1, <1>4, <1>5, <1>6, <1>8, <1>9, OneThread

(* A guard or a span is let go of, and the top frame goes. *)
LEMMA FramePopped ==
    ASSUME ScopeInv, NEW th \in Thread, Busy(th), held[run[th]] # <<>>, LetGo(th),
           stack' = [stack EXCEPT ![th] = Popped(@)], NEW q, OwnEnvs(q, Whose(th)),
           flush' = [flush EXCEPT ![th] = q], UNCHANGED <<run, task, left, cfg, emitted, sent>>
    PROVE  ScopeInv'
<1>0. PICK k, w : k = run[th] /\ w = Whose(th)
  OBVIOUS
<1> DEFINE s == Popped(stack[th])
           hs == Front(held[k])
<1>1. /\ k \in Task /\ OwnFrames(stack[th], w) /\ held[k] \in Seq({"guard", "span"})
      /\ stack[th] \in Seq(Frames) /\ k # Idle
      /\ left[th] # Mixed => Len(stack[th]) = Depth(Len(held[k]), k, task[k])
  BY <1>0, Running DEF Busy
<1>2. hs \in Seq({"guard", "span"}) /\ Len(hs) = Len(held[k]) - 1 /\ Len(held[k]) \in Nat \ {0}
  BY <1>0, <1>1 DEF Front
<1>3. /\ Len(hs) \in Nat /\ Len(held[k]) = Len(hs) + 1
      /\ Depth(Len(held[k]), k, task[k]) = Depth(Len(hs), k, task[k]) + 1
      /\ Depth(Len(hs), k, task[k]) \in Nat
  <2>1. Len(hs) \in Nat /\ Len(held[k]) = Len(hs) + 1
    <3>1. Len(held[k]) \in Nat /\ Len(held[k]) # 0 /\ Len(hs) = Len(held[k]) - 1
      BY <1>2
    <3> HIDE DEF hs
    <3> QED
      BY ONLY <3>1
  <2> HIDE DEF hs
  <2> QED
    BY ONLY <2>1, DepthMoves
<1>4. OwnFrames(s, w) /\ (stack[th] # <<>> => Len(s) = Len(stack[th]) - 1)
  BY <1>1, PoppedOwn
<1>5. /\ stack' = [stack EXCEPT ![th] = s] /\ held' = [held EXCEPT ![k] = hs]
      /\ UNCHANGED <<run, task, left, sent>>
  BY <1>0 DEF LetGo
<1> HIDE DEF s, hs
<1>6. ScopeType'
  BY <1>1, <1>2, <1>4, <1>5 DEF ScopeInv, ScopeType, OwnFrames, OwnEnvs
<1>7. /\ stack'[th] = s /\ held'[k] = hs /\ flush'[th] = q
      /\ \A u \in Thread : u # th => stack'[u] = stack[u] /\ flush'[u] = flush[u]
      /\ \A l \in Task : l # k => held'[l] = held[l]
  BY <1>1, <1>5 DEF ScopeInv, ScopeType
<1>8. left[th] # Mixed => Len(s) = Depth(Len(hs), k, task[k])
  <2> SUFFICES ASSUME left[th] # Mixed PROVE Len(s) = Depth(Len(hs), k, task[k])
    OBVIOUS
  <2>1. Len(stack[th]) = Depth(Len(hs), k, task[k]) + 1
    BY <1>1, <1>3
  <2>2. Len(stack[th]) # 0
    BY ONLY <1>3, <2>1
  <2>3. stack[th] # <<>>
    BY <2>2
  <2>4. Len(s) = Len(stack[th]) - 1
    BY <1>4, <2>3
  <2> QED
    BY ONLY <1>3, <2>1, <2>4
<1>9. ThreadOk(th)'
  BY <1>0, <1>1, <1>4, <1>5, <1>7, <1>8, GoesOn
<1>10. OwnTrace'
  BY <1>5 DEF ScopeInv, OwnTrace
<1> QED
  BY <1>0, <1>1, <1>5, <1>6, <1>7, <1>9, <1>10, OneThread

(* What a guard leaves to flush is its own share's. *)
LEMMA LeftoverOwn ==
    ASSUME NEW k, NEW s, OwnFrames(s, k)
    PROVE  OwnEnvs(Leftover(s), k)
<1>1. CASE s = <<>>
  BY <1>1 DEF Leftover, OwnEnvs
<1>2. CASE s # <<>>
  <2>1. s \in Seq(Frames) /\ Len(s) \in 1..Len(s)
    BY <1>2 DEF OwnFrames
  <2>2. OwnFrame(Last(s), k)
    BY <2>1 DEF OwnFrames, Last
  <2>3. OwnEnvs(<<>>, k)
    BY DEF OwnEnvs
  <2> QED
    BY <2>2, <2>3 DEF Leftover, OwnFrame
<1> QED
  BY <1>1, <1>2

(* An envelope as the pipeline takes it on a thread. *)
LEMMA OnThread ==
    ASSUME ScopeInv, NEW th \in Thread, NEW env, OwnEnv(env, Whose(th)),
           NEW x, x = Marked(th, env)
    PROVE  /\ OwnEnv(x, Whose(th)) /\ (x.pure <=> left[th] # Mixed)
           /\ x.id = env.id /\ x.by = env.by /\ x.val = env.val /\ x.depth = env.depth
           /\ x.reason = env.reason /\ x.on = env.on /\ x.on = th
<1>1. PICK p \in BOOLEAN : p = (left[th] # Mixed)
  OBVIOUS
<1>2. PICK w : w = Whose(th)
  OBVIOUS
<1>3. OwnEnv(env, w) /\ w.on = th
  BY <1>2 DEF Whose
<1>4. x = [env EXCEPT !.on = th, !.pure = p]
  BY <1>1 DEF Marked
<1>5. /\ OwnEnv(x, w) /\ x.pure = p
      /\ x.id = env.id /\ x.by = env.by /\ x.val = env.val /\ x.depth = env.depth
      /\ x.reason = env.reason /\ x.on = env.on /\ x.on = th
  BY ONLY <1>3, <1>4, p \in BOOLEAN DEF OwnEnv, Envs
<1> QED
  BY <1>1, <1>2, <1>5

(* One envelope of the task that runs goes through the pipeline. *)
LEMMA ThroughInv ==
    ASSUME ScopeInv, NEW th \in Thread, run[th] # Idle, NEW env, OwnEnv(env, Whose(th)), Through(th, env),
           flush' \in [Thread -> Seq(Envs)], OwnEnvs(flush'[th], Whose(th)),
           \A u \in Thread : u # th => flush'[u] = flush[u], UNCHANGED <<run, task, left, held, cfg>>
    PROVE  ScopeInv'
<1>0. PICK k, w : k = run[th] /\ w = Whose(th)
  OBVIOUS
<1>1. /\ k \in Task /\ OwnFrames(stack[th], w)
      /\ left[th] # Mixed => Len(stack[th]) = Depth(Len(held[k]), k, task[k])
      /\ left[th] \in {Idle, Mixed} /\ (w.by = Mixed => left[th] = Mixed)
  BY <1>0, Running, ScopeAssumption DEF Whose, Host
<1>x. PICK x : x = Marked(th, env)
  OBVIOUS
<1>2. /\ OwnEnv(x, w) /\ (x.pure <=> left[th] # Mixed)
      /\ \E out \in Pipeline(x, stack[th]) :
            stack' = [stack EXCEPT ![th] = out.stack] /\ sent' = sent \o out.keep
  BY <1>0, <1>x, OnThread DEF Through
<1>3. PICK out \in Pipeline(x, stack[th]) :
          stack' = [stack EXCEPT ![th] = out.stack] /\ sent' = sent \o out.keep
  BY <1>2
<1>4. OwnFrames(out.stack, w) /\ Len(out.stack) = Len(stack[th]) /\ OwnEnvs(out.keep, w)
      /\ \A i \in 1..Len(out.keep) : out.keep[i].pure = x.pure
  BY <1>1, <1>2, PipelineOwn
<1>5. \A i \in 1..Len(out.keep) : out.keep[i].pure => w.by # Mixed
  BY ONLY <1>1, <1>2, <1>4, Zenon
<1>6. sent' \in Seq(Envs) /\ OwnTrace'
  BY <1>3, <1>4, <1>5, SentOwn
<1>7. out.stack \in Seq(Frames)
  BY <1>4 DEF OwnFrames
<1>8. ScopeType'
  BY <1>3, <1>6, <1>7 DEF ScopeInv, ScopeType
<1>9. stack'[th] = out.stack /\ \A u \in Thread : u # th => stack'[u] = stack[u]
  BY <1>3 DEF ScopeInv, ScopeType
<1>10. ThreadOk(th)'
  BY <1>0, <1>1, <1>4, <1>9, GoesOn
<1> QED
  BY <1>0, <1>1, <1>6, <1>8, <1>9, <1>10, OneThread

(* A poll, or the drop of a cancelled future, ends. *)
LEMMA PollLeft ==
    ASSUME ScopeInv, NEW th \in Thread, Busy(th), NEW at \in {"idle", "done"}, LeavePoll(th, at),
           at = "done" => held[run[th]] = <<>>
    PROVE  ScopeInv' /\ OwnFrames(stack'[th], Whose(th)')
<1>0. PICK k, w : k = run[th] /\ w = Whose(th)
  OBVIOUS
<1> DEFINE s == IF Seeded(k) /\ task[k] = "polling" THEN Popped(stack[th]) ELSE stack[th]
<1>1. /\ k \in Task /\ OwnFrames(stack[th], w) /\ k # Idle /\ flush[th] = <<>> /\ stack[th] \in Seq(Frames)
      /\ left[th] # Mixed => Len(stack[th]) = Depth(Len(held[k]), k, task[k])
      /\ held[k] \in Seq({"guard", "span"}) /\ left[th] \in {Idle, Mixed} /\ Idle # Mixed /\ k # Mixed
      /\ Idle \notin Task /\ Mixed \notin Task
  BY <1>0, Running, ScopeAssumption DEF Busy
<1>2. /\ run' = [run EXCEPT ![th] = Idle] /\ task' = [task EXCEPT ![k] = at]
      /\ left' = [left EXCEPT ![th] = IF @ = Mixed \/ held[k] = <<>> THEN @ ELSE k]
      /\ stack' = [stack EXCEPT ![th] = s] /\ UNCHANGED <<held, flush, sent>>
  BY <1>0 DEF LeavePoll, Leaves
<1>3. OwnFrames(s, w)
  BY <1>1, PoppedOwn
<1>4. left[th] # Mixed => Len(s) = Len(held[k])
  <2> SUFFICES ASSUME left[th] # Mixed PROVE Len(s) = Len(held[k])
    OBVIOUS
  <2>0. Len(held[k]) \in Nat
    BY <1>1
  <2>1. Len(stack[th]) = Len(held[k]) + (IF Seeded(k) /\ task[k] = "polling" THEN 1 ELSE 0)
    BY <1>1 DEF Depth
  <2>2. CASE Seeded(k) /\ task[k] = "polling"
    <3>1. Len(stack[th]) = Len(held[k]) + 1
      BY <2>1, <2>2
    <3>2. Len(stack[th]) # 0
      BY ONLY <2>0, <3>1
    <3>3. stack[th] # <<>>
      BY <3>2
    <3>4. Len(s) = Len(stack[th]) - 1
      BY <1>1, <2>2, <3>3, PoppedOwn
    <3> QED
      BY ONLY <2>0, <3>1, <3>4
  <2>3. CASE ~(Seeded(k) /\ task[k] = "polling")
    <3>1. Len(stack[th]) = Len(held[k]) + 0 /\ s = stack[th]
      BY <2>1, <2>3
    <3> HIDE DEF s
    <3> QED
      BY <2>0, <3>1
  <2> QED
    BY <2>2, <2>3
<1> HIDE DEF s
<1>5. s \in Seq(Frames)
  BY <1>3 DEF OwnFrames
<1>6. ScopeType'
  BY <1>1, <1>2, <1>5 DEF ScopeInv, ScopeType
<1>7. /\ run'[th] = Idle /\ stack'[th] = s /\ task'[k] = at /\ flush'[th] = <<>>
      /\ left'[th] = IF left[th] = Mixed \/ held[k] = <<>> THEN left[th] ELSE k
      /\ \A u \in Thread : u # th => run'[u] = run[u] /\ stack'[u] = stack[u] /\ left'[u] = left[u]
      /\ \A l \in Task : l # k => task'[l] = task[l]
  BY <1>1, <1>2 DEF ScopeInv, ScopeType
<1>8. OwnEnvs(flush'[th], Whose(th)')
  BY <1>7, EmptyOwn
<1>9. /\ Whose(th)' = [on |-> th, by |-> left'[th]] /\ Host(th)' = left'[th]
      /\ w = [on |-> th, by |-> IF left[th] = Mixed THEN Mixed ELSE k]
  BY <1>0, <1>1, <1>7 DEF Whose, Host
<1>10. OwnFrames(s, Whose(th)') /\ (left'[th] # Mixed => Len(s) = Size(Host(th))')
  <2>1. CASE left[th] = Mixed
    BY <1>1, <1>3, <1>7, <1>9, <2>1
  <2>2. CASE left[th] # Mixed /\ held[k] = <<>>
    <3>1. left'[th] = Idle /\ Len(held[k]) = 0
      BY <1>1, <1>7, <2>2
    <3>2. s = <<>> /\ Len(s) = 0
      BY <1>4, <1>5, <2>2, <3>1
    <3>3. Size(Host(th))' = 0
      BY <1>9, <3>1 DEF Size
    <3> QED
      BY <3>2, <3>3, EmptyOwn
  <2>3. CASE left[th] # Mixed /\ held[k] # <<>>
    <3>1. left'[th] = k /\ Whose(th)' = w /\ at = "idle"
      BY <1>0, <1>7, <1>9, <2>3
    <3>2. Size(Host(th))' = Depth(Len(held[k]), k, "idle")
      BY <1>1, <1>2, <1>7, <1>9, <3>1 DEF Size, Depth
    <3>3. Depth(Len(held[k]), k, "idle") = Len(held[k])
      <4>1. Len(held[k]) \in Nat
        BY <1>1
      <4> QED
        BY <4>1 DEF Depth
    <3> QED
      BY <1>3, <1>4, <2>3, <3>1, <3>2, <3>3
  <2> QED
    BY <2>1, <2>2, <2>3
<1>11. left'[th] \in Task => task'[left'[th]] = "idle"
  BY <1>0, <1>1, <1>7
<1>12. ThreadOk(th)'
  BY <1>7, <1>8, <1>10, <1>11 DEF ThreadOk
<1>13. OwnTrace'
  BY <1>2 DEF ScopeInv, OwnTrace
<1>14. ScopeInv'
  <2>1. \A l \in Task : l # k => task'[l] = task[l] /\ held'[l] = held[l]
    BY <1>2, <1>7
  <2>2. run[th] = k /\ run'[th] \in {Idle, k} /\ \A u \in Thread : u # th => left'[u] = left[u]
    BY <1>0, <1>7
  <2>3. \A u \in Thread : u # th => run'[u] = run[u] /\ stack'[u] = stack[u] /\ flush'[u] = flush[u]
    BY <1>2, <1>7
  <2> QED
    BY <1>1, <1>6, <1>12, <1>13, <2>1, <2>2, <2>3, OneThread
<1> QED
  BY <1>7, <1>10, <1>14

(* An idle thread takes a task up: what lies there stays, and is the       *)
(* task's own unless frames have mixed.                                    *)
LEMMA Taken ==
    ASSUME ScopeInv, NEW th \in Thread, NEW k \in Task, run[th] = Idle, task[k] = "idle",
           run' = [run EXCEPT ![th] = k], Resumed(th, k)
    PROVE  /\ left' \in [Thread -> Task \union {Idle, Mixed}] /\ left'[th] \in {Idle, Mixed}
           /\ \A u \in Thread : u # th => left'[u] = IF left[u] = k THEN Mixed ELSE left[u]
           /\ Whose(th)' = [on |-> th, by |-> IF left'[th] = Mixed THEN Mixed ELSE k]
           /\ Host(th)' = k /\ run'[th] = k /\ flush[th] = <<>> /\ k # Idle /\ k # Mixed
           /\ OwnFrames(stack[th], Whose(th)')
           /\ left'[th] # Mixed => Len(stack[th]) = Len(held[k])
           /\ stack[th] = <<>> \/ Whose(th)' = Whose(th) \/ Whose(th)'.by = Mixed
<1>1. /\ Idle \notin Task /\ Mixed \notin Task /\ Mixed # Idle
      /\ left \in [Thread -> Task \union {Idle, Mixed}] /\ run \in [Thread -> Task \union {Idle}]
      /\ stack[th] \in Seq(Frames) /\ held[k] \in Seq({"guard", "span"}) /\ ThreadOk(th)
  BY ScopeAssumption DEF ScopeInv, ScopeType
<1>2. /\ left' \in [Thread -> Task \union {Idle, Mixed}] /\ left'[th] \in {Idle, Mixed}
      /\ left'[th] = IF left[th] = (IF held[k] = <<>> THEN Idle ELSE k) THEN Idle ELSE Mixed
      /\ \A u \in Thread : u # th => left'[u] = IF left[u] = k THEN Mixed ELSE left[u]
  BY <1>1 DEF Resumed
<1>3. run'[th] = k /\ flush[th] = <<>> /\ k # Idle /\ k # Mixed
  BY <1>1 DEF ThreadOk
<1>4. /\ Whose(th)' = [on |-> th, by |-> IF left'[th] = Mixed THEN Mixed ELSE k] /\ Host(th)' = k
      /\ Whose(th) = [on |-> th, by |-> left[th]] /\ Host(th) = left[th]
  BY <1>3 DEF Whose, Host
<1>5. PICK w, v : w = Whose(th)' /\ v = Whose(th)
  OBVIOUS
<1>6. OwnFrames(stack[th], v) /\ (left[th] # Mixed => Len(stack[th]) = Size(left[th]))
  BY <1>1, <1>4, <1>5 DEF ThreadOk
<1>7. CASE left'[th] = Mixed
  <2>1. w.on = v.on /\ w.by = Mixed
    BY <1>4, <1>5, <1>7
  <2>2. OwnFrames(stack[th], w)
    BY <1>6, <2>1, WidenedOwn
  <2> QED
    BY <1>2, <1>3, <1>4, <1>5, <1>7, <2>1, <2>2
<1>8. CASE left'[th] # Mixed /\ held[k] = <<>>
  <2>1. left[th] = Idle
    BY <1>2, <1>8
  <2>2. Len(stack[th]) = 0 /\ Len(held[k]) = 0
    BY <1>1, <1>6, <1>8, <2>1 DEF Size
  <2>3. stack[th] = <<>>
    BY <1>1, <2>2
  <2>4. OwnFrames(stack[th], w)
    BY <2>3, EmptyOwn
  <2> QED
    BY <1>2, <1>3, <1>4, <1>5, <2>2, <2>3, <2>4
<1>9. CASE left'[th] # Mixed /\ held[k] # <<>>
  <2>1. left[th] = k /\ w = v
    BY <1>2, <1>4, <1>5, <1>9
  <2>2. Len(stack[th]) = Len(held[k])
    <3>1. Len(stack[th]) = Depth(Len(held[k]), k, "idle") /\ Len(held[k]) \in Nat
      BY <1>1, <1>3, <1>6, <2>1 DEF Size
    <3> QED
      BY <3>1 DEF Depth
  <2> QED
    BY <1>2, <1>3, <1>4, <1>5, <1>6, <2>1, <2>2
<1> QED
  BY <1>7, <1>8, <1>9

(* A poll, or the drop of a pending future, begins. *)
LEMMA TaskTaken ==
    ASSUME ScopeInv, NEW th \in Thread, NEW k \in Task, run[th] = Idle, task[k] = "idle",
           NEW at \in {"polling", "dropping"}, run' = [run EXCEPT ![th] = k], task' = [task EXCEPT ![k] = at],
           Resumed(th, k), NEW s, stack' = [stack EXCEPT ![th] = s], OwnFrames(s, Whose(th)'),
           left'[th] # Mixed => Len(s) = Depth(Len(held[k]), k, at),
           UNCHANGED <<held, flush, sent>>
    PROVE  ScopeInv'
<1>1. /\ left' \in [Thread -> Task \union {Idle, Mixed}] /\ left'[th] \in {Idle, Mixed}
      /\ \A u \in Thread : u # th => left'[u] = IF left[u] = k THEN Mixed ELSE left[u]
      /\ Host(th)' = k /\ run'[th] = k /\ flush[th] = <<>> /\ k # Idle
  BY Taken
<1>2. ScopeType'
  BY <1>1 DEF ScopeInv, ScopeType, OwnFrames
<1>3. /\ stack'[th] = s /\ task'[k] = at
      /\ \A u \in Thread : u # th => run'[u] = run[u] /\ stack'[u] = stack[u]
      /\ \A l \in Task : l # k => task'[l] = task[l]
  BY DEF ScopeInv, ScopeType
<1>4. OwnEnvs(flush'[th], Whose(th)')
  BY <1>1, EmptyOwn
<1>5. Size(Host(th))' = Depth(Len(held[k]), k, at)
  BY <1>1, <1>3 DEF Size, Depth
<1>6. ThreadOk(th)'
  BY <1>1, <1>3, <1>4, <1>5 DEF ThreadOk
<1>7. OwnTrace'
  BY DEF ScopeInv, OwnTrace
<1> QED
  BY <1>1, <1>2, <1>3, <1>6, <1>7, OneThread

LEMMA FrameOwn ==
    ASSUME NEW k \in Task, NEW w, w.by \in {k, Mixed}, NEW kind \in {"Scope", "Context"}, NEW v,
           v = NoVal \/ v \in Task \X Nat, v # NoVal => v[1] = k, NEW sampled \in {"unset", "yes", "no"}
    PROVE  /\ OwnFrame(Frame(k, kind, v, sampled), w) /\ Frame(k, kind, v, sampled) \in Frames
           /\ Frame(k, kind, v, sampled).tail = <<>> /\ ~Frame(k, kind, v, sampled).seen_error
<1>1. v \in Vals /\ OwnEnvs(<<>>, w)
  BY DEF Vals, OwnEnvs
<1> QED
  BY <1>1 DEF OwnFrame, Frame, Frames, OwnEnvs

(* What the application does does not change. *)
AppOk == app \in Apps

LEMMA AppNext ==
    ASSUME AppOk, [Next]_vars
    PROVE  AppOk' /\ app.shapes \subseteq Shape /\ app.kinds \subseteq Kind
<1>1. app' = app
  BY DEF Next, Poll, Cancel, Enter, Emit, SpanEnter, SpanExit, DropGuard, IntoInner, FlushOne, Pending, Ready,
         LeavePoll, Leaves, Reload, vars
<1> QED
  BY <1>1, ScopeAssumption DEF AppOk

LEMMA ScopeNextInv == AppOk /\ ScopeInv /\ [Next]_vars => ScopeInv'
<1> SUFFICES ASSUME AppOk, ScopeInv, [Next]_vars PROVE ScopeInv'
  OBVIOUS
<1>val. ASSUME NEW th \in Thread, NEW k \in Task
        PROVE  <<k, Len(stack[th]) + 1>> \in Task \X Nat /\ <<k, Len(stack[th]) + 1>>[1] = k
  <2>1. Len(stack[th]) \in Nat
    BY DEF ScopeInv, ScopeType
  <2> QED
    BY <2>1
<1>1. ASSUME NEW th \in Thread, NEW k \in Task, Poll(th, k) PROVE ScopeInv'
  <2> DEFINE f == Frame(k, SeedKind[k], <<k, Len(stack[th]) + 1>>, "unset")
             s == IF Seeded(k) THEN Append(stack[th], f) ELSE stack[th]
  <2>1. /\ run[th] = Idle /\ task[k] = "idle" /\ run' = [run EXCEPT ![th] = k]
        /\ task' = [task EXCEPT ![k] = "polling"] /\ Resumed(th, k) /\ UNCHANGED <<held, flush, sent>>
    BY <1>1 DEF Poll
  <2>2. stack' = [stack EXCEPT ![th] = s]
    BY <1>1 DEF Poll, Push, ScopeInv, ScopeType
  <2>3. PICK w : w = Whose(th)'
    OBVIOUS
  <2>4. /\ OwnFrames(stack[th], w) /\ w.by \in {k, Mixed} /\ stack[th] \in Seq(Frames)
        /\ left'[th] # Mixed => Len(stack[th]) = Len(held[k])
        /\ Len(held[k]) \in Nat
    <3>1. /\ OwnFrames(stack[th], w) /\ w = [on |-> th, by |-> IF left'[th] = Mixed THEN Mixed ELSE k]
          /\ left'[th] # Mixed => Len(stack[th]) = Len(held[k])
      BY <2>1, <2>3, Taken
    <3>2. stack[th] \in Seq(Frames) /\ Len(held[k]) \in Nat
      BY DEF ScopeInv, ScopeType
    <3> QED
      BY <3>1, <3>2
  <2>5. CASE Seeded(k)
    <3>1. SeedKind[k] \in {"Scope", "Context"}
      BY <2>5, ScopeAssumption DEF Seeded
    <3>2. OwnFrame(f, w)
      BY <1>val, <2>4, <3>1, FrameOwn
    <3> HIDE DEF f
    <3>3. OwnFrames(s, w) /\ Len(s) = Len(stack[th]) + 1
      BY <2>4, <2>5, <3>2, PushedOwn
    <3>4. left'[th] # Mixed => Len(s) = Depth(Len(held[k]), k, "polling")
      <4> HIDE DEF s
      <4> QED
        BY <2>4, <2>5, <3>3 DEF Depth
    <3> HIDE DEF s
    <3> QED
      BY <2>1, <2>2, <2>3, <3>3, <3>4, TaskTaken
  <2>6. CASE ~Seeded(k)
    <3>1. s = stack[th] /\ Depth(Len(held[k]), k, "polling") = Len(held[k])
      BY <2>4, <2>6 DEF Depth
    <3> HIDE DEF s
    <3> QED
      BY <2>1, <2>2, <2>3, <2>4, <3>1, TaskTaken
  <2> QED
    BY <2>5, <2>6
<1>2. ASSUME NEW th \in Thread, NEW k \in Task, Cancel(th, k) PROVE ScopeInv'
  <2>1. /\ run[th] = Idle /\ task[k] = "idle" /\ run' = [run EXCEPT ![th] = k]
        /\ task' = [task EXCEPT ![k] = "dropping"] /\ Resumed(th, k) /\ UNCHANGED <<held, flush, sent>>
        /\ stack' = [stack EXCEPT ![th] = stack[th]]
    BY <1>2 DEF Cancel, ScopeInv, ScopeType
  <2>2. OwnFrames(stack[th], Whose(th)') /\ (left'[th] # Mixed => Len(stack[th]) = Len(held[k]))
    BY <2>1, Taken
  <2>3. Depth(Len(held[k]), k, "dropping") = Len(held[k])
    BY DEF Depth, ScopeInv, ScopeType
  <2> QED
    BY <2>1, <2>2, <2>3, TaskTaken
<1>3. ASSUME NEW th \in Thread, NEW shape \in Shape, Enter(th, shape) PROVE ScopeInv'
  <2> DEFINE k == run[th]
             v == IF shape.declares THEN <<k, Len(stack[th]) + 1>> ELSE NoVal
             f == Frame(k, shape.kind, v, shape.sampled)
  <2>1. /\ Busy(th) /\ Push(th, f) /\ held' = [held EXCEPT ![k] = Append(@, "guard")]
        /\ UNCHANGED <<run, task, left, flush, cfg, emitted, sent>>
    BY <1>3 DEF Enter, MayEnter
  <2>2. k \in Task /\ Whose(th).by \in {k, Mixed}
    BY <2>1, Running DEF Busy
  <2>3. shape.kind \in {"Scope", "Context"} /\ shape.sampled \in {"unset", "yes", "no"}
    BY DEF Shape
  <2>4. (v = NoVal \/ v \in Task \X Nat) /\ (v # NoVal => v[1] = k)
    BY <1>val, <2>2
  <2>5. OwnFrame(f, Whose(th))
    <3> HIDE DEF v
    <3> QED
      BY <2>2, <2>3, <2>4, FrameOwn
  <2> HIDE DEF f
  <2> QED
    BY <2>1, <2>5, FramePushed
<1>4. ASSUME NEW th \in Thread, SpanEnter(th) PROVE ScopeInv'
  <2> DEFINE k == run[th]
             v == <<k, Len(stack[th]) + 1>>
             f == Frame(k, "Context", v, "unset")
  <2>1. /\ Busy(th) /\ Push(th, f) /\ held' = [held EXCEPT ![k] = Append(@, "span")]
        /\ UNCHANGED <<run, task, left, flush, cfg, emitted, sent>>
    BY <1>4 DEF SpanEnter, MayEnter
  <2>2. k \in Task /\ Whose(th).by \in {k, Mixed}
    BY <2>1, Running DEF Busy
  <2>3. v \in Task \X Nat /\ v[1] = k
    BY <1>val, <2>2
  <2>4. OwnFrame(f, Whose(th))
    <3> HIDE DEF v
    <3> QED
      BY <2>2, <2>3, FrameOwn
  <2> HIDE DEF f
  <2> QED
    BY <2>1, <2>4, FramePushed
<1>5. ASSUME NEW th \in Thread, NEW q, OwnEnvs(q, Whose(th)), flush' = [flush EXCEPT ![th] = q],
             Busy(th), held[run[th]] # <<>>, LetGo(th), stack' = [stack EXCEPT ![th] = Popped(@)],
             UNCHANGED <<run, task, left, cfg, emitted, sent>>
      PROVE  ScopeInv'
  BY <1>5, FramePopped
<1>6. ASSUME NEW th \in Thread, SpanExit(th) \/ IntoInner(th) PROVE ScopeInv'
  <2>1. Busy(th) /\ held[run[th]] # <<>> /\ LetGo(th) /\ stack' = [stack EXCEPT ![th] = Popped(@)]
        /\ UNCHANGED <<run, task, left, cfg, emitted, sent, flush>>
    BY <1>6 DEF SpanExit, IntoInner, Holding
  <2>2. flush[th] = <<>> /\ OwnEnvs(<<>>, Whose(th))
    BY <2>1 DEF Busy, OwnEnvs
  <2>3. flush' = [flush EXCEPT ![th] = <<>>]
    BY <2>1, <2>2 DEF ScopeInv, ScopeType
  <2> QED
    BY <1>5, <2>1, <2>2, <2>3
<1>7. ASSUME NEW th \in Thread, DropGuard(th) PROVE ScopeInv'
  <2>1. Busy(th) /\ held[run[th]] # <<>> /\ LetGo(th) /\ stack' = [stack EXCEPT ![th] = Popped(@)]
        /\ flush' = [flush EXCEPT ![th] = Leftover(stack[th])]
        /\ UNCHANGED <<run, task, left, cfg, emitted, sent>>
    BY <1>7 DEF DropGuard, Holding
  <2>2. OwnEnvs(Leftover(stack[th]), Whose(th))
    BY <2>1, Running, LeftoverOwn DEF Busy
  <2> QED
    BY <1>5, <2>1, <2>2
<1>8. ASSUME NEW th \in Thread, NEW e \in Event, NEW kind \in Kind, Emit(th, e, kind) PROVE ScopeInv'
  <2> DEFINE k == run[th]
             scopes == {i \in DOMAIN stack[th] : stack[th][i].kind = "Scope"}
             env == [id |-> e, by |-> k, sev |-> kind.sev, reason |-> kind.reason,
                     big |-> kind.big, val |-> NoVal, on |-> th, pure |-> TRUE, depth |-> Cardinality(scopes)]
  <2>1. k # Idle /\ flush[th] = <<>> /\ Through(th, env) /\ UNCHANGED <<run, task, left, held, flush, cfg>>
    BY <1>8 DEF Emit, Busy
  <2>2. k \in Task /\ stack[th] \in Seq(Frames) /\ flush \in [Thread -> Seq(Envs)]
        /\ Whose(th).on = th /\ Whose(th).by \in {k, Mixed}
    BY <2>1, Running DEF ScopeInv, ScopeType
  <2>3. Cardinality(scopes) \in Nat
    <3>1. DOMAIN stack[th] = 1..Len(stack[th]) /\ Len(stack[th]) \in Nat
      BY <2>2
    <3>2. IsFiniteSet(1..Len(stack[th])) /\ scopes \subseteq 1..Len(stack[th])
      BY <3>1, FS_Interval
    <3> QED
      BY <3>2, FS_Subset, FS_CardinalityType
  <2>4. /\ kind.sev \in {Debug, Info, Error} /\ kind.reason \in {"none", "bypass"} /\ kind.big \in BOOLEAN
    BY DEF Kind
  <2> HIDE DEF scopes
  <2>5. OwnEnv(env, Whose(th))
    BY <2>2, <2>3, <2>4 DEF OwnEnv, Envs, Vals
  <2>6. OwnEnvs(flush'[th], Whose(th))
    BY <2>1, EmptyOwn
  <2> HIDE DEF env
  <2> QED
    BY <2>1, <2>2, <2>5, <2>6, ThroughInv
<1>9. ASSUME NEW th \in Thread, FlushOne(th) PROVE ScopeInv'
  <2> DEFINE env == [Head(flush[th]) EXCEPT !.reason = "tail"]
  <2>1. /\ flush[th] # <<>> /\ flush' = [flush EXCEPT ![th] = Tail(@)] /\ Through(th, env)
        /\ UNCHANGED <<run, task, left, held, cfg>>
    BY <1>9 DEF FlushOne
  <2>2. run[th] # Idle
    BY <2>1 DEF ScopeInv, ThreadOk
  <2>3. OwnEnvs(Tail(flush[th]), Whose(th)) /\ OwnEnv(Head(flush[th]), Whose(th))
    BY <2>1, <2>2, Running, TailOwn
  <2>4. OwnEnv(env, Whose(th))
    BY <2>3 DEF OwnEnv, Envs
  <2>5. /\ flush' \in [Thread -> Seq(Envs)] /\ OwnEnvs(flush'[th], Whose(th))
        /\ \A u \in Thread : u # th => flush'[u] = flush[u]
    BY <2>1, <2>3 DEF ScopeInv, ScopeType, OwnEnvs
  <2> HIDE DEF env
  <2> QED
    BY <2>1, <2>2, <2>4, <2>5, ThroughInv
<1>10. ASSUME NEW th \in Thread, Pending(th) PROVE ScopeInv'
  BY <1>10, PollLeft DEF Pending, MaySuspend
<1>11. ASSUME NEW th \in Thread, Ready(th) PROVE ScopeInv'
  BY <1>11, PollLeft DEF Ready
<1>12. CASE UNCHANGED <<stack, run, task, held, left, flush, sent>>
  BY <1>12 DEF ScopeInv, ScopeType, ThreadOk, Whose, Host, Size, Depth, OwnTrace
<1>13. ASSUME NEW c, Reload(c) PROVE ScopeInv'
  BY <1>12, <1>13 DEF Reload
<1>14. CASE UNCHANGED vars
  BY <1>12, <1>14 DEF vars
<1>15. app.shapes \subseteq Shape /\ app.kinds \subseteq Kind
  BY AppNext
<1> QED
  BY <1>1, <1>2, <1>3, <1>4, <1>6, <1>7, <1>8, <1>9, <1>10, <1>11, <1>13, <1>14, <1>15 DEF Next

LEMMA ScopeAlways == Spec => [](AppOk /\ ScopeInv)
<1>1. Init => AppOk /\ ScopeInv
  BY ScopeInitInv DEF Init, AppOk
<1>2. AppOk /\ ScopeInv /\ [Next]_vars => (AppOk /\ ScopeInv)'
  BY AppNext, ScopeNextInv
<1> QED
  BY <1>1, <1>2, PTL DEF Spec

(* ScopeGuard::drop, into_inner, Instrumented::poll and the bridge's spans *)
(* pop whatever frame is on top.  For any tasks that share the threads of  *)
(* an executor, with guards across an .await or without, that frame is     *)
(* their own and a thread has no other, as long as no task ran over frames *)
(* another had left there or goes on elsewhere than where its own lie.     *)
THEOREM StackIsOwn == Spec => []OwnStack
<1>1. ScopeInv => OwnStack
  <2> SUFFICES ASSUME ScopeInv, NEW th \in Thread, left[th] # Mixed PROVE OwnOnly(th, Host(th))
    BY DEF OwnStack
  <2>1. ThreadOk(th) /\ DOMAIN stack[th] = 1..Len(stack[th]) /\ run[th] # Mixed
    BY ScopeAssumption DEF ScopeInv, ScopeType
  <2>2. Whose(th).by = Host(th) /\ Host(th) # Mixed
    BY <2>1 DEF Whose, Host
  <2>3. \A i \in DOMAIN stack[th] : stack[th][i].owner = Host(th)
    BY <2>1, <2>2 DEF ThreadOk, OwnFrames, OwnFrame
  <2> QED
    BY <2>1, <2>3 DEF ThreadOk, OwnOnly, Size, Depth
<1> QED
  BY <1>1, ScopeAlways, PTL

(* auto_fill_envelope and flush_through: where frames have not mixed, no   *)
(* envelope, and no copy of one from a ring, leaves with a scope value of  *)
(* another task.                                                           *)
THEOREM TraceIsOwn == Spec => []OwnTrace
<1>1. ScopeInv => OwnTrace
  BY DEF ScopeInv
<1> QED
  BY <1>1, ScopeAlways, PTL

-------------------------------------------------------------------------------
(* Tail copies.                                                            *)

(* The copies of an event among the envelopes sent. *)
CopiesOf(h, id) == {j \in 1..Len(h) : h[j].id = id}

ErrorIn(h, k) ==
    \E j \in 1..Len(h) : h[j].sev >= Error /\ h[j].on = k.on /\ (k.by # Mixed => h[j].by = k.by)

(* An error that lets x follow as a tail copy. *)
Caused(e, x) == e.sev >= Error /\ e.on = x.on /\ (x.pure => e.by = x.by)

(* What copies of one envelope have in common. *)
Agrees(x, env) == x.val = env.val /\ x.by = env.by /\ x.on = env.on /\ x.depth = env.depth

(* The scopes among the outermost n frames. *)
Scopes(s, n) == Cardinality({i \in 1..n : s[i].kind = "Scope"})

(* An envelope that may still be copied under the outermost n frames: each *)
(* of its scopes accounts for at most one copy.                            *)
Awaits(h, env, s, n) ==
    /\ CopiesOf(h, env.id) # {}
    /\ \A j \in CopiesOf(h, env.id) : Agrees(h[j], env)
    /\ env.val = NoVal => \A i \in 1..n : s[i].val = NoVal
    /\ Cardinality(CopiesOf(h, env.id)) + Scopes(s, n) <= env.depth

(* The rings of a thread's frames, the envelopes being flushed behind them. *)
Ring(s, q, i) == IF i <= Len(s) THEN s[i].tail ELSE q
InRing(s, q, i, j) == i \in 1..(Len(s) + 1) /\ j \in 1..Len(Ring(s, q, i))

AllAwait(h, s, q) == \A i, j \in Nat : InRing(s, q, i, j) => Awaits(h, Ring(s, q, i)[j], s, i - 1)

NoneTwice(s, q) ==
    \A i, j, l, m \in Nat :
        InRing(s, q, i, j) /\ InRing(s, q, l, m) /\ Ring(s, q, i)[j].id = Ring(s, q, l)[m].id
            => i = l /\ j = m

ErrorSeen(h, k, s, q) ==
    /\ \A i \in 1..Len(s) : s[i].seen_error => ErrorIn(h, k)
    /\ q # <<>> => ErrorIn(h, k)

ThreadTail(h, k, s, q) == AllAwait(h, s, q) /\ NoneTwice(s, q) /\ ErrorSeen(h, k, s, q)

(* What has been sent. *)
HistoryOk(h, seen) ==
    \A i \in 1..Len(h) :
        /\ h[i].id \in seen
        /\ h[i].reason = "tail" => /\ \E j \in 1..(i - 1) : Caused(h[j], h[i])
                                   /\ \E j \in CopiesOf(h, h[i].id) : j < i
        /\ \A j \in CopiesOf(h, h[i].id) : Agrees(h[j], h[i])
        /\ Cardinality(CopiesOf(h, h[i].id)) <= 1 + h[i].depth

TailInv ==
    /\ ScopeInv
    /\ \A th \in Thread : ThreadTail(sent, Whose(th), stack[th], flush[th])
    /\ HistoryOk(sent, emitted)

LEMMA ScopesAre ==
    /\ \A s, n : n \in Nat => Scopes(s, n) \in Nat
    /\ \A s, n : n \in Nat \ {0} =>
          Scopes(s, n) = IF s[n].kind = "Scope" THEN Scopes(s, n - 1) + 1 ELSE Scopes(s, n - 1)
    /\ \A s, t, n : (\A i \in 1..n : s[i].kind = t[i].kind) => Scopes(s, n) = Scopes(t, n)
<1> DEFINE A(s, n) == {i \in 1..n : s[i].kind = "Scope"}
<1>1. ASSUME NEW s, NEW n \in Nat PROVE IsFiniteSet(A(s, n)) /\ Cardinality(A(s, n)) \in Nat
  <2>1. IsFiniteSet(1..n) /\ A(s, n) \subseteq 1..n
    BY FS_Interval
  <2> QED
    BY <2>1, FS_Subset, FS_CardinalityType
<1>2. ASSUME NEW s, NEW n \in Nat \ {0}
      PROVE  Scopes(s, n) = IF s[n].kind = "Scope" THEN Scopes(s, n - 1) + 1 ELSE Scopes(s, n - 1)
  <2>1. n - 1 \in Nat /\ n \notin 1..(n - 1) /\ n \in 1..n
        /\ \A i : i \in 1..n <=> i = n \/ i \in 1..(n - 1)
    OBVIOUS
  <2>2. A(s, n) = IF s[n].kind = "Scope" THEN A(s, n - 1) \union {n} ELSE A(s, n - 1)
    <3> DEFINE m == n - 1
    <3>1. n \in 1..n /\ \A i : i \in 1..n <=> i = n \/ i \in 1..m
      BY <2>1
    <3> HIDE DEF m
    <3>2. A(s, n) = IF s[n].kind = "Scope" THEN A(s, m) \union {n} ELSE A(s, m)
      BY ONLY <3>1
    <3> QED
      BY <3>2 DEF m
  <2>3. IsFiniteSet(A(s, n - 1)) /\ n \notin A(s, n - 1)
    BY <1>1, <2>1
  <2>4. Scopes(s, n) = Cardinality(A(s, n)) /\ Scopes(s, n - 1) = Cardinality(A(s, n - 1))
    BY DEF Scopes
  <2>5. Cardinality(A(s, n - 1) \union {n}) = Cardinality(A(s, n - 1)) + 1
    <3>1. PICK S : S = A(s, n - 1)
      OBVIOUS
    <3>2. IsFiniteSet(S) /\ n \notin S
      BY <2>3, <3>1
    <3>3. Cardinality(S \union {n}) = Cardinality(S) + 1
      BY ONLY <3>2, FS_AddElement
    <3> HIDE DEF A
    <3> QED
      BY <3>1, <3>3
  <2> HIDE DEF A
  <2> QED
    BY ONLY <2>2, <2>4, <2>5
<1>3. ASSUME NEW s, NEW t, NEW n, \A i \in 1..n : s[i].kind = t[i].kind PROVE Scopes(s, n) = Scopes(t, n)
  <2>1. A(s, n) = A(t, n)
    BY <1>3
  <2> QED
    BY <2>1 DEF Scopes
<1>4. \A s, n : n \in Nat => Scopes(s, n) \in Nat
  BY <1>1 DEF Scopes
<1> QED
  BY <1>2, <1>3, <1>4

LEMMA CopiesFinite ==
    ASSUME NEW h, h \in Seq(Envs), NEW id
    PROVE  IsFiniteSet(CopiesOf(h, id)) /\ Cardinality(CopiesOf(h, id)) \in Nat
<1>1. Len(h) \in Nat
  OBVIOUS
<1>2. IsFiniteSet(1..Len(h)) /\ CopiesOf(h, id) \subseteq 1..Len(h)
  BY <1>1, FS_Interval DEF CopiesOf
<1> QED
  BY <1>2, FS_Subset, FS_CardinalityType

(* One more envelope has been sent. *)
LEMMA CopiesAppend ==
    ASSUME NEW h, h \in Seq(Envs), NEW x \in Envs, NEW id
    PROVE  /\ CopiesOf(Append(h, x), id) = IF x.id = id THEN CopiesOf(h, id) \union {Len(h) + 1} ELSE CopiesOf(h, id)
           /\ Cardinality(CopiesOf(Append(h, x), id))
                = IF x.id = id THEN Cardinality(CopiesOf(h, id)) + 1 ELSE Cardinality(CopiesOf(h, id))
           /\ \A i \in 1..Len(h) : Append(h, x)[i] = h[i]
           /\ Append(h, x)[Len(h) + 1] = x /\ Append(h, x) \in Seq(Envs)
           /\ \A k : ErrorIn(h, k) => ErrorIn(Append(h, x), k)
<1> DEFINE n == Len(h)
           t == Append(h, x)
<1>1. /\ n \in Nat /\ t \in Seq(Envs) /\ Len(t) = n + 1 /\ t[n + 1] = x /\ \A i \in 1..n : t[i] = h[i]
  OBVIOUS
<1> HIDE DEF n, t
<1>2. n + 1 \notin 1..n /\ \A i : i \in 1..(n + 1) <=> i = n + 1 \/ i \in 1..n
  BY ONLY <1>1
<1>3. CopiesOf(t, id) = IF x.id = id THEN CopiesOf(h, id) \union {n + 1} ELSE CopiesOf(h, id)
  BY <1>1, <1>2 DEF CopiesOf, n
<1>4. n + 1 \notin CopiesOf(h, id) /\ IsFiniteSet(CopiesOf(h, id))
  BY <1>2, CopiesFinite DEF CopiesOf, n
<1>5. Cardinality(CopiesOf(t, id))
         = IF x.id = id THEN Cardinality(CopiesOf(h, id)) + 1 ELSE Cardinality(CopiesOf(h, id))
  BY <1>3, <1>4, FS_AddElement
<1>6. \A k : ErrorIn(h, k) => ErrorIn(t, k)
  BY <1>1, <1>2 DEF ErrorIn, n
<1> QED
  BY <1>1, <1>3, <1>5, <1>6 DEF n, t

(* The frames matter by their kind and value. *)
LEMMA AwaitsFrames ==
    ASSUME NEW h, NEW env, NEW s, NEW t, NEW n,
           \A i \in 1..n : s[i].kind = t[i].kind /\ s[i].val = t[i].val, Awaits(h, env, s, n)
    PROVE  Awaits(h, env, t, n)
<1>1. Scopes(s, n) = Scopes(t, n)
  BY ScopesAre
<1> QED
  BY <1>1 DEF Awaits

(* A copy of another event. *)
LEMMA AwaitsOther ==
    ASSUME NEW h, h \in Seq(Envs), NEW x \in Envs, NEW env, x.id # env.id, NEW s, NEW n, Awaits(h, env, s, n)
    PROVE  Awaits(Append(h, x), env, s, n)
<1>1. CopiesOf(Append(h, x), env.id) = CopiesOf(h, env.id)
  BY CopiesAppend
<1>2. \A j \in CopiesOf(h, env.id) : Append(h, x)[j] = h[j]
  BY CopiesAppend DEF CopiesOf
<1> QED
  BY <1>1, <1>2 DEF Awaits

LEMMA RingIs ==
    ASSUME NEW k, NEW s, OwnFrames(s, k), NEW q, OwnEnvs(q, k), NEW i \in 1..(Len(s) + 1)
    PROVE  OwnEnvs(Ring(s, q, i), k) /\ Ring(s, q, i) \in Seq(Envs)
<1>1. CASE i <= Len(s)
  <2>1. i \in 1..Len(s)
    BY <1>1 DEF OwnFrames
  <2>2. OwnFrame(s[i], k)
    BY <2>1 DEF OwnFrames
  <2> QED
    BY <1>1, <2>2 DEF Ring, OwnFrame, OwnEnvs
<1>2. CASE ~(i <= Len(s))
  BY <1>2 DEF Ring, OwnEnvs
<1> QED
  BY <1>1, <1>2

(* Rings that lose envelopes, or frames, from the end. *)
LEMMA RingsShrink ==
    ASSUME NEW s, NEW q, NoneTwice(s, q), NEW t, NEW r,
           \A i, j \in Nat : InRing(t, r, i, j) => InRing(s, q, i, j) /\ Ring(t, r, i) = Ring(s, q, i)
    PROVE  NoneTwice(t, r)
BY DEF NoneTwice

LEMMA PoppedIs ==
    ASSUME NEW s, s \in Seq(Frames), s # <<>>
    PROVE  /\ Len(Popped(s)) = Len(s) - 1 /\ \A i \in 1..(Len(s) - 1) : Popped(s)[i] = s[i]
           /\ Last(s) = s[Len(s)] /\ Len(s) \in Nat \ {0}
<1> DEFINE n == Len(s)
           m == n - 1
<1>1. n \in Nat \ {0} /\ \A i \in 1..n : s[i] \in Frames
  OBVIOUS
<1>2. Popped(s) = SubSeq(s, 1, m) /\ Last(s) = s[n]
  BY DEF Popped, Front, Last
<1> HIDE DEF n
<1>3. m \in Nat /\ m - 1 + 1 = m /\ (IF 1 <= m THEN m - 1 + 1 ELSE 0) = m
      /\ \A i \in 1..m : i \in 1..n /\ 1 + i - 1 = i
  BY ONLY <1>1
<1> HIDE DEF m
<1>4. \A i \in 1..m : s[i] \in Frames
  BY ONLY <1>1, <1>3
<1>5. /\ Len(SubSeq(s, 1, m)) = IF 1 <= m THEN m - 1 + 1 ELSE 0
      /\ \A i \in 1..(m - 1 + 1) : SubSeq(s, 1, m)[i] = s[1 + i - 1]
  BY <1>3, <1>4, SubSeqProperties
<1>6. Len(SubSeq(s, 1, m)) = m /\ \A i \in 1..m : SubSeq(s, 1, m)[i] = s[i]
  BY ONLY <1>3, <1>5
<1> QED
  BY <1>1, <1>2, <1>6 DEF n, m

(* A new frame has an empty ring. *)
LEMMA TailPushed ==
    ASSUME NEW h, NEW k, NEW s, OwnFrames(s, k), ThreadTail(h, k, s, <<>>),
           NEW f \in Frames, f.tail = <<>>, ~f.seen_error
    PROVE  ThreadTail(h, k, Append(s, f), <<>>)
<1> DEFINE n == Len(s)
           t == Append(s, f)
<1>1. /\ n \in Nat /\ Len(t) = n + 1 /\ t[n + 1] = f /\ \A i \in 1..n : t[i] = s[i]
  BY DEF OwnFrames
<1> HIDE DEF n, t
<1>2. \A i \in 1..((n + 1) + 1) : i = n + 2 \/ i = n + 1 \/ i \in 1..n
  BY ONLY <1>1
<1>3. Ring(t, <<>>, n + 1) = <<>> /\ Ring(t, <<>>, n + 2) = <<>> /\ Len(<<>>) = 0
  BY <1>1 DEF Ring
<1>4. ASSUME NEW i \in Nat, NEW j \in Nat, InRing(t, <<>>, i, j)
      PROVE  InRing(s, <<>>, i, j) /\ Ring(t, <<>>, i) = Ring(s, <<>>, i) /\ i \in 1..n
  <2>1. i \in 1..n
    <3>1. i \in 1..((n + 1) + 1) /\ j \in 1..Len(Ring(t, <<>>, i))
      BY <1>1, <1>4 DEF InRing
    <3> QED
      BY <1>2, <1>3, <3>1
  <2>2. i <= n /\ i <= n + 1 /\ i \in 1..(n + 1)
    BY ONLY <1>1, <2>1
  <2>3. Ring(t, <<>>, i) = Ring(s, <<>>, i)
    BY <1>1, <2>1, <2>2 DEF Ring, n
  <2> QED
    BY <1>4, <2>1, <2>2, <2>3 DEF InRing, n
<1>5. NoneTwice(t, <<>>)
  BY <1>4, RingsShrink DEF ThreadTail
<1>6. AllAwait(h, t, <<>>)
  <2> SUFFICES ASSUME NEW i \in Nat, NEW j \in Nat, InRing(t, <<>>, i, j)
               PROVE  Awaits(h, Ring(t, <<>>, i)[j], t, i - 1)
    BY DEF AllAwait
  <2>1. Awaits(h, Ring(t, <<>>, i)[j], s, i - 1)
    BY <1>4 DEF ThreadTail, AllAwait
  <2>2. i \in 1..n
    BY <1>4
  <2>3. \A l \in 1..(i - 1) : l \in 1..n
    BY ONLY <1>1, <2>2
  <2> QED
    BY <1>1, <2>1, <2>3, AwaitsFrames
<1>7. ErrorSeen(h, k, t, <<>>)
  <2>1. \A i \in 1..(n + 1) : i = n + 1 \/ i \in 1..n
    BY ONLY <1>1
  <2> QED
    BY <1>1, <2>1 DEF ThreadTail, ErrorSeen, n
<1> QED
  BY <1>5, <1>6, <1>7 DEF ThreadTail, t

(* The top frame goes, and its ring with it or to be flushed. *)
LEMMA TailPopped ==
    ASSUME NEW h, NEW k, NEW s, OwnFrames(s, k), s # <<>>, ThreadTail(h, k, s, <<>>)
    PROVE  ThreadTail(h, k, Popped(s), <<>>) /\ ThreadTail(h, k, Popped(s), Leftover(s))
<1> DEFINE n == Len(s)
           t == Popped(s)
<1>1. /\ n \in Nat \ {0} /\ Len(t) = n - 1 /\ (\A i \in 1..(n - 1) : t[i] = s[i])
      /\ Last(s) = s[n]
  BY PoppedIs DEF OwnFrames
<1> SUFFICES ASSUME NEW q, q = <<>> \/ (q = s[n].tail /\ s[n].seen_error)
             PROVE  ThreadTail(h, k, t, q)
  BY <1>1 DEF Leftover
<1> HIDE DEF n, t
<1>2. n - 1 \in Nat /\ n - 1 + 1 = n /\ n <= n /\ ~(n <= n - 1) /\ n \in 1..n /\ \A i \in 1..n : i = n \/ i \in 1..(n - 1)
  BY ONLY <1>1
<1>3. ASSUME NEW i \in Nat, NEW j \in Nat, InRing(t, q, i, j)
      PROVE  InRing(s, <<>>, i, j) /\ Ring(t, q, i) = Ring(s, <<>>, i) /\ i \in 1..n
  <2>1. i \in 1..n /\ j \in 1..Len(Ring(t, q, i))
    BY <1>1, <1>2, <1>3 DEF InRing
  <2>2. i <= n /\ i \in 1..(n + 1)
    BY ONLY <1>1, <2>1
  <2>3. Ring(t, q, i) = s[i].tail
    <3>1. CASE i = n
      <4>1. Ring(t, q, i) = q
        BY <1>1, <1>2, <3>1 DEF Ring
      <4>2. q # <<>>
        <5> SUFFICES ASSUME q = <<>> PROVE FALSE
          OBVIOUS
        <5>1. j \in 1..0
          BY <2>1, <4>1
        <5> QED
          BY ONLY <5>1
      <4> QED
        BY <3>1, <4>1, <4>2
    <3>2. CASE i # n
      <4>1. i \in 1..(n - 1)
        BY <1>2, <2>1, <3>2
      <4>2. i <= n - 1
        BY ONLY <1>1, <4>1
      <4> QED
        BY <1>1, <4>1, <4>2 DEF Ring
    <3> QED
      BY <3>1, <3>2
  <2>4. Ring(s, <<>>, i) = s[i].tail
    BY <2>2 DEF Ring, n
  <2> QED
    BY <2>1, <2>2, <2>3, <2>4 DEF InRing, n
<1>4. NoneTwice(t, q)
  BY <1>3, RingsShrink DEF ThreadTail
<1>5. AllAwait(h, t, q)
  <2> SUFFICES ASSUME NEW i \in Nat, NEW j \in Nat, InRing(t, q, i, j)
               PROVE  Awaits(h, Ring(t, q, i)[j], t, i - 1)
    BY DEF AllAwait
  <2>1. Awaits(h, Ring(t, q, i)[j], s, i - 1)
    BY <1>3 DEF ThreadTail, AllAwait
  <2>2. i \in 1..n
    BY <1>3
  <2>3. \A l \in 1..(i - 1) : l \in 1..(n - 1)
    BY ONLY <1>1, <2>2
  <2> QED
    BY <1>1, <2>1, <2>3, AwaitsFrames
<1>6. ErrorSeen(h, k, t, q)
  <2>1. \A i \in 1..(n - 1) : i \in 1..n
    BY ONLY <1>1
  <2>2. \A i \in 1..n : s[i].seen_error => ErrorIn(h, k)
    BY DEF ThreadTail, ErrorSeen, n
  <2> QED
    BY <1>1, <1>2, <2>1, <2>2 DEF ErrorSeen
<1> QED
  BY <1>4, <1>5, <1>6 DEF ThreadTail

Absent(id, s, q) == \A i, j \in Nat : InRing(s, q, i, j) => Ring(s, q, i)[j].id # id

(* flush_through takes the oldest envelope. *)
LEMMA TailTaken ==
    ASSUME NEW h, NEW k, NEW s, OwnFrames(s, k), NEW q, OwnEnvs(q, k), q # <<>>, ThreadTail(h, k, s, q)
    PROVE  /\ ThreadTail(h, k, s, Tail(q)) /\ ErrorIn(h, k)
           /\ Awaits(h, Head(q), s, Len(s)) /\ Absent(Head(q).id, s, Tail(q))
<1> DEFINE n == Len(s)
           r == Tail(q)
<1>1. n \in Nat /\ Len(q) \in Nat \ {0} /\ Len(r) = Len(q) - 1 /\ Head(q) = q[1]
      /\ \A j \in 1..(Len(q) - 1) : r[j] = q[j + 1]
  BY DEF OwnFrames, OwnEnvs
<1> HIDE DEF r
<1>2. /\ ~(n + 1 <= n) /\ n + 1 \in 1..(n + 1) /\ n + 1 - 1 = n /\ n + 1 \in Nat
      /\ \A i \in 1..(n + 1) : i = n + 1 \/ (i <= n /\ i # n + 1)
  BY ONLY <1>1
<1>3. \A j \in 1..(Len(q) - 1) : j + 1 \in 1..Len(q) /\ j + 1 # 1 /\ j + 1 \in Nat
  BY ONLY <1>1
<1>4. 1 \in 1..Len(q) /\ 1 \in Nat
  BY ONLY <1>1
<1>5. /\ \A i \in 1..(n + 1) : i # n + 1 => Ring(s, r, i) = Ring(s, q, i)
      /\ Ring(s, r, n + 1) = r /\ Ring(s, q, n + 1) = q
  BY <1>2 DEF Ring
<1>6. InRing(s, q, n + 1, 1)
  BY <1>2, <1>4, <1>5 DEF InRing
<1> DEFINE at(i, j) == IF i = n + 1 THEN j + 1 ELSE j
<1>7. ASSUME NEW i \in Nat, NEW j \in Nat, InRing(s, r, i, j)
      PROVE  /\ InRing(s, q, i, at(i, j)) /\ Ring(s, r, i)[j] = Ring(s, q, i)[at(i, j)]
             /\ at(i, j) \in Nat /\ (i = n + 1 => at(i, j) # 1)
  <2>1. i \in 1..(n + 1) /\ j \in 1..Len(Ring(s, r, i))
    BY <1>7 DEF InRing
  <2>2. CASE i = n + 1
    <3>1. j \in 1..(Len(q) - 1)
      BY <1>1, <1>5, <2>1, <2>2
    <3> QED
      BY <1>1, <1>2, <1>3, <1>5, <2>2, <3>1 DEF InRing
  <2>3. CASE i # n + 1
    BY <1>5, <2>1, <2>3 DEF InRing
  <2> QED
    BY <2>2, <2>3
<1>8. \A i, j, m \in Nat : at(i, j) = at(i, m) => j = m
  OBVIOUS
<1>9. AllAwait(h, s, q) /\ NoneTwice(s, q) /\ ErrorSeen(h, k, s, q)
  BY DEF ThreadTail
<1> HIDE DEF at
<1>10. NoneTwice(s, r)
  <2> SUFFICES ASSUME NEW i \in Nat, NEW j \in Nat, NEW l \in Nat, NEW m \in Nat,
                      InRing(s, r, i, j), InRing(s, r, l, m), Ring(s, r, i)[j].id = Ring(s, r, l)[m].id
               PROVE  i = l /\ j = m
    BY DEF NoneTwice
  <2>1. i = l /\ at(i, j) = at(l, m)
    BY <1>7, <1>9 DEF NoneTwice
  <2> QED
    BY <1>8, <2>1
<1>11. AllAwait(h, s, r)
  <2> SUFFICES ASSUME NEW i \in Nat, NEW j \in Nat, InRing(s, r, i, j)
               PROVE  Awaits(h, Ring(s, r, i)[j], s, i - 1)
    BY DEF AllAwait
  <2> QED
    BY <1>7, <1>9 DEF AllAwait
<1>12. ErrorSeen(h, k, s, r) /\ ErrorIn(h, k)
  BY <1>9 DEF ErrorSeen
<1>13. Awaits(h, Head(q), s, n)
  BY <1>1, <1>2, <1>4, <1>5, <1>6, <1>9 DEF AllAwait
<1>14. Absent(Head(q).id, s, r)
  <2> SUFFICES ASSUME NEW i \in Nat, NEW j \in Nat, InRing(s, r, i, j), Ring(s, r, i)[j].id = Head(q).id
               PROVE  FALSE
    BY DEF Absent
  <2>1. InRing(s, q, i, at(i, j)) /\ Ring(s, q, i)[at(i, j)].id = Ring(s, q, n + 1)[1].id /\ at(i, j) \in Nat
    BY <1>1, <1>5, <1>7
  <2>2. i = n + 1 /\ at(i, j) = 1
    BY <1>2, <1>4, <1>6, <1>9, <2>1 DEF NoneTwice
  <2> QED
    BY <1>7, <2>2
<1> QED
  BY <1>10, <1>11, <1>12, <1>13, <1>14 DEF ThreadTail, r

(* What holds of an envelope as it leaves the pipeline. *)
Departs(h, x, s) ==
    /\ \A j \in CopiesOf(h, x.id) : Agrees(h[j], x)
    /\ x.val = NoVal => \A i \in 1..Len(s) : s[i].val = NoVal
    /\ Cardinality(CopiesOf(h, x.id)) + Scopes(s, Len(s)) <= x.depth
    /\ x.reason = "tail" => (\E j \in 1..Len(h) : Caused(h[j], x)) /\ CopiesOf(h, x.id) # {}

(* Threads that have no copy of it in a ring. *)
LEMMA AbsentSend ==
    ASSUME NEW h, h \in Seq(Envs), NEW k, NEW s, NEW q, ThreadTail(h, k, s, q), NEW x \in Envs, Absent(x.id, s, q)
    PROVE  ThreadTail(Append(h, x), k, s, q)
<1>1. AllAwait(Append(h, x), s, q)
  <2> SUFFICES ASSUME NEW i \in Nat, NEW j \in Nat, InRing(s, q, i, j)
               PROVE  Awaits(Append(h, x), Ring(s, q, i)[j], s, i - 1)
    BY DEF AllAwait
  <2>1. Awaits(h, Ring(s, q, i)[j], s, i - 1) /\ x.id # Ring(s, q, i)[j].id
    BY DEF ThreadTail, AllAwait, Absent
  <2> QED
    BY <2>1, AwaitsOther
<1>2. \A l : ErrorIn(h, l) => ErrorIn(Append(h, x), l)
  BY CopiesAppend
<1> QED
  BY <1>1, <1>2 DEF ThreadTail, ErrorSeen

LEMMA OtherSend ==
    ASSUME NEW h, h \in Seq(Envs), NEW k, NEW s, OwnFrames(s, k), NEW q, OwnEnvs(q, k), ThreadTail(h, k, s, q),
           NEW x \in Envs, x.on # k.on, \A j \in CopiesOf(h, x.id) : h[j].on = x.on
    PROVE  ThreadTail(Append(h, x), k, s, q)
<1>1. Absent(x.id, s, q)
  <2> SUFFICES ASSUME NEW i \in Nat, NEW j \in Nat, InRing(s, q, i, j), Ring(s, q, i)[j].id = x.id
               PROVE  FALSE
    BY DEF Absent
  <2>1. Awaits(h, Ring(s, q, i)[j], s, i - 1)
    BY DEF ThreadTail, AllAwait
  <2>2. Ring(s, q, i)[j].on = k.on
    <3>1. OwnEnvs(Ring(s, q, i), k)
      BY RingIs DEF InRing
    <3> QED
      BY <3>1 DEF InRing, OwnEnvs, OwnEnv
  <2>3. PICK m \in CopiesOf(h, x.id) : h[m].on = k.on
    BY <2>1, <2>2 DEF Awaits, Agrees
  <2> QED
    BY <2>3
<1> QED
  BY <1>1, AbsentSend

(* ScopeFrame::push_tail puts the envelope behind those of the ring, of    *)
(* which the oldest may have to go.                                        *)
LEMMA PushTailIs ==
    ASSUME NEW f \in Frames, NEW x \in Envs, PushTail(f, x) # f
    PROVE  /\ f.kind = "Scope"
           /\ PushTail(f, x).kind = f.kind /\ PushTail(f, x).val = f.val
           /\ PushTail(f, x).seen_error = f.seen_error
           /\ \E d \in {0, 1} : \E m \in Nat :
                 /\ Len(f.tail) = m + d /\ Len(PushTail(f, x).tail) = m + 1 /\ PushTail(f, x).tail[m + 1] = x
                 /\ \A j \in 1..m : PushTail(f, x).tail[j] = f.tail[j + d] /\ j + d \in 1..Len(f.tail)
<1> DEFINE q == f.tail
           kept == IF Len(q) >= TailCapacity THEN Tail(q) ELSE q
           r == Append(kept, x)
<1>1. f.kind = "Scope" /\ TailCapacity # 0 /\ PushTail(f, x) = [f EXCEPT !.tail = r]
  BY DEF PushTail, Frames
<1>2. q \in Seq(Envs) /\ Len(q) \in Nat
  BY DEF Frames
<1>3. PICK d \in {0, 1}, m \in Nat : /\ Len(q) = m + d /\ kept \in Seq(Envs) /\ Len(kept) = m
                                     /\ \A j \in 1..m : kept[j] = q[j + d] /\ j + d \in 1..Len(q)
  <2>1. CASE Len(q) >= TailCapacity
    <3>1. q # <<>> /\ Len(q) >= 1
      <4>1. Len(q) >= 1
        BY ONLY <1>1, <1>2, <2>1, ScopeAssumption
      <4> QED
        BY <1>2, <4>1
    <3>2. Tail(q) \in Seq(Envs) /\ Len(Tail(q)) = Len(q) - 1
          /\ \A j \in 1..(Len(q) - 1) : Tail(q)[j] = q[j + 1] /\ j + 1 \in 1..Len(q)
      BY <1>2, <3>1
    <3>3. Len(q) - 1 \in Nat /\ Len(q) = (Len(q) - 1) + 1
      BY ONLY <1>2, <3>1
    <3>4. kept = Tail(q)
      BY <2>1
    <3> HIDE DEF q, kept
    <3> QED
      BY <3>2, <3>3, <3>4
  <2>2. CASE ~(Len(q) >= TailCapacity)
    <3>1. kept = q
      BY <2>2
    <3> HIDE DEF q, kept
    <3>2. Len(q) = Len(q) + 0 /\ \A j \in 1..Len(q) : j + 0 = j
      BY ONLY <1>2
    <3> QED
      BY <1>2, <3>1, <3>2
  <2> QED
    BY <2>1, <2>2
<1> HIDE DEF kept
<1>4. Len(r) = m + 1 /\ r[m + 1] = x /\ \A j \in 1..m : r[j] = kept[j]
  BY <1>3
<1> HIDE DEF r
<1>5. PushTail(f, x).kind = f.kind /\ PushTail(f, x).val = f.val
           /\ PushTail(f, x).seen_error = f.seen_error /\ PushTail(f, x).tail = r
  BY <1>1 DEF Frames
<1> QED
  BY <1>1, <1>3, <1>4, <1>5

(* The envelope enters the innermost ring, or marks an error. *)
LEMMA RecordTail ==
    ASSUME NEW h, h \in Seq(Envs), NEW k, NEW s, OwnFrames(s, k), NEW q, OwnEnvs(q, k), ThreadTail(h, k, s, q),
           NEW x, OwnEnv(x, k), Absent(x.id, s, q), Departs(h, x, s)
    PROVE  ThreadTail(Append(h, x), k, Record(x, s), q)
<1> DEFINE g == Append(h, x)
           n == Len(s)
<1>0. x \in Envs /\ s \in Seq(Frames) /\ n \in Nat /\ DOMAIN s = 1..n /\ \A i \in 1..n : s[i] \in Frames
  BY DEF OwnEnv, OwnFrames
<1>1. ThreadTail(g, k, s, q)
  BY <1>0, AbsentSend
<1>2. CASE ~(x.sev = Debug /\ s # <<>>) /\ ~(x.sev >= Error)
  BY <1>1, <1>2 DEF Record
<1>3. CASE ~(x.sev = Debug /\ s # <<>>) /\ x.sev >= Error
  <2> DEFINE t == [i \in 1..n |-> [s[i] EXCEPT !.seen_error = TRUE]]
  <2>1. Record(x, s) = t
    BY <1>0, <1>3 DEF Record
  <2>2. Len(t) = n /\ \A i \in 1..n : t[i].kind = s[i].kind /\ t[i].val = s[i].val /\ t[i].tail = s[i].tail
    BY <1>0 DEF Frames
  <2> HIDE DEF t
  <2>3. \A i \in 1..(n + 1) : i <= n => i \in 1..n
    BY ONLY <1>0
  <2>4. \A i \in 1..(n + 1) : Ring(t, q, i) = Ring(s, q, i)
    BY <2>2, <2>3 DEF Ring
  <2>5. \A i, j \in Nat : InRing(t, q, i, j) => InRing(s, q, i, j) /\ Ring(t, q, i) = Ring(s, q, i)
    BY <2>2, <2>4 DEF InRing
  <2>6. NoneTwice(t, q)
    BY <1>1, <2>5, RingsShrink DEF ThreadTail
  <2>7. AllAwait(g, t, q)
    <3> SUFFICES ASSUME NEW i \in Nat, NEW j \in Nat, InRing(t, q, i, j)
                 PROVE  Awaits(g, Ring(t, q, i)[j], t, i - 1)
      BY DEF AllAwait
    <3>1. Awaits(g, Ring(t, q, i)[j], s, i - 1) /\ i \in 1..(n + 1)
      BY <1>1, <2>5 DEF ThreadTail, AllAwait, InRing
    <3>2. \A l \in 1..(i - 1) : l \in 1..n
      BY ONLY <1>0, <3>1
    <3> HIDE DEF g, n
    <3> QED
      BY <2>2, <3>1, <3>2, AwaitsFrames
  <2>8. ErrorIn(g, k)
    <3>1. g[Len(h) + 1] = x /\ Len(h) + 1 \in 1..Len(g) /\ x.on = k.on /\ (k.by # Mixed => x.by = k.by)
      BY <1>0 DEF OwnEnv
    <3> HIDE DEF g
    <3> QED
      BY <1>3, <3>1 DEF ErrorIn
  <2> QED
    BY <2>1, <2>6, <2>7, <2>8 DEF ThreadTail, ErrorSeen
<1>4. CASE x.sev = Debug /\ s # <<>>
  <2> DEFINE f == PushTail(s[n], x)
             t == [s EXCEPT ![n] = f]
  <2>1. Record(x, s) = t
    BY <1>4 DEF Record
  <2>2. n \in 1..n /\ n \in Nat \ {0}
    BY <1>0, <1>4
  <2>3. CASE f = s[n]
    <3>1. t = s
      BY <1>0, <2>3
    <3> QED
      BY <1>1, <2>1, <3>1
  <2>4. CASE f # s[n]
    <3>1. /\ s[n].kind = "Scope" /\ f.kind = s[n].kind /\ f.val = s[n].val /\ f.seen_error = s[n].seen_error
          /\ \E d \in {0, 1} : \E m \in Nat :
                 /\ Len(s[n].tail) = m + d /\ Len(f.tail) = m + 1 /\ f.tail[m + 1] = x
                 /\ \A j \in 1..m : f.tail[j] = s[n].tail[j + d] /\ j + d \in 1..Len(s[n].tail)
      BY <1>0, <2>2, <2>4, PushTailIs
    <3>2. PICK d \in {0, 1}, m \in Nat :
                 /\ Len(s[n].tail) = m + d /\ Len(f.tail) = m + 1 /\ f.tail[m + 1] = x
                 /\ \A j \in 1..m : f.tail[j] = s[n].tail[j + d] /\ j + d \in 1..Len(s[n].tail)
      BY <3>1
    <3> HIDE DEF f
    <3>3. Len(t) = n /\ \A i \in 1..n : t[i] = IF i = n THEN f ELSE s[i]
      BY <1>0
    <3> HIDE DEF t
    <3>4. \A i \in 1..n : t[i].kind = s[i].kind /\ t[i].val = s[i].val /\ t[i].seen_error = s[i].seen_error
      BY <3>1, <3>3
    <3>5. /\ \A i \in 1..(n + 1) : i # n => Ring(t, q, i) = Ring(s, q, i)
          /\ Ring(t, q, n) = f.tail /\ Ring(s, q, n) = s[n].tail /\ n \in 1..(n + 1) /\ n <= n
      <4>1. n \in 1..(n + 1) /\ n <= n /\ \A i \in 1..(n + 1) : i <= n => i \in 1..n
        BY ONLY <2>2
      <4> QED
        BY <2>2, <3>3, <4>1 DEF Ring
    <3> DEFINE at(i, j) == IF i = n THEN j + d ELSE j
    <3>6. ASSUME NEW i \in Nat, NEW j \in Nat, InRing(t, q, i, j)
          PROVE  \/ i = n /\ j = m + 1 /\ Ring(t, q, i)[j] = x
                 \/ /\ InRing(s, q, i, at(i, j)) /\ Ring(t, q, i)[j] = Ring(s, q, i)[at(i, j)]
                    /\ at(i, j) \in Nat
      <4>1. i \in 1..(n + 1) /\ j \in 1..Len(Ring(t, q, i))
        BY <3>3, <3>6 DEF InRing
      <4>2. CASE i # n
        BY <3>5, <4>1, <4>2 DEF InRing
      <4>3. CASE i = n
        <5>1. j \in 1..(m + 1)
          BY <3>2, <3>5, <4>1, <4>3
        <5>2. j = m + 1 \/ j \in 1..m
          BY ONLY <5>1, m \in Nat
        <5>3. j + d \in Nat
          BY ONLY j \in Nat, d \in {0, 1}
        <5> QED
          BY <3>2, <3>5, <4>3, <5>2, <5>3 DEF InRing
      <4> QED
        BY <4>2, <4>3
    <3>7. \A i, j, l \in Nat : at(i, j) = at(i, l) => j = l
      BY ONLY d \in {0, 1}
    <3>8. /\ \A i, j \in Nat : InRing(s, q, i, j) => Ring(s, q, i)[j].id # x.id
          /\ NoneTwice(s, q) /\ AllAwait(g, s, q) /\ ErrorSeen(g, k, s, q)
      BY <1>1 DEF Absent, ThreadTail
    <3> HIDE DEF at
    <3>9. NoneTwice(t, q)
      <4> SUFFICES ASSUME NEW i \in Nat, NEW j \in Nat, NEW l \in Nat, NEW o \in Nat,
                          InRing(t, q, i, j), InRing(t, q, l, o), Ring(t, q, i)[j].id = Ring(t, q, l)[o].id
                   PROVE  i = l /\ j = o
        BY DEF NoneTwice
      <4>1. CASE (i = n /\ j = m + 1 /\ Ring(t, q, i)[j] = x) \/ (l = n /\ o = m + 1 /\ Ring(t, q, l)[o] = x)
        BY <3>6, <3>8, <4>1
      <4>2. CASE /\ InRing(s, q, i, at(i, j)) /\ Ring(t, q, i)[j] = Ring(s, q, i)[at(i, j)] /\ at(i, j) \in Nat
                 /\ InRing(s, q, l, at(l, o)) /\ Ring(t, q, l)[o] = Ring(s, q, l)[at(l, o)] /\ at(l, o) \in Nat
        <5>1. i = l /\ at(i, j) = at(l, o)
          BY <3>8, <4>2 DEF NoneTwice
        <5> QED
          BY <3>7, <5>1
      <4> QED
        BY <3>6, <4>1, <4>2
    <3>10. AllAwait(g, t, q)
      <4> SUFFICES ASSUME NEW i \in Nat, NEW j \in Nat, InRing(t, q, i, j)
                   PROVE  Awaits(g, Ring(t, q, i)[j], t, i - 1)
        BY DEF AllAwait
      <4>1. Awaits(g, Ring(t, q, i)[j], s, i - 1)
        <5>1. CASE i = n /\ Ring(t, q, i)[j] = x
          <6>1. /\ CopiesOf(g, x.id) = CopiesOf(h, x.id) \union {Len(h) + 1}
                /\ Cardinality(CopiesOf(g, x.id)) = Cardinality(CopiesOf(h, x.id)) + 1
                /\ \A l \in 1..Len(h) : g[l] = h[l]
                /\ g[Len(h) + 1] = x
            BY <1>0, CopiesAppend
          <6>2. \A l \in CopiesOf(g, x.id) : Agrees(g[l], x)
            BY <6>1 DEF Departs, CopiesOf, Agrees
          <6>3. Cardinality(CopiesOf(g, x.id)) + Scopes(s, n - 1) <= x.depth
            <7>1. Scopes(s, n) = Scopes(s, n - 1) + 1 /\ n - 1 \in Nat
              <8>1. PICK a \in Nat \ {0} : a = n
                BY <2>2
              <8>2. Scopes(s, a) = IF s[a].kind = "Scope" THEN Scopes(s, a - 1) + 1 ELSE Scopes(s, a - 1)
                BY ONLY a \in Nat \ {0}, ScopesAre
              <8>3. a - 1 \in Nat
                BY ONLY a \in Nat \ {0}
              <8> HIDE DEF n
              <8> QED
                BY <3>1, <8>1, <8>2, <8>3
            <7>2. Scopes(s, n - 1) \in Nat
              BY <7>1, ScopesAre
            <7>3. Cardinality(CopiesOf(h, x.id)) \in Nat /\ x.depth \in Nat
              BY <1>0, CopiesFinite DEF Envs
            <7>4. Cardinality(CopiesOf(h, x.id)) + Scopes(s, n) <= x.depth
              BY DEF Departs
            <7> HIDE DEF n, g
            <7> QED
              BY ONLY <6>1, <7>1, <7>2, <7>3, <7>4
          <6>4. x.val = NoVal => \A l \in 1..(n - 1) : s[l].val = NoVal
            <7>1. \A l \in 1..(n - 1) : l \in 1..n
              BY ONLY <2>2
            <7> QED
              BY <7>1 DEF Departs
          <6> QED
            BY <5>1, <6>1, <6>2, <6>3, <6>4 DEF Awaits
        <5>2. CASE /\ InRing(s, q, i, at(i, j)) /\ Ring(t, q, i)[j] = Ring(s, q, i)[at(i, j)]
                   /\ at(i, j) \in Nat
          BY <3>8, <5>2 DEF AllAwait
        <5> QED
          BY <3>6, <5>1, <5>2
      <4>2. i \in 1..(n + 1)
        BY <3>3 DEF InRing
      <4>3. \A l \in 1..(i - 1) : l \in 1..n
        BY ONLY <1>0, <4>2
      <4> HIDE DEF g, n
      <4> QED
        BY <3>4, <4>1, <4>3, AwaitsFrames
    <3>11. ErrorSeen(g, k, t, q)
      BY <3>3, <3>4, <3>8 DEF ErrorSeen
    <3> QED
      BY <2>1, <3>9, <3>10, <3>11 DEF ThreadTail
  <2> QED
    BY <2>3, <2>4
<1> QED
  BY <1>2, <1>3, <1>4

LEMMA HistoryGrows ==
    ASSUME NEW h, h \in Seq(Envs), NEW seen, HistoryOk(h, seen), NEW more, seen \subseteq more,
           NEW x \in Envs, x.id \in more, NEW s, s \in Seq(Frames), Departs(h, x, s)
    PROVE  HistoryOk(Append(h, x), more)
<1> DEFINE g == Append(h, x)
           n == Len(h)
<1>1. /\ n \in Nat /\ Len(g) = n + 1 /\ g[n + 1] = x /\ \A i \in 1..n : g[i] = h[i]
  OBVIOUS
<1>2. /\ \A id : CopiesOf(g, id) = IF x.id = id THEN CopiesOf(h, id) \union {n + 1} ELSE CopiesOf(h, id)
      /\ \A id : Cardinality(CopiesOf(g, id))
             = IF x.id = id THEN Cardinality(CopiesOf(h, id)) + 1 ELSE Cardinality(CopiesOf(h, id))
  BY CopiesAppend
<1>3. /\ \A id : Cardinality(CopiesOf(h, id)) \in Nat
      /\ x.depth \in Nat /\ Scopes(s, Len(s)) \in Nat
  <2>1. \A id : Cardinality(CopiesOf(h, id)) \in Nat
    BY CopiesFinite
  <2>2. Scopes(s, Len(s)) \in Nat
    <3>1. Len(s) \in Nat
      OBVIOUS
    <3> QED
      BY ONLY <3>1, ScopesAre
  <2> QED
    BY <2>1, <2>2 DEF Envs
<1>4. Cardinality(CopiesOf(h, x.id)) + 1 <= 1 + x.depth
  <2>1. Cardinality(CopiesOf(h, x.id)) + Scopes(s, Len(s)) <= x.depth
    BY DEF Departs
  <2> QED
    BY <1>3, <2>1
<1> HIDE DEF g, n
<1>5. \A i \in 1..(n + 1) : i = n + 1 \/ i \in 1..n
  BY ONLY <1>1
<1>6. \A j \in CopiesOf(g, x.id) : Agrees(g[j], x)
  BY <1>1, <1>2 DEF Departs, Agrees, CopiesOf, n
<1>7. ASSUME NEW i \in 1..n
      PROVE  /\ g[i].id \in more
             /\ g[i].reason = "tail" => /\ \E j \in 1..(i - 1) : Caused(g[j], g[i])
                                        /\ \E j \in CopiesOf(g, g[i].id) : j < i
             /\ \A j \in CopiesOf(g, g[i].id) : Agrees(g[j], g[i])
             /\ Cardinality(CopiesOf(g, g[i].id)) <= 1 + g[i].depth
  <2>1. /\ h[i].id \in seen
        /\ h[i].reason = "tail" => /\ \E j \in 1..(i - 1) : Caused(h[j], h[i])
                                   /\ \E j \in CopiesOf(h, h[i].id) : j < i
        /\ \A j \in CopiesOf(h, h[i].id) : Agrees(h[j], h[i])
        /\ Cardinality(CopiesOf(h, h[i].id)) <= 1 + h[i].depth
    BY DEF HistoryOk, n
  <2>2. g[i] = h[i] /\ \A j \in 1..(i - 1) : j \in 1..n /\ g[j] = h[j]
    <3>1. \A j \in 1..(i - 1) : j \in 1..n
      BY ONLY <1>1, i \in 1..n
    <3> QED
      BY <1>1, <3>1
  <2>3. CopiesOf(h, h[i].id) \subseteq CopiesOf(g, h[i].id)
    BY <1>2
  <2>4. CASE h[i].id = x.id
    <3>1. i \in CopiesOf(h, x.id)
      BY <2>4 DEF CopiesOf, n
    <3>2. Agrees(h[i], x)
      BY <3>1 DEF Departs
    <3>3. Cardinality(CopiesOf(g, x.id)) <= 1 + h[i].depth
      BY <1>2, <1>4, <3>2 DEF Agrees
    <3> QED
      BY <1>6, <2>1, <2>2, <2>3, <2>4, <3>2, <3>3 DEF Agrees
  <2>5. CASE h[i].id # x.id
    <3>1. CopiesOf(g, h[i].id) = CopiesOf(h, h[i].id) /\ \A j \in CopiesOf(h, h[i].id) : g[j] = h[j]
      BY <1>1, <1>2, <2>5 DEF CopiesOf, n
    <3> QED
      BY <2>1, <2>2, <3>1
  <2> QED
    BY <2>4, <2>5
<1>m. PICK m : m = n + 1
  OBVIOUS
<1>8. ASSUME x.reason = "tail"
      PROVE  (\E j \in 1..(m - 1) : Caused(g[j], x)) /\ \E j \in CopiesOf(g, x.id) : j < m
  <2>1. m - 1 = n /\ \A j \in 1..n : j < m
    BY ONLY <1>1, <1>m
  <2>2. (\E j \in 1..n : Caused(h[j], x)) /\ CopiesOf(h, x.id) # {}
    BY <1>8 DEF Departs, n
  <2> QED
    BY <1>1, <1>2, <2>1, <2>2 DEF CopiesOf, n
<1>9. Cardinality(CopiesOf(g, x.id)) <= 1 + x.depth
  BY <1>2, <1>4
<1> DEFINE Ok(i) == /\ g[i].id \in more
                    /\ g[i].reason = "tail" => /\ \E j \in 1..(i - 1) : Caused(g[j], g[i])
                                               /\ \E j \in CopiesOf(g, g[i].id) : j < i
                    /\ \A j \in CopiesOf(g, g[i].id) : Agrees(g[j], g[i])
                    /\ Cardinality(CopiesOf(g, g[i].id)) <= 1 + g[i].depth
<1>10. Ok(m)
  <2>1. g[m] = x /\ x.id \in more
    BY <1>1, <1>m
  <2>2. /\ g[m].reason = "tail" => /\ \E j \in 1..(m - 1) : Caused(g[j], g[m])
                                   /\ \E j \in CopiesOf(g, g[m].id) : j < m
    BY ONLY <1>8, <2>1, Zenon
  <2>3. g[m].id \in more /\ (\A j \in CopiesOf(g, g[m].id) : Agrees(g[j], g[m]))
        /\ Cardinality(CopiesOf(g, g[m].id)) <= 1 + g[m].depth
    BY ONLY <1>6, <1>9, <2>1, Zenon
  <2> QED
    BY ONLY <2>2, <2>3, Zenon
<1>11. \A i \in 1..n : Ok(i)
  BY <1>7
<1>12. HistoryOk(g, more) <=> \A i \in 1..(n + 1) : Ok(i)
  BY <1>1 DEF HistoryOk
<1> HIDE DEF Ok
<1> QED
  BY <1>5, <1>m, <1>10, <1>11, <1>12 DEF g

(* What auto_fill_envelope leaves alone. *)
LEMMA FilledIs ==
    ASSUME NEW k, NEW env, OwnEnv(env, k), NEW s, OwnFrames(s, k)
    PROVE  LET x == AutoFill(env, s) IN
             /\ OwnEnv(x, k) /\ x.id = env.id /\ x.by = env.by /\ x.depth = env.depth /\ x.reason = env.reason
             /\ x.on = env.on /\ x.pure = env.pure
             /\ x.val = NoVal => \A i \in 1..Len(s) : s[i].val = NoVal
             /\ (\A i \in 1..Len(s) : s[i].val = NoVal) \/ env.val # NoVal => x.val = env.val
<1> DEFINE x == AutoFill(env, s)
           declares == {i \in DOMAIN s : s[i].val # NoVal}
<1>0. OwnEnv(x, k) /\ Len(s) \in Nat /\ DOMAIN s = 1..Len(s) /\ env \in Envs
  BY AutoFillOwn DEF OwnFrames, OwnEnv
<1>1. CASE env.val # NoVal \/ declares = {}
  <2>1. x = env
    BY <1>1 DEF AutoFill
  <2> QED
    BY <1>0, <1>1, <2>1
<1>2. CASE env.val = NoVal /\ declares # {}
  <2> DEFINE v == s[Max(declares)].val
  <2>1. x = [env EXCEPT !.val = v]
    BY <1>2 DEF AutoFill
  <2>2. Max(declares) \in declares
    BY <1>0, <1>2, MaxIsIn
  <2>3. v # NoVal
    BY <2>2
  <2> HIDE DEF v
  <2>4. x.id = env.id /\ x.by = env.by /\ x.depth = env.depth /\ x.reason = env.reason /\ x.val = v
        /\ x.on = env.on /\ x.pure = env.pure
    BY <1>0, <2>1 DEF Envs
  <2>5. ~(\A i \in 1..Len(s) : s[i].val = NoVal)
    BY <1>0, <1>2
  <2> HIDE DEF declares
  <2>6. env.val = NoVal /\ x.val # NoVal
    BY <1>2, <2>3, <2>4
  <2> QED
    BY <1>0, <2>4, <2>5, <2>6
<1> QED
  BY <1>1, <1>2

(* The pipeline loses the envelope, or sends it with its correlation. *)
LEMMA PipelineIs ==
    ASSUME NEW k, NEW env, OwnEnv(env, k), NEW s, OwnFrames(s, k), NEW out \in Pipeline(env, s)
    PROVE  \/ out.keep = <<>> /\ out.stack = s
           \/ \E x : /\ OwnEnv(x, k) /\ x.id = env.id /\ x.by = env.by /\ x.depth = env.depth
                     /\ x.on = env.on /\ x.pure = env.pure
                     /\ x.reason \in {env.reason, "override"}
                     /\ x.val = NoVal => \A i \in 1..Len(s) : s[i].val = NoVal
                     /\ (\A i \in 1..Len(s) : s[i].val = NoVal) \/ env.val # NoVal => x.val = env.val
                     /\ out.keep = <<x>> /\ out.stack \in {s, Record(x, s)}
<1> DEFINE filled == AutoFill(env, s)
           named(d) == IF d = "ParentYes" THEN [filled EXCEPT !.reason = "override"] ELSE filled
           Good(x) == /\ OwnEnv(x, k) /\ x.id = env.id /\ x.by = env.by /\ x.depth = env.depth
                      /\ x.on = env.on /\ x.pure = env.pure
                      /\ x.reason \in {env.reason, "override"}
                      /\ x.val = NoVal => \A i \in 1..Len(s) : s[i].val = NoVal
                      /\ (\A i \in 1..Len(s) : s[i].val = NoVal) \/ env.val # NoVal => x.val = env.val
<1>1. Good(filled)
  BY FilledIs
<1>2. \A d : Good(named(d))
  <2>1. [filled EXCEPT !.reason = "override"] \in Envs
    <3> HIDE DEF filled
    <3> QED
      BY <1>1 DEF OwnEnv, Envs
  <2>2. LET x == [filled EXCEPT !.reason = "override"] IN
          /\ x.id = filled.id /\ x.by = filled.by /\ x.depth = filled.depth /\ x.reason = "override"
          /\ x.on = filled.on /\ x.pure = filled.pure /\ x.val = filled.val
    <3> HIDE DEF filled
    <3> QED
      BY <1>1 DEF OwnEnv, Envs
  <2>3. Good([filled EXCEPT !.reason = "override"])
    <3> HIDE DEF filled
    <3> QED
      BY <1>1, <2>1, <2>2 DEF OwnEnv
  <2> HIDE DEF filled, Good
  <2> QED
    BY <1>1, <2>3
<1>3. \/ out = Lost(s)
      \/ out = [keep |-> <<filled>>, stack |-> s]
      \/ \E d : out = [keep |-> <<named(d)>>, stack |-> Record(named(d), s)]
  BY DEF Pipeline
<1>4. CASE out = Lost(s)
  BY <1>4 DEF Lost
<1>5. CASE out # Lost(s)
  <2> HIDE DEF Good, filled, named
  <2>1. PICK x : Good(x) /\ out.keep = <<x>> /\ out.stack \in {s, Record(x, s)}
    BY <1>1, <1>2, <1>3, <1>5
  <2> QED
    BY <2>1 DEF Good
<1> QED
  BY <1>4, <1>5

LEMMA TailEmpty == ASSUME NEW h, NEW k PROVE ThreadTail(h, k, <<>>, <<>>)
<1>1. Len(<<>>) = 0
  OBVIOUS
<1>2. \A i, j \in Nat : ~InRing(<<>>, <<>>, i, j)
  BY <1>1 DEF InRing, Ring
<1> QED
  BY <1>1, <1>2 DEF ThreadTail, AllAwait, NoneTwice, ErrorSeen

(* The share of a thread. *)
LEMMA TailThread ==
    ASSUME TailInv, NEW th \in Thread
    PROVE  /\ ThreadTail(sent, Whose(th), stack[th], flush[th]) /\ sent \in Seq(Envs)
           /\ OwnFrames(stack[th], Whose(th)) /\ OwnEnvs(flush[th], Whose(th)) /\ Whose(th).on = th
BY DEF TailInv, ScopeInv, ScopeType, ThreadOk, Whose

(* The tails of a thread whose frames mix. *)
LEMMA WidenedTail ==
    ASSUME NEW k, NEW w, w = k \/ (w.on = k.on /\ w.by = Mixed), NEW h, NEW s, NEW q, ThreadTail(h, k, s, q)
    PROVE  ThreadTail(h, w, s, q)
BY DEF ThreadTail, ErrorSeen, ErrorIn

(* The share of a thread that another thread's step does not touch. *)
LEMMA OtherShare ==
    ASSUME NEW u, run'[u] = run[u], left'[u] = left[u] \/ left'[u] = Mixed
    PROVE  Whose(u)' = Whose(u) \/ (Whose(u)'.on = Whose(u).on /\ Whose(u)'.by = Mixed)
BY DEF Whose, Host

(* One thread moves its frames. *)
LEMMA TailMoves ==
    ASSUME TailInv, ScopeInv', NEW th \in Thread, UNCHANGED <<sent, emitted>>,
           \A u \in Thread : u # th => /\ run'[u] = run[u] /\ stack'[u] = stack[u] /\ flush'[u] = flush[u]
                                      /\ (left'[u] = left[u] \/ left'[u] = Mixed),
           ThreadTail(sent, Whose(th)', stack'[th], flush'[th])
    PROVE  TailInv'
<1>1. ASSUME NEW u \in Thread PROVE ThreadTail(sent, Whose(u), stack[u], flush[u])'
  <2>1. ThreadTail(sent', Whose(u)', stack'[u], flush'[u])
    <3>1. CASE u = th
      BY <3>1
    <3>2. CASE u # th
      <4>1. PICK k, w : k = Whose(u) /\ w = Whose(u)'
        OBVIOUS
      <4>2. w = k \/ (w.on = k.on /\ w.by = Mixed)
        BY <3>2, <4>1, OtherShare
      <4>3. ThreadTail(sent, k, stack[u], flush[u])
        BY <4>1 DEF TailInv
      <4>4. ThreadTail(sent, w, stack[u], flush[u])
        BY <4>2, <4>3, WidenedTail
      <4> QED
        BY <3>2, <4>1, <4>4
    <3> QED
      BY <3>1, <3>2
  <2> QED
    BY <2>1
<1> QED
  BY <1>1 DEF TailInv

(* What holds of an envelope as it enters the pipeline. *)
Arrives(h, env, s) ==
    /\ \A j \in CopiesOf(h, env.id) : Agrees(h[j], env)
    /\ CopiesOf(h, env.id) # {} /\ env.val = NoVal => \A i \in 1..Len(s) : s[i].val = NoVal
    /\ Cardinality(CopiesOf(h, env.id)) + Scopes(s, Len(s)) <= env.depth
    /\ env.reason = "tail" => (\E j \in 1..Len(h) : Caused(h[j], env)) /\ CopiesOf(h, env.id) # {}

LEMMA SentIs ==
    ASSUME NEW h, h \in Seq(Envs), NEW x \in Envs
    PROVE  h \o <<x>> = Append(h, x)
OBVIOUS

LEMMA ThroughTail ==
    ASSUME TailInv, ScopeInv', NEW th \in Thread, NEW env, OwnEnv(env, Whose(th)), Through(th, env),
           Arrives(sent, Marked(th, env), stack[th]),
           NEW q, OwnEnvs(q, Whose(th)), flush'[th] = q,
           ThreadTail(sent, Whose(th), stack[th], q), Absent(env.id, stack[th], q),
           \A u \in Thread : u # th => flush'[u] = flush[u], run' = run, left' = left,
           emitted \subseteq emitted', env.id \in emitted'
    PROVE  TailInv'
<1> DEFINE s == stack[th]
<1>0. PICK w, en : w = Whose(th) /\ en = Marked(th, env)
  OBVIOUS
<1>1. /\ ThreadTail(sent, w, s, q) /\ sent \in Seq(Envs) /\ OwnFrames(s, w) /\ HistoryOk(sent, emitted)
      /\ stack \in [Thread -> Seq(Frames)] /\ w.on = th
      /\ OwnEnv(en, w) /\ en.id = env.id /\ Arrives(sent, en, s)
  <2>1. /\ ThreadTail(sent, w, s, q) /\ sent \in Seq(Envs) /\ OwnFrames(s, w) /\ w.on = th
        /\ Arrives(sent, en, s)
    BY <1>0, TailThread
  <2>2. HistoryOk(sent, emitted) /\ stack \in [Thread -> Seq(Frames)] /\ ScopeInv
    BY DEF TailInv, ScopeInv, ScopeType
  <2>3. OwnEnv(en, w) /\ en.id = env.id
    BY <1>0, <2>2, OnThread
  <2> QED
    BY <2>1, <2>2, <2>3
<1>2. PICK out \in Pipeline(en, s) : stack' = [stack EXCEPT ![th] = out.stack] /\ sent' = sent \o out.keep
  BY <1>0 DEF Through
<1>3. stack'[th] = out.stack /\ \A u \in Thread : u # th => stack'[u] = stack[u]
  BY <1>1, <1>2
<1>w. ASSUME NEW u \in Thread PROVE Whose(u)' = Whose(u)
  BY DEF Whose, Host
<1>4. CASE out.keep = <<>> /\ out.stack = s
  <2>1. sent' = sent
    BY <1>1, <1>2, <1>4
  <2>2. HistoryOk(sent, emitted')
    BY <1>1 DEF HistoryOk
  <2>3. ASSUME NEW u \in Thread PROVE ThreadTail(sent', Whose(u)', stack'[u], flush'[u])
    BY <1>0, <1>1, <1>3, <1>4, <1>w, <2>1 DEF TailInv
  <2> QED
    BY <2>1, <2>2, <2>3 DEF TailInv
<1>5. ASSUME NEW x, OwnEnv(x, w), x.id = en.id, x.by = en.by, x.depth = en.depth,
             x.on = en.on, x.pure = en.pure,
             x.reason \in {en.reason, "override"},
             x.val = NoVal => \A i \in 1..Len(s) : s[i].val = NoVal,
             (\A i \in 1..Len(s) : s[i].val = NoVal) \/ en.val # NoVal => x.val = en.val,
             out.keep = <<x>>, out.stack \in {s, Record(x, s)}
      PROVE  TailInv'
  <2>1. x \in Envs /\ x.on = th
    BY <1>1, <1>5 DEF OwnEnv
  <2>2. sent' = Append(sent, x)
    BY <1>1, <1>2, <1>5, <2>1, SentIs
  <2>3. Departs(sent, x, s)
    BY <1>1, <1>5 DEF Arrives, Departs, Agrees, Caused
  <2>4. HistoryOk(Append(sent, x), emitted')
    <3>1. s \in Seq(Frames) /\ x.id \in emitted'
      BY <1>5, <1>1 DEF OwnFrames
    <3> QED
      BY <1>1, <2>1, <2>3, <3>1, HistoryGrows
  <2>5. Absent(x.id, s, q)
    BY <1>1, <1>5
  <2>6. ThreadTail(Append(sent, x), w, out.stack, q)
    <3>0. OwnEnvs(q, w)
      BY <1>0
    <3>1. CASE out.stack = s
      BY <1>1, <2>1, <2>5, <3>1, AbsentSend
    <3>2. CASE out.stack = Record(x, s)
      BY <1>1, <1>5, <2>3, <2>5, <3>0, <3>2, RecordTail
    <3> QED
      BY <1>5, <3>1, <3>2
  <2>7. ASSUME NEW u \in Thread PROVE ThreadTail(sent', Whose(u)', stack'[u], flush'[u])
    <3>1. CASE u = th
      BY <1>0, <1>3, <1>w, <2>2, <2>6, <3>1
    <3>2. CASE u # th
      <4>1. PICK v : v = Whose(u)
        OBVIOUS
      <4>2. \A j \in CopiesOf(sent, x.id) : sent[j].on = x.on
        BY <2>3 DEF Departs, Agrees
      <4>3. OwnFrames(stack[u], v) /\ OwnEnvs(flush[u], v) /\ ThreadTail(sent, v, stack[u], flush[u]) /\ v.on = u
        BY <4>1, TailThread
      <4>4. ThreadTail(Append(sent, x), v, stack[u], flush[u])
        BY <1>1, <2>1, <3>2, <4>2, <4>3, OtherSend
      <4> QED
        BY <1>3, <1>w, <2>2, <3>2, <4>1, <4>4
    <3> QED
      BY <3>1, <3>2
  <2> QED
    BY <2>2, <2>4, <2>7 DEF TailInv
<1> QED
  BY <1>1, <1>4, <1>5, PipelineIs

LEMMA TailInitInv == Init => TailInv
<1> SUFFICES ASSUME Init PROVE TailInv
  OBVIOUS
<1>1. \A th \in Thread : ThreadTail(sent, Whose(th), stack[th], flush[th])
  BY TailEmpty DEF Init
<1>2. HistoryOk(sent, emitted)
  BY DEF Init, HistoryOk
<1> QED
  BY <1>1, <1>2, ScopeInitInv DEF TailInv

LEMMA TailNextInv == AppOk /\ TailInv /\ [Next]_vars => TailInv'
<1> SUFFICES ASSUME AppOk, TailInv, [Next]_vars PROVE TailInv'
  OBVIOUS
<1>inv. ScopeInv /\ ScopeInv'
  BY ScopeNextInv DEF TailInv
<1>type. /\ stack \in [Thread -> Seq(Frames)] /\ run \in [Thread -> Task \union {Idle}]
         /\ flush \in [Thread -> Seq(Envs)] /\ sent \in Seq(Envs)
         /\ left \in [Thread -> Task \union {Idle, Mixed}]
  BY <1>inv DEF ScopeInv, ScopeType
<1>own. ASSUME NEW th \in Thread
        PROVE  /\ OwnFrames(stack[th], Whose(th)) /\ OwnEnvs(flush[th], Whose(th)) /\ Whose(th).on = th
               /\ ThreadTail(sent, Whose(th), stack[th], flush[th])
               /\ run[th] # Idle => run[th] \in Task /\ Whose(th).by \in {run[th], Mixed}
  BY <1>inv, Running, TailThread
<1>same. ASSUME NEW th \in Thread, run' = run, left' = left PROVE Whose(th)' = Whose(th)
  BY <1>same DEF Whose, Host
<1>push. ASSUME NEW th \in Thread, Busy(th), NEW kind \in {"Scope", "Context"},
                NEW v, v = NoVal \/ v = <<run[th], Len(stack[th]) + 1>>, NEW sampled \in {"unset", "yes", "no"},
                Push(th, Frame(run[th], kind, v, sampled)), UNCHANGED <<run, left, flush, emitted, sent>>
         PROVE  TailInv'
  <2>0. PICK k, w : k = run[th] /\ w = Whose(th)
    OBVIOUS
  <2> DEFINE f == Frame(k, kind, v, sampled)
  <2>1. k \in Task /\ w.by \in {k, Mixed} /\ flush[th] = <<>> /\ OwnFrames(stack[th], w)
        /\ ThreadTail(sent, w, stack[th], <<>>) /\ w = Whose(th)'
    BY <1>push, <1>own, <1>same, <2>0 DEF Busy
  <2>2. (v = NoVal \/ v \in Task \X Nat) /\ (v # NoVal => v[1] = k)
    <3>1. Len(stack[th]) + 1 \in Nat
      BY <1>type
    <3> QED
      BY <1>push, <2>0, <2>1, <3>1
  <2>3. f \in Frames /\ f.tail = <<>> /\ ~f.seen_error
    BY <1>push, <2>1, <2>2, FrameOwn
  <2>4. stack'[th] = Append(stack[th], f) /\ \A u \in Thread : u # th => stack'[u] = stack[u]
    BY <1>push, <1>type, <2>0 DEF Push
  <2> HIDE DEF f
  <2>5. ThreadTail(sent, w, Append(stack[th], f), <<>>)
    BY <2>1, <2>3, TailPushed
  <2> QED
    BY <1>inv, <1>push, <2>1, <2>4, <2>5, TailMoves
<1>pop. ASSUME NEW th \in Thread, Busy(th), stack' = [stack EXCEPT ![th] = Popped(@)],
               NEW q, q \in {<<>>, Leftover(stack[th])}, flush' = [flush EXCEPT ![th] = q],
               UNCHANGED <<run, left, emitted, sent>>
        PROVE  TailInv'
  <2>0. PICK w : w = Whose(th)
    OBVIOUS
  <2> DEFINE s == stack[th]
  <2>1. w = Whose(th)' /\ OwnFrames(s, w) /\ ThreadTail(sent, w, s, <<>>)
    BY <1>own, <1>pop, <1>same, <2>0 DEF Busy
  <2>2. ThreadTail(sent, w, Popped(s), q)
    <3>1. CASE s = <<>>
      BY <1>pop, <3>1, TailEmpty DEF Popped, Leftover
    <3>2. CASE s # <<>>
      BY <1>pop, <2>1, <3>2, TailPopped
    <3> QED
      BY <3>1, <3>2
  <2>3. /\ stack'[th] = Popped(s) /\ flush'[th] = q
        /\ \A u \in Thread : u # th => stack'[u] = stack[u] /\ flush'[u] = flush[u]
    BY <1>pop, <1>type
  <2> QED
    BY <1>inv, <1>pop, <2>1, <2>2, <2>3, TailMoves
<1>leave. ASSUME NEW th \in Thread, Busy(th), NEW at \in {"idle", "done"}, LeavePoll(th, at),
                 at = "done" => held[run[th]] = <<>>
          PROVE  TailInv'
  <2>0. PICK k, w, v : k = run[th] /\ w = Whose(th)' /\ v = Whose(th)
    OBVIOUS
  <2> DEFINE s == IF Seeded(k) /\ task[k] = "polling" THEN Popped(stack[th]) ELSE stack[th]
  <2>1. /\ run' = [run EXCEPT ![th] = Idle] /\ UNCHANGED <<flush, emitted, sent>> /\ flush[th] = <<>>
        /\ left' = [left EXCEPT ![th] = IF @ = Mixed \/ held[k] = <<>> THEN @ ELSE k]
        /\ stack' = [stack EXCEPT ![th] = s] /\ k # Idle
    BY <1>leave, <2>0 DEF LeavePoll, Leaves, Busy
  <2>2. /\ run'[th] = Idle /\ stack'[th] = s
        /\ left'[th] = IF left[th] = Mixed \/ held[k] = <<>> THEN left[th] ELSE k
        /\ \A u \in Thread : u # th => run'[u] = run[u] /\ stack'[u] = stack[u] /\ left'[u] = left[u]
    BY <1>type, <2>1
  <2>3. ThreadTail(sent, v, s, <<>>)
    <3>1. OwnFrames(stack[th], v) /\ ThreadTail(sent, v, stack[th], <<>>)
      BY <1>own, <2>0, <2>1
    <3>2. ThreadTail(sent, v, Popped(stack[th]), <<>>)
      <4>1. CASE stack[th] = <<>>
        BY <4>1, TailEmpty DEF Popped
      <4>2. CASE stack[th] # <<>>
        BY <3>1, <4>2, TailPopped
      <4> QED
        BY <4>1, <4>2
    <3> QED
      BY <3>1, <3>2
  <2> HIDE DEF s
  <2>4. ThreadTail(sent, w, s, <<>>)
    <3>1. CASE left[th] = Mixed \/ held[k] # <<>>
      <4>1. w = v
        BY <2>0, <2>1, <2>2, <3>1 DEF Whose, Host
      <4> QED
        BY <2>3, <4>1
    <3>2. CASE left[th] # Mixed /\ held[k] = <<>>
      <4>1. left'[th] = Idle /\ Idle # Mixed
        BY <1>inv, <2>0, <2>1, <2>2, <3>2, Running, ScopeAssumption
      <4>2. Host(th)' = Idle
        BY <2>2, <4>1 DEF Host
      <4>3. Len(stack'[th]) = 0 /\ stack'[th] \in Seq(Frames)
        BY <1>inv, <4>1, <4>2 DEF ScopeInv, ScopeType, ThreadOk, Size
      <4>4. s = <<>>
        BY <2>2, <4>3
      <4> QED
        BY <4>4, TailEmpty
    <3> QED
      BY <3>1, <3>2
  <2>5. ThreadTail(sent, Whose(th)', stack'[th], flush'[th])
    BY <2>0, <2>1, <2>2, <2>4
  <2> QED
    BY <1>inv, <2>1, <2>2, <2>5, TailMoves
<1>take. ASSUME NEW th \in Thread, NEW k \in Task, run[th] = Idle, task[k] = "idle",
                run' = [run EXCEPT ![th] = k], Resumed(th, k)
         PROVE  /\ ThreadTail(sent, Whose(th)', stack[th], <<>>) /\ OwnFrames(stack[th], Whose(th)')
                /\ Whose(th)'.by \in {k, Mixed} /\ flush[th] = <<>>
                /\ \A u \in Thread : u # th => run'[u] = run[u] /\ (left'[u] = left[u] \/ left'[u] = Mixed)
  <2>0. PICK w, v : w = Whose(th)' /\ v = Whose(th)
    OBVIOUS
  <2>1. /\ \A u \in Thread : u # th => left'[u] = IF left[u] = k THEN Mixed ELSE left[u]
        /\ w = [on |-> th, by |-> IF left'[th] = Mixed THEN Mixed ELSE k] /\ flush[th] = <<>>
        /\ OwnFrames(stack[th], w) /\ (stack[th] = <<>> \/ w = v \/ w.by = Mixed)
    BY <1>inv, <1>take, <2>0, Taken
  <2>2. \A u \in Thread : u # th => run'[u] = run[u] /\ (left'[u] = left[u] \/ left'[u] = Mixed)
    BY <1>take, <1>type, <2>1
  <2>3. ThreadTail(sent, v, stack[th], <<>>) /\ v.on = th
    BY <1>own, <2>0, <2>1
  <2>4. ThreadTail(sent, w, stack[th], <<>>)
    <3>1. CASE stack[th] = <<>>
      BY <3>1, TailEmpty
    <3>2. CASE w = v \/ w.by = Mixed
      <4>1. w = v \/ (w.on = v.on /\ w.by = Mixed)
        BY <2>1, <2>3, <3>2
      <4> QED
        BY <2>3, <4>1, WidenedTail
    <3> QED
      BY <2>1, <3>1, <3>2
  <2>5. w.by \in {k, Mixed}
    BY <2>1
  <2> QED
    BY <2>0, <2>1, <2>2, <2>4, <2>5
<1>1. ASSUME NEW th \in Thread, NEW k \in Task, Poll(th, k) PROVE TailInv'
  <2>0. PICK w : w = Whose(th)'
    OBVIOUS
  <2> DEFINE f == Frame(k, SeedKind[k], <<k, Len(stack[th]) + 1>>, "unset")
  <2>1. /\ run[th] = Idle /\ task[k] = "idle" /\ run' = [run EXCEPT ![th] = k] /\ Resumed(th, k)
        /\ UNCHANGED <<flush, emitted, sent>>
    BY <1>1 DEF Poll
  <2>2. /\ ThreadTail(sent, w, stack[th], <<>>) /\ OwnFrames(stack[th], w)
        /\ w.by \in {k, Mixed} /\ flush[th] = <<>>
        /\ \A u \in Thread : u # th => run'[u] = run[u] /\ (left'[u] = left[u] \/ left'[u] = Mixed)
    BY <1>take, <2>0, <2>1
  <2>3. \A u \in Thread : u # th => stack'[u] = stack[u]
    BY <1>1, <1>type DEF Poll, Push
  <2>4. ThreadTail(sent, w, stack'[th], <<>>)
    <3>1. CASE Seeded(k)
      <4>1. SeedKind[k] \in {"Scope", "Context"}
        BY <3>1, ScopeAssumption DEF Seeded
      <4>2. <<k, Len(stack[th]) + 1>> \in Task \X Nat /\ <<k, Len(stack[th]) + 1>>[1] = k
        <5>1. Len(stack[th]) + 1 \in Nat
          BY <1>type
        <5> QED
          BY <5>1
      <4>3. f \in Frames /\ f.tail = <<>> /\ ~f.seen_error
        BY <2>2, <4>1, <4>2, FrameOwn
      <4>4. stack'[th] = Append(stack[th], f)
        BY <1>1, <1>type, <3>1 DEF Poll, Push
      <4> HIDE DEF f
      <4> QED
        BY <2>2, <4>3, <4>4, TailPushed
    <3>2. CASE ~Seeded(k)
      BY <1>1, <2>2, <3>2 DEF Poll
    <3> QED
      BY <3>1, <3>2
  <2> QED
    BY <1>inv, <2>0, <2>1, <2>2, <2>3, <2>4, TailMoves
<1>2. ASSUME NEW th \in Thread, NEW k \in Task, Cancel(th, k) PROVE TailInv'
  <2>1. /\ run[th] = Idle /\ task[k] = "idle" /\ run' = [run EXCEPT ![th] = k] /\ Resumed(th, k)
        /\ UNCHANGED <<stack, flush, emitted, sent>>
    BY <1>2 DEF Cancel
  <2>2. /\ ThreadTail(sent, Whose(th)', stack[th], <<>>) /\ flush[th] = <<>>
        /\ \A u \in Thread : u # th => run'[u] = run[u] /\ (left'[u] = left[u] \/ left'[u] = Mixed)
    BY <1>take, <2>1
  <2> QED
    BY <1>inv, <2>1, <2>2, TailMoves
<1>3. ASSUME NEW th \in Thread, NEW shape \in Shape, Enter(th, shape) PROVE TailInv'
  <2>1. shape.kind \in {"Scope", "Context"} /\ shape.sampled \in {"unset", "yes", "no"}
    BY DEF Shape
  <2> QED
    BY <1>3, <1>push, <2>1 DEF Enter, MayEnter
<1>4. ASSUME NEW th \in Thread, SpanEnter(th) PROVE TailInv'
  BY <1>4, <1>push DEF SpanEnter, MayEnter
<1>5. ASSUME NEW th \in Thread, SpanExit(th) \/ IntoInner(th) PROVE TailInv'
  <2>1. Busy(th) /\ held[run[th]] # <<>> /\ stack' = [stack EXCEPT ![th] = Popped(@)]
        /\ UNCHANGED <<run, left, emitted, sent, flush>> /\ flush[th] = <<>>
    BY <1>5 DEF SpanExit, IntoInner, Holding, Busy
  <2>2. flush' = [flush EXCEPT ![th] = <<>>]
    BY <1>type, <2>1
  <2> QED
    BY <1>pop, <2>1, <2>2
<1>6. ASSUME NEW th \in Thread, DropGuard(th) PROVE TailInv'
  <2>1. Busy(th) /\ held[run[th]] # <<>> /\ stack' = [stack EXCEPT ![th] = Popped(@)]
        /\ flush' = [flush EXCEPT ![th] = Leftover(stack[th])] /\ UNCHANGED <<run, left, emitted, sent>>
    BY <1>6 DEF DropGuard, Holding
  <2> QED
    BY <1>pop, <2>1
<1>7. ASSUME NEW th \in Thread, NEW e \in Event, NEW kind \in Kind, Emit(th, e, kind) PROVE TailInv'
  <2> DEFINE k == run[th]
             s == stack[th]
             scopes == {i \in DOMAIN stack[th] : stack[th][i].kind = "Scope"}
             env == [id |-> e, by |-> k, sev |-> kind.sev, reason |-> kind.reason,
                     big |-> kind.big, val |-> NoVal, on |-> th, pure |-> TRUE, depth |-> Cardinality(scopes)]
  <2>1. /\ k # Idle /\ flush[th] = <<>> /\ Through(th, env) /\ UNCHANGED <<run, left, flush>> /\ e \notin emitted
        /\ emitted' = emitted \union {e}
    BY <1>7 DEF Emit, Busy
  <2>2. k \in Task /\ s \in Seq(Frames) /\ DOMAIN s = 1..Len(s) /\ Len(s) \in Nat
        /\ Whose(th).on = th /\ Whose(th).by \in {k, Mixed}
    BY <1>own, <1>type, <2>1
  <2>3. Cardinality(scopes) = Scopes(s, Len(s)) /\ Scopes(s, Len(s)) \in Nat
    <3>1. scopes = {i \in 1..Len(s) : s[i].kind = "Scope"}
      BY <2>2
    <3>2. Scopes(s, Len(s)) \in Nat
      BY ONLY <2>2, ScopesAre
    <3> QED
      BY <3>1, <3>2 DEF Scopes
  <2>4. /\ kind.sev \in {Debug, Info, Error} /\ kind.reason \in {"none", "bypass"} /\ kind.big \in BOOLEAN
    BY DEF Kind
  <2> HIDE DEF scopes
  <2>5. OwnEnv(env, Whose(th))
    BY <2>2, <2>3, <2>4 DEF OwnEnv, Envs, Vals
  <2>6. env.id = e /\ env.depth = Scopes(s, Len(s)) /\ env.reason # "tail"
    BY <2>3, <2>4
  <2> HIDE DEF env
  <2>7. CopiesOf(sent, e) = {}
    BY <2>1 DEF TailInv, HistoryOk, CopiesOf
  <2>8. Arrives(sent, Marked(th, env), s)
    <3>0. PICK en : en = Marked(th, env)
      OBVIOUS
    <3>1. en.id = e /\ en.depth = Scopes(s, Len(s)) /\ en.reason # "tail"
      BY <1>inv, <2>5, <2>6, <3>0, OnThread
    <3>2. Cardinality({}) + Scopes(s, Len(s)) <= en.depth
      <4>1. Cardinality({}) = 0
        BY FS_EmptySet
      <4> QED
        BY ONLY <2>3, <3>1, <4>1
    <3> QED
      BY <2>7, <3>0, <3>1, <3>2 DEF Arrives
  <2>9. ThreadTail(sent, Whose(th), s, <<>>) /\ flush'[th] = <<>> /\ OwnEnvs(<<>>, Whose(th))
    BY <1>own, <2>1, EmptyOwn
  <2>10. Absent(env.id, s, <<>>)
    <3> SUFFICES ASSUME NEW i \in Nat, NEW j \in Nat, InRing(s, <<>>, i, j), Ring(s, <<>>, i)[j].id = e
                 PROVE  FALSE
      BY <2>6 DEF Absent
    <3> QED
      BY <2>7, <2>9 DEF ThreadTail, AllAwait, Awaits
  <2>11. env.id \in emitted' /\ emitted \subseteq emitted'
    BY <2>1, <2>6
  <2> QED
    BY <1>inv, <2>1, <2>5, <2>8, <2>9, <2>10, <2>11, ThroughTail
<1>8. ASSUME NEW th \in Thread, FlushOne(th) PROVE TailInv'
  <2>0. PICK w : w = Whose(th)
    OBVIOUS
  <2> DEFINE s == stack[th]
             first == Head(flush[th])
             q == Tail(flush[th])
             env == [first EXCEPT !.reason = "tail"]
  <2>1. /\ flush[th] # <<>> /\ flush' = [flush EXCEPT ![th] = q] /\ Through(th, env)
        /\ UNCHANGED <<run, left, emitted>>
    BY <1>8 DEF FlushOne
  <2>2. OwnFrames(s, w) /\ OwnEnvs(flush[th], w) /\ w.on = th /\ ThreadTail(sent, w, s, flush[th])
    BY <1>own, <2>0
  <2>3. OwnEnvs(q, w) /\ OwnEnv(first, w)
    BY <2>1, <2>2, TailOwn
  <2>4. OwnEnv(env, w)
    BY <2>3 DEF OwnEnv, Envs
  <2>5. flush'[th] = q /\ \A u \in Thread : u # th => flush'[u] = flush[u]
    BY <1>type, <2>1
  <2>6. w.by = Mixed => left[th] = Mixed
    BY <1>inv, <2>0, ScopeAssumption DEF ScopeInv, ScopeType, Whose, Host
  <2>7. /\ ThreadTail(sent, w, s, q) /\ ErrorIn(sent, w)
        /\ Awaits(sent, first, s, Len(s)) /\ Absent(first.id, s, q)
    BY <2>1, <2>2, TailTaken
  <2> HIDE DEF first, q
  <2>8. /\ env.id = first.id /\ env.val = first.val /\ env.by = first.by /\ env.depth = first.depth
        /\ env.on = first.on
    BY <2>3 DEF OwnEnv, Envs
  <2> HIDE DEF env
  <2>9. Arrives(sent, Marked(th, env), s)
    <3>0. PICK en : en = Marked(th, env)
      OBVIOUS
    <3>1. /\ en.id = first.id /\ en.val = first.val /\ en.by = first.by /\ en.depth = first.depth
          /\ en.on = first.on /\ OwnEnv(en, w) /\ (en.pure <=> left[th] # Mixed)
      BY <1>inv, <2>0, <2>4, <2>8, <3>0, OnThread
    <3>2. \E j \in 1..Len(sent) : Caused(sent[j], en)
      <4>1. en.on = w.on /\ (en.pure => w.by # Mixed /\ en.by = w.by)
        BY <2>6, <3>1 DEF OwnEnv
      <4> QED
        BY <2>7, <4>1 DEF ErrorIn, Caused
    <3>3. Arrives(sent, en, s)
      BY <2>7, <3>1, <3>2 DEF Awaits, Arrives, Agrees
    <3> QED
      BY <3>0, <3>3
  <2>10. env.id \in emitted'
    BY <2>1, <2>7, <2>8 DEF TailInv, HistoryOk, CopiesOf, Awaits
  <2>11. Absent(env.id, s, q)
    BY <2>7, <2>8
  <2>12. emitted \subseteq emitted'
    BY <2>1
  <2> QED
    BY <1>inv, <2>0, <2>1, <2>3, <2>4, <2>5, <2>7, <2>9, <2>10, <2>11, <2>12, ThroughTail
<1>9. ASSUME NEW th \in Thread, Pending(th) \/ Ready(th) PROVE TailInv'
  BY <1>9, <1>leave DEF Pending, MaySuspend, Ready
<1>10. CASE UNCHANGED <<stack, run, left, flush, emitted, sent>>
  BY <1>10, <1>inv DEF TailInv, Whose, Host
<1>11. ASSUME NEW c, Reload(c) PROVE TailInv'
  BY <1>10, <1>11 DEF Reload
<1>12. CASE UNCHANGED vars
  BY <1>10, <1>12 DEF vars
<1>13. app.shapes \subseteq Shape /\ app.kinds \subseteq Kind
  BY AppNext
<1> QED
  BY <1>1, <1>2, <1>3, <1>4, <1>5, <1>6, <1>7, <1>8, <1>9, <1>11, <1>12, <1>13 DEF Next

(* flush_through and run_emit_pipeline, for any tasks, with guards across  *)
(* an .await or without: a tail copy follows an error on its own thread,   *)
(* and of its own task where frames have not mixed; it repeats an envelope *)
(* that was sent before with the same correlation, and there is at most    *)
(* one copy per scope that was open when the event was emitted.            *)
THEOREM TailCopiesHold == Spec => []TailCopies
<1>1. TailInv => TailCopies
  <2> SUFFICES ASSUME TailInv, NEW i \in DOMAIN sent
               PROVE  LET copies == {j \in DOMAIN sent : sent[j].id = sent[i].id}
                      IN /\ sent[i].reason = "tail" =>
                              /\ \E j \in 1..(i - 1) : /\ sent[j].sev >= Error /\ sent[j].on = sent[i].on
                                                       /\ sent[i].pure => sent[j].by = sent[i].by
                              /\ \E j \in copies : j < i
                         /\ \A j \in copies : sent[j].val = sent[i].val
                         /\ Cardinality(copies) <= 1 + sent[i].depth
    BY DEF TailCopies
  <2>1. DOMAIN sent = 1..Len(sent)
    BY DEF TailInv, ScopeInv, ScopeType
  <2>2. {j \in DOMAIN sent : sent[j].id = sent[i].id} = CopiesOf(sent, sent[i].id)
    BY <2>1 DEF CopiesOf
  <2> QED
    BY <2>1, <2>2 DEF TailInv, HistoryOk, Agrees, Caused
<1>2. Init => AppOk /\ TailInv
  BY TailInitInv DEF Init, AppOk
<1>3. AppOk /\ TailInv /\ [Next]_vars => (AppOk /\ TailInv)'
  BY AppNext, TailNextInv
<1> QED
  BY <1>1, <1>2, <1>3, PTL DEF Spec
===============================================================================
