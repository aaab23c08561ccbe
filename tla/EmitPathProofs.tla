---------------------------- MODULE EmitPathProofs ----------------------------
(* Theorems about what decides whether an emit goes out and to whom: the   *)
(* Interest cache of a callsite and its re-entry guard, for any threads,   *)
(* observers, reloaders and reloads; the obs.yaml watcher, for any number  *)
(* of saves; the observer slots, for any threads, tasks, observers and     *)
(* ring size; the two stages of the filter, for any targets and any number *)
(* of directives.                                                          *)
EXTENDS CallsiteCache, ConfigWatcher, ObserverSlots, EventFilter,
        FiniteSetTheorems, SequenceTheorems, TLAPS

-------------------------------------------------------------------------------
(* The re-entry guard.                                                     *)

AnswerType == [obs : Observer, cur : Nat, ok : BOOLEAN]

EmitType == [at : {"idle", "load", "store", "act", "inside"}, obs : Observer,
             cur : Nat, cg : Nat \union {Unread},
             ci : {"Unknown", "Always", "Never", "unread"},
             gen : AnswerType, interest : AnswerType, ok : BOOLEAN,
             left : SUBSET {"interest", "gen"}, nested : BOOLEAN]

GuardType ==
    /\ emit \in [Thread -> EmitType]
    /\ can_enter \in [Thread -> BOOLEAN]
    /\ panicked \in [Thread -> BOOLEAN]
    /\ interest \in {"Unknown", "Always", "Never"}
    /\ cached_gen \in Nat
    /\ by \in [interest : AnswerType, gen : AnswerType]
    /\ gen \in [Observer -> Nat]
    /\ allow \in [Observer -> BOOLEAN]
    /\ reload \in [Reloader -> [at : {"idle", "bump"}, obs : Observer, old : BOOLEAN]]

(* A thread at rest, or inside the observer, is in no nested emit. *)
RestsUnnested ==
    \A t \in Thread : emit[t].at \in {"idle", "inside"} => ~emit[t].nested

GuardInv == GuardType /\ RestsUnnested /\ GuardIsBalanced

(* The guard's invariant holds when the process starts. *)
LEMMA AtRestTyped ==
    ASSUME NEW at \in {"idle", "load", "store", "act", "inside"}
    PROVE  NoAnswer \in AnswerType /\ Resting(at) \in EmitType /\ Resting(at).at = at /\ ~Resting(at).nested
<1>1. NoAnswer \in AnswerType
  BY DEF NoAnswer, Answer, AnswerType, Observer
<1> QED
  BY <1>1 DEF Resting, EmitType, Observer, Unread

LEMMA GuardInit == Init => GuardInv
<1> SUFFICES ASSUME Init PROVE GuardInv
  OBVIOUS
<1>1. NoAnswer \in AnswerType /\ \A t \in Thread : emit[t] = Resting("idle") /\ emit[t] \in EmitType
  BY AtRestTyped DEF Init
<1>2. GuardType
  <2>1. emit \in [Thread -> EmitType] /\ by \in [interest : AnswerType, gen : AnswerType]
    BY <1>1 DEF Init
  <2> QED
    BY <2>1, CallsiteAssumption DEF Init, GuardType, NoReload, Observer
<1>3. \A t \in Thread : emit[t].at = "idle" /\ ~emit[t].nested /\ can_enter[t]
  BY <1>1, AtRestTyped DEF Init
<1> QED
  BY <1>2, <1>3 DEF GuardInv, RestsUnnested, GuardIsBalanced

(* A step inside an emit that neither takes nor releases the guard. *)
LEMMA GuardWithin ==
    ASSUME GuardInv, NEW t \in Thread, NEW e \in EmitType,
           emit' = [emit EXCEPT ![t] = e],
           emit[t].at \in {"load", "store"}, e.at \in {"load", "store", "act"},
           e.nested = emit[t].nested,
           interest' \in {"Unknown", "Always", "Never"}, cached_gen' \in Nat,
           by' \in [interest : AnswerType, gen : AnswerType],
           UNCHANGED <<can_enter, panicked, gen, allow, reload>>
    PROVE  GuardInv'
<1>1. GuardType'
  BY DEF GuardInv, GuardType
<1>2. \A u \in Thread : u # t => emit'[u] = emit[u]
  BY DEF GuardInv, GuardType
<1>3. emit'[t] = e
  BY DEF GuardInv, GuardType
<1>4. RestsUnnested'
  BY <1>2, <1>3 DEF GuardInv, RestsUnnested
<1>5. GuardIsBalanced'
  BY <1>2, <1>3 DEF GuardInv, GuardIsBalanced
<1> QED
  BY <1>1, <1>4, <1>5 DEF GuardInv

(* The step that starts or ends an emit. *)
LEMMA GuardAround ==
    ASSUME GuardInv, NEW t \in Thread, NEW e \in EmitType,
           emit' = [emit EXCEPT ![t] = e],
           e.at \in {"idle", "inside"} => ~e.nested,
           can_enter' \in [Thread -> BOOLEAN], panicked' \in [Thread -> BOOLEAN],
           \A u \in Thread : u # t => can_enter'[u] = can_enter[u] /\ panicked'[u] = panicked[u],
           ~panicked'[t] => (can_enter'[t] <=> ~(e.at = "inside" \/ e.nested)),
           UNCHANGED <<interest, cached_gen, by, gen, allow, reload>>
    PROVE  GuardInv'
<1>1. GuardType'
  BY DEF GuardInv, GuardType
<1>2. emit'[t] = e /\ \A u \in Thread : u # t => emit'[u] = emit[u]
  BY DEF GuardInv, GuardType
<1>3. RestsUnnested'
  BY <1>2 DEF GuardInv, RestsUnnested
<1>4. GuardIsBalanced'
  BY <1>2 DEF GuardInv, GuardIsBalanced
<1> QED
  BY <1>1, <1>3, <1>4 DEF GuardInv

(* Every step of an emit, a reload or a panic preserves it. *)
LEMMA GuardNext == GuardInv /\ [Next]_vars => GuardInv'
<1> SUFFICES ASSUME GuardInv, [Next]_vars PROVE GuardInv'
  OBVIOUS
<1> USE CallsiteAssumption
<1>0. /\ \A t \in Thread : emit[t] \in EmitType
      /\ cached_gen \in Nat /\ interest \in {"Unknown", "Always", "Never"}
      /\ by \in [interest : AnswerType, gen : AnswerType] /\ by.gen \in AnswerType /\ by.interest \in AnswerType
  BY DEF GuardInv, GuardType
<1>1. ASSUME NEW t \in Thread, NEW o \in Observer, Begin(t, o) PROVE GuardInv'
  <2>1. PICK x, b : x = Resting("load") /\ b = (emit[t].at = "inside")
    OBVIOUS
  <2>2. x \in EmitType /\ x.at = "load" /\ b \in BOOLEAN /\ gen[o] \in Nat
    BY <2>1, AtRestTyped DEF GuardInv, GuardType
  <2>3. PICK e : e = [x EXCEPT !.obs = o, !.cur = gen[o], !.nested = b]
    OBVIOUS
  <2>4. e \in EmitType /\ e.at = "load" /\ e.nested = b
    BY <2>2, <2>3 DEF EmitType
  <2>5. /\ emit' = [emit EXCEPT ![t] = e] /\ emit[t].at \in {"idle", "inside"}
        /\ UNCHANGED <<interest, cached_gen, by, gen, allow, reload, can_enter, panicked>>
    BY <1>1, <2>1, <2>3 DEF Begin, cacheVars, obsVars
  <2>6. ~panicked[t] => (can_enter[t] <=> ~(emit[t].at = "inside" \/ emit[t].nested))
    BY DEF GuardInv, GuardIsBalanced
  <2>7. ~emit[t].nested
    BY <2>5 DEF GuardInv, RestsUnnested
  <2>8. ~panicked'[t] => (can_enter'[t] <=> ~(e.at = "inside" \/ e.nested))
    BY <2>1, <2>4, <2>5, <2>6, <2>7
  <2> QED
    BY <2>4, <2>5, <2>8, GuardAround DEF GuardInv, GuardType
<1>2. ASSUME NEW t \in Thread, LoadGen(t) PROVE GuardInv'
  <2> DEFINE e == [emit[t] EXCEPT !.cg = cached_gen, !.gen = by.gen]
  <2>1. e \in EmitType /\ e.at = "load" /\ e.nested = emit[t].nested /\ emit[t].at = "load"
    <3>1. emit[t] \in EmitType
      BY <1>0
    <3>2. emit[t].at = "load"
      BY <1>2 DEF LoadGen
    <3> QED
      BY ONLY <1>0, <3>1, <3>2 DEF EmitType
  <2>2. emit' = [emit EXCEPT ![t] = e]
    BY <1>0, <1>2 DEF LoadGen, GuardInv, GuardType
  <2>3. UNCHANGED <<interest, cached_gen, by, gen, allow, reload, can_enter, panicked>>
    BY <1>2 DEF LoadGen, cacheVars, obsVars
  <2> HIDE DEF e
  <2> QED
    BY <1>0, <2>1, <2>2, <2>3, GuardWithin
<1>3. ASSUME NEW t \in Thread, LoadInterest(t) PROVE GuardInv'
  <2> DEFINE e == [emit[t] EXCEPT !.ci = interest, !.interest = by.interest]
  <2>1. e \in EmitType /\ e.at = "load" /\ e.nested = emit[t].nested /\ emit[t].at = "load"
    <3>1. emit[t] \in EmitType
      BY <1>0
    <3>2. emit[t].at = "load"
      BY <1>3 DEF LoadInterest
    <3> QED
      BY ONLY <1>0, <3>1, <3>2 DEF EmitType
  <2>2. emit' = [emit EXCEPT ![t] = e]
    BY <1>0, <1>3 DEF LoadInterest, GuardInv, GuardType
  <2>3. UNCHANGED <<interest, cached_gen, by, gen, allow, reload, can_enter, panicked>>
    BY <1>3 DEF LoadInterest, cacheVars, obsVars
  <2> HIDE DEF e
  <2> QED
    BY <1>0, <2>1, <2>2, <2>3, GuardWithin
<1>4. ASSUME NEW t \in Thread, Decide(t) PROVE GuardInv'
  <2>1. PICK a : a = Answer(emit[t].obs, emit[t].cur, allow[emit[t].obs])
    OBVIOUS
  <2>2. PICK p : p = (emit[t].ci = "Always")
    OBVIOUS
  <2> DEFINE x == [emit[t] EXCEPT !.at = "store", !.left = {"interest", "gen"}, !.cg = Unread, !.ci = "unread",
                                  !.ok = a.ok, !.gen = a, !.interest = a]
             y == [emit[t] EXCEPT !.at = "act", !.cg = Unread, !.ci = "unread", !.ok = p]
             e == IF Stale(emit[t]) THEN x ELSE y
  <2>3. emit[t] \in EmitType /\ emit[t].at = "load" /\ p \in BOOLEAN
    BY <1>0, <1>4, <2>2 DEF Decide
  <2>4. a \in AnswerType
    <3>1. emit[t].obs \in Observer /\ emit[t].cur \in Nat /\ allow[emit[t].obs] \in BOOLEAN
      BY <2>3 DEF GuardInv, GuardType, EmitType
    <3> QED
      BY <2>1, <3>1 DEF Answer, AnswerType
  <2>5. x \in EmitType /\ x.at = "store" /\ x.nested = emit[t].nested
    <3>1. a.ok \in BOOLEAN
      BY <2>4 DEF AnswerType
    <3> QED
      BY ONLY <2>3, <2>4, <3>1 DEF EmitType
  <2>6. y \in EmitType /\ y.at = "act" /\ y.nested = emit[t].nested
    BY ONLY <2>3 DEF EmitType
  <2>7. emit' = [emit EXCEPT ![t] = e]
    BY <1>4, <2>1, <2>2 DEF Decide
  <2>8. e \in EmitType /\ e.at \in {"store", "act"} /\ e.nested = emit[t].nested
    <3> HIDE DEF x, y
    <3> QED
      BY <2>5, <2>6
  <2>9. UNCHANGED <<interest, cached_gen, by, can_enter, panicked, gen, allow, reload>>
    BY <1>4 DEF Decide, cacheVars, obsVars
  <2> HIDE DEF e
  <2> QED
    BY <1>0, <2>3, <2>7, <2>8, <2>9, GuardWithin
<1>5. ASSUME NEW t \in Thread, NEW what \in {"interest", "gen"}, Store(t, what) PROVE GuardInv'
  <2> DEFINE at == IF emit[t].left = {what} THEN "act" ELSE "store"
             left == emit[t].left \ {what}
             e == [emit[t] EXCEPT !.left = left, !.at = at]
  <2>1. emit[t] \in EmitType /\ emit[t].at = "store"
    BY <1>5 DEF Store, GuardInv, GuardType
  <2>2. left \in SUBSET {"interest", "gen"} /\ at \in {"store", "act"}
    BY <2>1 DEF EmitType
  <2>3. e \in EmitType /\ e.at \in {"store", "act"} /\ e.nested = emit[t].nested
    <3> HIDE DEF at, left
    <3> QED
      BY <2>1, <2>2 DEF EmitType
  <2>4. emit' = [emit EXCEPT ![t] = e]
    BY <1>5 DEF Store
  <2>5. /\ interest' \in {"Unknown", "Always", "Never"} /\ cached_gen' \in Nat
        /\ by' \in [interest : AnswerType, gen : AnswerType]
    <3>1. emit[t].cur \in Nat /\ emit[t].gen \in AnswerType /\ emit[t].interest \in AnswerType
      BY <2>1 DEF EmitType
    <3>2. CASE what = "interest"
      <4>1. /\ interest' \in {"Always", "Never"} /\ cached_gen' = cached_gen
            /\ by' = [by EXCEPT !.interest = emit[t].interest]
        BY <1>5, <3>2 DEF Store
      <4> QED
        BY <1>0, <3>1, <4>1
    <3>3. CASE what # "interest"
      <4>1. interest' = interest /\ cached_gen' = emit[t].cur /\ by' = [by EXCEPT !.gen = emit[t].gen]
        BY <1>5, <3>3 DEF Store, CachedGen
      <4> QED
        BY <1>0, <3>1, <4>1
    <3> QED
      BY <3>2, <3>3
  <2>6. UNCHANGED <<can_enter, panicked, gen, allow, reload>>
    BY <1>5 DEF Store, obsVars
  <2> HIDE DEF e
  <2> QED
    BY <2>1, <2>3, <2>4, <2>5, <2>6, GuardWithin
<1>6. ASSUME NEW t \in Thread, Act(t) PROVE GuardInv'
  <2>1. PICK e : /\ e \in EmitType /\ emit' = [emit EXCEPT ![t] = e] /\ ~e.nested
                 /\ \/ e.at = "inside" /\ can_enter' = [can_enter EXCEPT ![t] = FALSE]
                    \/ e.at = (IF emit[t].nested THEN "inside" ELSE "idle") /\ can_enter' = can_enter
    <3>1. CASE emit[t].ok /\ can_enter[t]
      <4>1. emit' = [emit EXCEPT ![t] = Resting("inside")] /\ can_enter' = [can_enter EXCEPT ![t] = FALSE]
        BY <1>6, <3>1 DEF Act
      <4> QED
        BY <4>1, AtRestTyped
    <3>2. CASE ~(emit[t].ok /\ can_enter[t])
      <4>1. PICK at : at = IF emit[t].nested THEN "inside" ELSE "idle"
        OBVIOUS
      <4>2. emit' = [emit EXCEPT ![t] = Resting(at)] /\ can_enter' = can_enter
        BY <1>6, <3>2, <4>1 DEF Act
      <4>3. at \in {"idle", "load", "store", "act", "inside"}
        BY <4>1
      <4>4. Resting(at) \in EmitType /\ Resting(at).at = at /\ ~Resting(at).nested
        BY <4>3, AtRestTyped
      <4> QED
        BY <4>1, <4>2, <4>4
    <3> QED
      BY <3>1, <3>2
  <2>2. emit[t].at = "act" /\ UNCHANGED <<interest, cached_gen, by, gen, allow, reload, panicked>>
    BY <1>6 DEF Act, cacheVars, obsVars
  <2>3. ~panicked[t] => (can_enter[t] <=> ~emit[t].nested)
    BY <2>2 DEF GuardInv, GuardIsBalanced
  <2>4. /\ can_enter' \in [Thread -> BOOLEAN] /\ \A u \in Thread : u # t => can_enter'[u] = can_enter[u]
        /\ e.at = "inside" /\ can_enter' # can_enter => ~can_enter'[t]
        /\ can_enter' = [can_enter EXCEPT ![t] = FALSE] => ~can_enter'[t]
    BY <2>1 DEF GuardInv, GuardType
  <2>5. ~panicked'[t] => (can_enter'[t] <=> ~(e.at = "inside" \/ e.nested))
    BY <2>1, <2>2, <2>3, <2>4
  <2> QED
    BY <2>1, <2>2, <2>4, <2>5, GuardAround DEF GuardInv, GuardType
<1>7. ASSUME NEW t \in Thread, Return(t) PROVE GuardInv'
  <2>1. PICK e : e = Resting("idle")
    OBVIOUS
  <2>2. e \in EmitType /\ e.at = "idle" /\ ~e.nested
    BY <2>1, AtRestTyped
  <2>3. /\ emit' = [emit EXCEPT ![t] = e] /\ can_enter' = [can_enter EXCEPT ![t] = TRUE]
        /\ UNCHANGED <<interest, cached_gen, by, gen, allow, reload, panicked>>
    BY <1>7, <2>1 DEF Return, cacheVars, obsVars
  <2>4. can_enter' \in [Thread -> BOOLEAN] /\ can_enter'[t] /\ \A u \in Thread : u # t => can_enter'[u] = can_enter[u]
    BY <2>3 DEF GuardInv, GuardType
  <2> QED
    BY <2>2, <2>3, <2>4, GuardAround DEF GuardInv, GuardType
<1>8. ASSUME NEW t \in Thread, Panic(t) PROVE GuardInv'
  <2>1. PICK e : e = Resting("idle")
    OBVIOUS
  <2>2. e \in EmitType /\ e.at = "idle" /\ ~e.nested
    BY <2>1, AtRestTyped
  <2>3. /\ emit' = [emit EXCEPT ![t] = e] /\ panicked' = [panicked EXCEPT ![t] = TRUE]
        /\ UNCHANGED <<interest, cached_gen, by, gen, allow, reload, can_enter>>
    BY <1>8, <2>1 DEF Panic, cacheVars, obsVars
  <2>4. panicked' \in [Thread -> BOOLEAN] /\ panicked'[t] /\ \A u \in Thread : u # t => panicked'[u] = panicked[u]
    BY <2>3 DEF GuardInv, GuardType
  <2> QED
    BY <2>2, <2>3, <2>4, GuardAround DEF GuardInv, GuardType
<1>9. ASSUME NEW r \in Reloader, NEW o \in Std, NEW ok \in BOOLEAN, StoreFilter(r, o, ok)
      PROVE GuardInv'
  BY <1>9 DEF StoreFilter, cacheVars, GuardInv, GuardType, RestsUnnested, GuardIsBalanced, Observer
<1>10. ASSUME NEW r \in Reloader, BumpGeneration(r) PROVE GuardInv'
  BY <1>10 DEF BumpGeneration, Bumps, NoReload, cacheVars, GuardInv, GuardType, RestsUnnested,
     GuardIsBalanced, Observer
<1>11. ASSUME NEW o \in Std, ReloadFilter(o) PROVE GuardInv'
  BY <1>11 DEF ReloadFilter, Bumps, cacheVars, GuardInv, GuardType, RestsUnnested,
     GuardIsBalanced, Observer
<1>12. CASE UNCHANGED vars
  BY <1>12 DEF vars, GuardInv, GuardType, RestsUnnested, GuardIsBalanced
<1> QED
  BY <1>1, <1>2, <1>3, <1>4, <1>5, <1>6, <1>7, <1>8, <1>9, <1>10, <1>11, <1>12 DEF Next, EmitStep

(* CAN_ENTER of enter_emit_envelope: whatever a thread emits, and however  *)
(* emits nest, the guard is taken exactly while the thread is inside       *)
(* emit_envelope, unless a panic unwound through it.                       *)
THEOREM GuardIsBalancedHolds == Spec => []GuardIsBalanced
<1>1. GuardInv => GuardIsBalanced
  BY DEF GuardInv
<1> QED
  BY GuardInit, GuardNext, <1>1, PTL DEF Spec

-------------------------------------------------------------------------------
(* The cache, with one emitting thread and one StandardObserver.           *)

Active(t) == emit[t].at \in {"load", "store", "act"}
Says(ok) == IF ok THEN "Always" ELSE "Never"

CacheType == GuardType /\ valid \in [Thread -> SUBSET BOOLEAN]

(* The NoopObserver never reloads, and allows nothing. *)
Noops ==
    /\ gen[Noop] = 0 /\ allow[Noop] = FALSE
    /\ \A r \in Reloader : reload[r].at = "bump" => reload[r].obs \in Std

(* An emit's generation is one its observer had, and its ghost has every   *)
(* answer in force.                                                        *)
Emitting ==
    \A t \in Thread : Active(t) => emit[t].cur <= gen[emit[t].obs] /\ InForce(emit[t].obs) \subseteq valid[t]

(* An answer, stored or about to be: under the current generation it is in *)
(* force, and under that of an emit it was in force since the emit began.  *)
Good(a) ==
    /\ a.cur <= gen[a.obs]
    /\ a.cur = gen[a.obs] => a.ok \in InForce(a.obs)
    /\ \A t \in Thread : Active(t) /\ a.obs = emit[t].obs /\ a.cur = emit[t].cur => a.ok \in valid[t]

Answers ==
    /\ Good(by.interest) /\ Good(by.gen)
    /\ \A t \in Thread : Good(emit[t].interest) /\ Good(emit[t].gen)

(* The two atomics, and what an emit has read of them. *)
Cached == interest \in {"Unknown", Says(by.interest.ok)} /\ cached_gen = by.gen.cur

Loading ==
    \A t \in Thread : emit[t].at = "load" =>
      /\ emit[t].cg \in {Unread, emit[t].gen.cur}
      /\ emit[t].ci \in {"unread", "Unknown", Says(emit[t].interest.ok)}

Storing ==
    \A t \in Thread : emit[t].at = "store" =>
      /\ emit[t].gen = Answer(emit[t].obs, emit[t].cur, emit[t].ok)
      /\ emit[t].interest = emit[t].gen

CacheInv ==
    CacheType /\ Noops /\ Emitting /\ Answers /\ Cached /\ Loading /\ Storing /\ DecisionIsCurrent

(* InForce, spelled out. *)
LEMMA InForceIs ==
    ASSUME NEW o, NEW x
    PROVE  x \in InForce(o) <=>
             \/ x = allow[o]
             \/ \E r \in Reloader : reload[r].at = "bump" /\ reload[r].obs = o /\ x = reload[r].old
  BY DEF InForce

(* Replacing the filter adds its answer to the ones in force. *)
LEMMA InForceGrows ==
    ASSUME GuardType, NEW r \in Reloader, NEW s \in Std, NEW ok \in BOOLEAN, StoreFilter(r, s, ok)
    PROVE  /\ InForce(s)' = InForce(s) \union {ok}
           /\ \A o \in Observer \ {s} : InForce(o)' = InForce(o)
<1>1. /\ reload' = [reload EXCEPT ![r] = [at |-> "bump", obs |-> s, old |-> allow[s]]]
      /\ allow' = [allow EXCEPT ![s] = ok] /\ reload[r].at = "idle" /\ s \in Observer
  BY DEF StoreFilter, Observer
<1>2. reload'[r].at = "bump" /\ reload'[r].obs = s /\ reload'[r].old = allow[s]
  BY <1>1 DEF GuardType
<1>3. \A q \in Reloader : q # r => reload'[q] = reload[q]
  BY <1>1 DEF GuardType
<1>4. allow'[s] = ok /\ \A o \in Observer : o # s => allow'[o] = allow[o]
  BY <1>1 DEF GuardType
<1>5. ASSUME NEW x PROVE x \in InForce(s)' <=> x \in InForce(s) \union {ok}
  BY <1>1, <1>2, <1>3, <1>4 DEF InForce
<1>6. ASSUME NEW o \in Observer \ {s}, NEW x PROVE x \in InForce(o)' <=> x \in InForce(o)
  BY <1>1, <1>2, <1>3, <1>4 DEF InForce
<1>7. InForce(s)' = InForce(s) \union {ok}
  BY <1>5
<1>8. ASSUME NEW o \in Observer \ {s} PROVE InForce(o)' = InForce(o)
  BY <1>6
<1> QED
  BY <1>7, <1>8

(* Steps of an emit leave the answers in force alone. *)
LEMMA InForceStays ==
    ASSUME UNCHANGED <<allow, reload>>, NEW o PROVE InForce(o)' = InForce(o)
  BY DEF InForce

(* A finished reload takes answers out of force and adds none. *)
LEMMA InForceShrinks ==
    ASSUME GuardType, NEW r \in Reloader, BumpGeneration(r), NEW o PROVE InForce(o)' \subseteq InForce(o)
<1>1. reload' = [reload EXCEPT ![r] = NoReload] /\ allow' = allow
  BY DEF BumpGeneration
<1>2. reload'[r].at = "idle" /\ \A q \in Reloader : q # r => reload'[q] = reload[q]
  BY <1>1 DEF GuardType, NoReload
<1> QED
  BY <1>1, <1>2 DEF InForce

(* What the filter answers now is good for everyone. *)
LEMMA NowGood ==
    ASSUME GuardType, Noops, Emitting, NEW o \in Observer, NEW c \in Nat, c <= gen[o]
    PROVE  Good(Answer(o, c, allow[o]))
<1>1. allow[o] \in InForce(o)
  BY InForceIs
<1>2. PICK a : a = Answer(o, c, allow[o])
  OBVIOUS
<1>3. a.obs = o /\ a.cur = c /\ a.ok = allow[o]
  BY <1>2 DEF Answer
<1>4. \A t \in Thread : Active(t) /\ a.obs = emit[t].obs => a.ok \in valid[t]
  BY <1>1, <1>3 DEF Emitting
<1> QED
  BY <1>1, <1>2, <1>3, <1>4 DEF Good

LEMMA NoneGood == GuardType /\ Noops /\ Emitting => Good(NoAnswer)
<1> SUFFICES ASSUME GuardType, Noops, Emitting PROVE Good(NoAnswer)
  OBVIOUS
<1>1. Noop \in Observer /\ 0 <= gen[Noop] /\ allow[Noop] = FALSE
  BY DEF Noops, Observer
<1>2. Good(Answer(Noop, 0, allow[Noop]))
  BY <1>1, NowGood
<1> QED
  BY <1>1, <1>2 DEF NoAnswer

(* The invariant of the cache holds when the process starts. *)
LEMMA CacheInit == Init => CacheInv
<1> SUFFICES ASSUME Init PROVE CacheInv
  OBVIOUS
<1>1. GuardType
  BY GuardInit DEF GuardInv
<1>2. CacheType
  BY <1>1 DEF Init, CacheType
<1>3. \A t \in Thread : emit[t].at = "idle" /\ emit[t].gen = NoAnswer /\ emit[t].interest = NoAnswer
  BY DEF Init, Resting
<1>4. Noops
  BY CallsiteAssumption DEF Init, Noops, NoReload, Observer
<1>5. Emitting /\ Loading /\ Storing /\ DecisionIsCurrent
  BY <1>3 DEF Emitting, Active, Loading, Storing, DecisionIsCurrent
<1>6. by.gen = NoAnswer /\ by.interest = NoAnswer /\ interest = "Unknown" /\ cached_gen = 0
  BY DEF Init
<1>7. Answers
  BY <1>1, <1>3, <1>4, <1>5, <1>6, NoneGood DEF Answers
<1>8. Cached
  BY <1>6 DEF Cached, NoAnswer, Answer
<1> QED
  BY <1>2, <1>4, <1>5, <1>7, <1>8 DEF CacheInv

(* No reload moves, and no emit gets another ghost, observer or generation. *)
LEMMA GoodStays ==
    ASSUME UNCHANGED <<gen, allow, reload>>, NEW a, Good(a),
           \A u \in Thread : Active(u)' =>
             /\ Active(u) /\ emit'[u].obs = emit[u].obs /\ emit'[u].cur = emit[u].cur
             /\ valid'[u] = valid[u]
    PROVE  Good(a)'
<1>1. \A o : InForce(o)' = InForce(o)
  BY InForceStays
<1>2. a.cur <= gen'[a.obs] /\ (a.cur = gen'[a.obs] => a.ok \in InForce(a.obs)')
  BY <1>1 DEF Good
<1>3. \A u \in Thread : Active(u)' /\ a.obs = emit'[u].obs /\ a.cur = emit'[u].cur => a.ok \in valid'[u]
  BY DEF Good
<1> QED
  BY <1>2, <1>3 DEF Good

(* A step inside an emit: e is what it leaves, b who stored the two atomics. *)
LEMMA CacheWithin ==
    ASSUME GuardInv, GuardInv', CacheInv, NEW t \in Thread, NEW e \in EmitType,
           emit' = [emit EXCEPT ![t] = e], Active(t), e.at \in {"load", "store", "act"},
           e.obs = emit[t].obs, e.cur = emit[t].cur, Good(e.gen), Good(e.interest),
           NEW b, by' = b, Good(b.gen), Good(b.interest),
           UNCHANGED <<gen, allow, reload, valid>>,
           interest' \in {"Unknown", Says(b.interest.ok)}, cached_gen' = b.gen.cur,
           e.at = "load" => e.cg \in {Unread, e.gen.cur} /\ e.ci \in {"unread", "Unknown", Says(e.interest.ok)},
           e.at = "store" => e.gen = Answer(e.obs, e.cur, e.ok) /\ e.interest = e.gen,
           e.at = "act" /\ Whole(e, e.obs) => e.ok \in valid[t]
    PROVE  CacheInv'
<1>1. emit'[t] = e /\ \A u \in Thread : u # t => emit'[u] = emit[u]
  BY DEF GuardInv, GuardType
<1>2. \A u \in Thread : Active(u)' =>
         Active(u) /\ emit'[u].obs = emit[u].obs /\ emit'[u].cur = emit[u].cur /\ valid'[u] = valid[u]
  BY <1>1 DEF Active
<1>3. \A o : InForce(o)' = InForce(o)
  BY InForceStays
<1>4. CacheType' /\ Noops'
  BY DEF GuardInv, CacheInv, CacheType, Noops
<1>5. Emitting'
  BY <1>2, <1>3 DEF CacheInv, Emitting
<1>6. Answers'
  <2>1. ASSUME NEW a, Good(a) PROVE Good(a)'
    BY <1>2, <2>1, GoodStays
  <2>2. ASSUME NEW u \in Thread PROVE Good(emit[u].interest)' /\ Good(emit[u].gen)'
    <3>1. PICK f : f = emit'[u]
      OBVIOUS
    <3>2. Good(f.interest) /\ Good(f.gen)
      BY <1>1, <3>1 DEF CacheInv, Answers
    <3>3. Good(f.interest)' /\ Good(f.gen)'
      BY <2>1, <3>2
    <3> QED
      BY <3>1, <3>3
  <2>3. Good(b.gen)' /\ Good(b.interest)'
    BY <2>1
  <2> QED
    BY <2>2, <2>3 DEF Answers
<1>7. Cached'
  BY DEF Cached, Says
<1>8. Loading'
  BY <1>1 DEF CacheInv, Loading, Says
<1>9. Storing'
  BY <1>1 DEF CacheInv, Storing, Answer
<1>10. DecisionIsCurrent'
  BY <1>1 DEF CacheInv, DecisionIsCurrent, Whole
<1> QED
  BY <1>4, <1>5, <1>6, <1>7, <1>8, <1>9, <1>10 DEF CacheInv

(* A step that starts or ends an emit. *)
LEMMA CacheAround ==
    ASSUME GuardInv, GuardInv', CacheInv, NEW t \in Thread, NEW e \in EmitType,
           emit' = [emit EXCEPT ![t] = e], e.at \in {"idle", "inside", "load"},
           e.gen = NoAnswer, e.interest = NoAnswer, e.cg = Unread, e.ci = "unread",
           valid' \in [Thread -> SUBSET BOOLEAN], \A u \in Thread : u # t => valid'[u] = valid[u],
           e.at = "load" => e.cur = gen[e.obs] /\ valid'[t] = InForce(e.obs),
           UNCHANGED <<interest, cached_gen, by, gen, allow, reload>>
    PROVE  CacheInv'
<1>1. emit'[t] = e /\ \A u \in Thread : u # t => emit'[u] = emit[u]
  BY DEF GuardInv, GuardType
<1>2. \A o : InForce(o)' = InForce(o)
  BY InForceStays
<1>3. CacheType' /\ Noops' /\ GuardType
  BY DEF GuardInv, CacheInv, CacheType, Noops
<1>4. gen[e.obs] \in Nat
  BY <1>3 DEF GuardType, EmitType
<1>5. Emitting'
  BY <1>1, <1>2, <1>4 DEF CacheInv, Emitting, Active
<1>6. ASSUME NEW a, Good(a) PROVE Good(a)'
  <2>1. a.cur <= gen'[a.obs] /\ (a.cur = gen'[a.obs] => a.ok \in InForce(a.obs)')
    BY <1>2, <1>6 DEF Good
  <2>2. ASSUME NEW u \in Thread, Active(u)', a.obs = emit'[u].obs, a.cur = emit'[u].cur PROVE a.ok \in valid'[u]
    <3>1. CASE u # t
      BY <1>1, <1>6, <2>2, <3>1 DEF Good, Active
    <3>2. CASE u = t
      <4>1. e.at = "load" /\ a.obs = e.obs /\ a.cur = gen[e.obs]
        BY <1>1, <2>2, <3>2 DEF Active
      <4> QED
        BY <1>6, <3>2, <4>1 DEF Good
    <3> QED
      BY <3>1, <3>2
  <2> QED
    BY <2>1, <2>2 DEF Good
<1>7. Answers'
  <2>1. Good(NoAnswer)
    BY <1>3, NoneGood DEF CacheInv
  <2>2. ASSUME NEW u \in Thread PROVE Good(emit[u].interest)' /\ Good(emit[u].gen)'
    <3>1. PICK f : f = emit'[u]
      OBVIOUS
    <3>2. Good(f.interest) /\ Good(f.gen)
      BY <1>1, <2>1, <3>1 DEF CacheInv, Answers
    <3>3. Good(f.interest)' /\ Good(f.gen)'
      BY <1>6, <3>2
    <3> QED
      BY <3>1, <3>3
  <2>3. PICK b : b = by
    OBVIOUS
  <2>4. Good(b.gen)' /\ Good(b.interest)'
    BY <1>6, <2>3 DEF CacheInv, Answers
  <2> QED
    BY <2>2, <2>3, <2>4 DEF Answers
<1>8. Cached'
  BY DEF CacheInv, Cached, Says
<1>9. Loading'
  BY <1>1 DEF CacheInv, Loading, Says
<1>10. Storing'
  BY <1>1 DEF CacheInv, Storing, Answer
<1>11. DecisionIsCurrent'
  BY <1>1 DEF CacheInv, DecisionIsCurrent, Whole
<1> QED
  BY <1>3, <1>5, <1>7, <1>8, <1>9, <1>10, <1>11 DEF CacheInv

(* The steps of the emitting threads preserve it. *)
LEMMA CacheEmit ==
    ASSUME GuardInv, GuardInv', CacheInv, NEW t \in Thread, EmitStep(t)
    PROVE  CacheInv'
<1> USE CallsiteAssumption
<1>1. PICK d, b : d = emit[t] /\ b = by
  OBVIOUS
<1>2. d \in EmitType /\ GuardType
  BY <1>1 DEF GuardInv, GuardType
<1>3. /\ Good(d.gen) /\ Good(d.interest) /\ Good(b.gen) /\ Good(b.interest)
      /\ interest \in {"Unknown", Says(b.interest.ok)} /\ cached_gen = b.gen.cur
  BY <1>1 DEF CacheInv, Answers, Cached
<1>4. valid \in [Thread -> SUBSET BOOLEAN]
  BY DEF CacheInv, CacheType
<1>5. ASSUME NEW o \in Observer, Begin(t, o) PROVE CacheInv'
  <2>1. PICK x, n : x = Resting("load") /\ n = (d.at = "inside")
    OBVIOUS
  <2>2. x \in EmitType /\ x.at = "load" /\ n \in BOOLEAN /\ gen[o] \in Nat
    BY <1>2, <2>1, AtRestTyped DEF GuardType
  <2>3. x.gen = NoAnswer /\ x.interest = NoAnswer /\ x.cg = Unread /\ x.ci = "unread"
    BY <2>1 DEF Resting
  <2>4. PICK e : e = [x EXCEPT !.obs = o, !.cur = gen[o], !.nested = n]
    OBVIOUS
  <2>5. /\ e \in EmitType /\ e.at = "load" /\ e.obs = o /\ e.cur = gen[o]
        /\ e.gen = x.gen /\ e.interest = x.interest /\ e.cg = x.cg /\ e.ci = x.ci
    BY <2>2, <2>4 DEF EmitType
  <2>6. /\ emit' = [emit EXCEPT ![t] = e] /\ valid' = [valid EXCEPT ![t] = InForce(o)]
        /\ UNCHANGED <<interest, cached_gen, by, gen, allow, reload>>
    BY <1>1, <1>5, <2>1, <2>4 DEF Begin, cacheVars, obsVars
  <2>7. InForce(o) \subseteq BOOLEAN
    BY <1>2, InForceIs DEF GuardType
  <2>8. /\ valid' \in [Thread -> SUBSET BOOLEAN] /\ valid'[t] = InForce(o)
        /\ \A u \in Thread : u # t => valid'[u] = valid[u]
    BY <1>4, <2>6, <2>7
  <2> QED
    BY <2>3, <2>5, <2>6, <2>8, CacheAround
<1>6. CASE LoadGen(t)
  <2>1. PICK e : e = [d EXCEPT !.cg = cached_gen, !.gen = b.gen]
    OBVIOUS
  <2>2. /\ d.at = "load" /\ emit' = [emit EXCEPT ![t] = e] /\ by' = b
        /\ UNCHANGED <<interest, cached_gen, gen, allow, reload, valid>>
    BY <1>1, <1>6, <2>1 DEF LoadGen, cacheVars, obsVars, GuardInv, GuardType
  <2>3. cached_gen \in Nat /\ b.gen \in AnswerType
    BY <1>1, <1>2 DEF GuardType
  <2>4. /\ e \in EmitType /\ e.at = "load" /\ e.obs = d.obs /\ e.cur = d.cur /\ e.gen = b.gen
        /\ e.interest = d.interest /\ e.cg = cached_gen /\ e.ci = d.ci
    BY ONLY <1>2, <2>1, <2>2, <2>3 DEF EmitType
  <2>5. d.ci \in {"unread", "Unknown", Says(d.interest.ok)}
    BY <1>1, <2>2 DEF CacheInv, Loading
  <2>6. Active(t) /\ emit[t] = d
    BY <1>1, <2>2 DEF Active
  <2> QED
    BY <1>3, <2>2, <2>4, <2>5, <2>6, CacheWithin
<1>7. CASE LoadInterest(t)
  <2>1. PICK e : e = [d EXCEPT !.ci = interest, !.interest = b.interest]
    OBVIOUS
  <2>2. /\ d.at = "load" /\ emit' = [emit EXCEPT ![t] = e] /\ by' = b
        /\ UNCHANGED <<interest, cached_gen, gen, allow, reload, valid>>
    BY <1>1, <1>7, <2>1 DEF LoadInterest, cacheVars, obsVars, GuardInv, GuardType
  <2>3. interest \in {"Unknown", "Always", "Never"} /\ b.interest \in AnswerType
    BY <1>1, <1>2 DEF GuardType
  <2>4. /\ e \in EmitType /\ e.at = "load" /\ e.obs = d.obs /\ e.cur = d.cur /\ e.gen = d.gen
        /\ e.interest = b.interest /\ e.cg = d.cg /\ e.ci = interest
    BY ONLY <1>2, <2>1, <2>2, <2>3 DEF EmitType
  <2>5. d.cg \in {Unread, d.gen.cur}
    BY <1>1, <2>2 DEF CacheInv, Loading
  <2>6. Active(t) /\ emit[t] = d
    BY <1>1, <2>2 DEF Active
  <2>7. e.ci \in {"unread", "Unknown", Says(e.interest.ok)}
    BY <1>3, <2>4
  <2> QED
    BY <1>3, <2>2, <2>4, <2>5, <2>6, <2>7, CacheWithin
<1>8. CASE Decide(t)
  <2>1. PICK a : a = Answer(d.obs, d.cur, allow[d.obs])
    OBVIOUS
  <2>2. /\ d.at = "load" /\ d.cg # Unread /\ d.ci # "unread" /\ by' = b
        /\ UNCHANGED <<interest, cached_gen, gen, allow, reload, valid>>
    BY <1>1, <1>8 DEF Decide, cacheVars, obsVars
  <2>3. Active(t) /\ emit[t] = d
    BY <1>1, <2>2 DEF Active
  <2>4. d.cg \in {Unread, d.gen.cur} /\ d.ci \in {"unread", "Unknown", Says(d.interest.ok)}
    BY <1>1, <2>2 DEF CacheInv, Loading
  <2>5. d.obs \in Observer /\ d.cur \in Nat /\ allow[d.obs] \in BOOLEAN
    BY <1>2 DEF GuardType, EmitType
  <2>6. CASE Stale(d)
    <3>1. PICK e : e = [d EXCEPT !.at = "store", !.left = {"interest", "gen"}, !.cg = Unread, !.ci = "unread",
                                 !.ok = a.ok, !.gen = a, !.interest = a]
      OBVIOUS
    <3>2. emit' = [emit EXCEPT ![t] = e]
      BY <1>1, <1>8, <2>1, <2>6, <3>1 DEF Decide
    <3>3. a \in AnswerType /\ a.ok \in BOOLEAN /\ a.ok = allow[d.obs]
      BY <2>1, <2>5 DEF Answer, AnswerType
    <3>4. /\ e \in EmitType /\ e.at = "store" /\ e.obs = d.obs /\ e.cur = d.cur /\ e.gen = a
          /\ e.interest = a /\ e.ok = a.ok
      BY ONLY <1>2, <3>1, <3>3 DEF EmitType
    <3>5. d.cur <= gen[d.obs]
      BY <2>3 DEF CacheInv, Emitting
    <3>6. Good(a)
      BY <1>2, <2>1, <2>5, <3>5, NowGood DEF CacheInv
    <3>7. e.gen = Answer(e.obs, e.cur, e.ok)
      BY <2>1, <3>3, <3>4
    <3> QED
      BY <1>3, <2>2, <2>3, <3>2, <3>4, <3>6, <3>7, CacheWithin
  <2>7. CASE ~Stale(d)
    <3>1. PICK p : p = (d.ci = "Always")
      OBVIOUS
    <3>2. PICK e : e = [d EXCEPT !.at = "act", !.cg = Unread, !.ci = "unread", !.ok = p]
      OBVIOUS
    <3>3. emit' = [emit EXCEPT ![t] = e] /\ p \in BOOLEAN
      BY <1>1, <1>8, <2>7, <3>1, <3>2 DEF Decide
    <3>4. /\ e \in EmitType /\ e.at = "act" /\ e.obs = d.obs /\ e.cur = d.cur /\ e.gen = d.gen
          /\ e.interest = d.interest /\ e.ok = p
      BY ONLY <1>2, <3>2, <3>3 DEF EmitType
    <3>5. ASSUME Whole(e, e.obs) PROVE e.ok \in valid[t]
      <4>1. d.interest = d.gen /\ d.gen.obs = d.obs
        BY <3>4, <3>5 DEF Whole
      <4>2. d.gen.cur = d.cur /\ d.ci = Says(d.interest.ok)
        BY <2>2, <2>4, <2>7 DEF Stale
      <4>3. d.gen.ok \in valid[t]
        BY <1>3, <2>3, <4>1, <4>2 DEF Good
      <4>4. d.interest.ok \in BOOLEAN
        BY <1>2 DEF EmitType, AnswerType
      <4>5. p = d.interest.ok
        BY <3>1, <4>2, <4>4 DEF Says
      <4> QED
        BY <3>4, <4>1, <4>3, <4>5
    <3> QED
      BY <1>3, <2>2, <2>3, <3>3, <3>4, <3>5, CacheWithin
  <2> QED
    BY <2>6, <2>7
<1>9. ASSUME NEW what \in {"interest", "gen"}, Store(t, what) PROVE CacheInv'
  <2>1. PICK at, left : at = (IF d.left = {what} THEN "act" ELSE "store") /\ left = d.left \ {what}
    OBVIOUS
  <2>2. PICK e : e = [d EXCEPT !.left = left, !.at = at]
    OBVIOUS
  <2>3. /\ d.at = "store" /\ emit' = [emit EXCEPT ![t] = e]
        /\ UNCHANGED <<gen, allow, reload, valid>>
    BY <1>1, <1>9, <2>1, <2>2 DEF Store, obsVars
  <2>4. at \in {"act", "store"} /\ left \in SUBSET {"interest", "gen"}
    BY <1>2, <2>1 DEF EmitType
  <2>5. /\ e \in EmitType /\ e.at = at /\ e.obs = d.obs /\ e.cur = d.cur /\ e.gen = d.gen
        /\ e.interest = d.interest /\ e.ok = d.ok
    BY ONLY <1>2, <2>2, <2>4 DEF EmitType
  <2>6. Active(t) /\ emit[t] = d
    BY <1>1, <2>3 DEF Active
  <2>7. d.gen = Answer(d.obs, d.cur, d.ok) /\ d.interest = d.gen
    BY <1>1, <2>3 DEF CacheInv, Storing
  <2>8. d.gen.obs = d.obs /\ d.gen.cur = d.cur /\ d.gen.ok = d.ok
    BY <2>7 DEF Answer
  <2>9. d.ok \in valid[t]
    BY <1>3, <2>6, <2>8 DEF Good
  <2>10. e.gen = Answer(e.obs, e.cur, e.ok) /\ e.interest = e.gen /\ e.ok \in valid[t] /\ e.at \in {"load", "store", "act"} /\ e.at # "load"
    BY <2>4, <2>5, <2>7, <2>9
  <2>11. b \in [interest : AnswerType, gen : AnswerType]
    BY <1>1, <1>2 DEF GuardType
  <2>12. PICK c : /\ by' = c /\ Good(c.gen) /\ Good(c.interest)
                  /\ interest' \in {"Unknown", Says(c.interest.ok)} /\ cached_gen' = c.gen.cur
    <3>1. CASE what = "interest"
      <4>1. PICK c : c = [b EXCEPT !.interest = d.interest]
        OBVIOUS
      <4>2. by' = c /\ interest' = Says(d.ok) /\ cached_gen' = cached_gen
        BY <1>1, <1>9, <3>1, <4>1 DEF Store, Says
      <4>3. c.interest = d.interest /\ c.gen = b.gen
        BY ONLY <2>11, <4>1
      <4>4. Good(c.gen) /\ Good(c.interest) /\ interest' \in {"Unknown", Says(c.interest.ok)}
        BY <1>3, <2>7, <2>8, <4>2, <4>3
      <4>5. cached_gen' = c.gen.cur
        BY <1>3, <4>2, <4>3
      <4> QED
        BY <4>2, <4>4, <4>5
    <3>2. CASE what # "interest"
      <4>1. PICK c : c = [b EXCEPT !.gen = d.gen]
        OBVIOUS
      <4>2. by' = c /\ interest' = interest /\ cached_gen' = d.cur
        BY <1>1, <1>9, <3>2, <4>1 DEF Store, CachedGen
      <4>3. c.interest = b.interest /\ c.gen = d.gen
        BY ONLY <2>11, <4>1
      <4>4. Good(c.gen) /\ Good(c.interest) /\ interest' \in {"Unknown", Says(c.interest.ok)}
        BY <1>3, <4>2, <4>3
      <4>5. cached_gen' = c.gen.cur
        BY <2>8, <4>2, <4>3
      <4> QED
        BY <4>2, <4>4, <4>5
    <3> QED
      BY <3>1, <3>2
  <2> QED
    BY <1>3, <2>3, <2>5, <2>6, <2>10, <2>12, CacheWithin
<1>10. CASE Act(t) \/ Return(t) \/ Panic(t)
  <2>1. PICK at : /\ at \in {"idle", "inside"} /\ emit' = [emit EXCEPT ![t] = Resting(at)]
                  /\ valid' \in [Thread -> SUBSET BOOLEAN] /\ \A u \in Thread : u # t => valid'[u] = valid[u]
    <3>1. CASE Act(t)
      <4>1. valid' = [valid EXCEPT ![t] = {}]
        BY <3>1 DEF Act
      <4>2. valid' \in [Thread -> SUBSET BOOLEAN] /\ \A u \in Thread : u # t => valid'[u] = valid[u]
        BY <1>4, <4>1
      <4>3. \E at \in {"idle", "inside"} : emit' = [emit EXCEPT ![t] = Resting(at)]
        BY <3>1 DEF Act
      <4> QED
        BY <4>2, <4>3
    <3>2. CASE Return(t) \/ Panic(t)
      BY <1>4, <3>2 DEF Return, Panic
    <3> QED
      BY <1>10, <3>1, <3>2
  <2>2. PICK e : e = Resting(at)
    OBVIOUS
  <2>3. e \in EmitType /\ e.at = at
    BY <2>1, <2>2, AtRestTyped
  <2>4. e.gen = NoAnswer /\ e.interest = NoAnswer /\ e.cg = Unread /\ e.ci = "unread"
    BY <2>2 DEF Resting
  <2>5. UNCHANGED <<interest, cached_gen, by, gen, allow, reload>>
    BY <1>10 DEF Act, Return, Panic, cacheVars, obsVars
  <2>6. e.at \in {"idle", "inside"}
    BY <2>1, <2>3
  <2> QED
    BY <2>1, <2>2, <2>3, <2>4, <2>5, <2>6, CacheAround
<1> QED
  BY <1>5, <1>6, <1>7, <1>8, <1>9, <1>10 DEF EmitStep

(* A reload of s: what was good stays good. *)
LEMMA CacheReload ==
    ASSUME GuardInv, GuardInv', CacheInv, NEW s \in Std,
           \A o \in Observer : o # s => gen'[o] = gen[o] /\ InForce(o)' = InForce(o),
           (gen'[s] = gen[s] /\ InForce(s) \subseteq InForce(s)') \/ gen'[s] = gen[s] + 1,
           \A t \in Thread : Active(t) => valid[t] \subseteq valid'[t] /\ InForce(emit[t].obs)' \subseteq valid'[t],
           valid' \in [Thread -> SUBSET BOOLEAN], Noops',
           UNCHANGED <<interest, cached_gen, by, emit>>
    PROVE  CacheInv'
<1>1. GuardType /\ gen[s] \in Nat
  BY DEF GuardInv, GuardType, Observer
<1>2. \A t \in Thread : emit'[t] = emit[t] /\ emit[t].cur \in Nat /\ emit[t].obs \in Observer /\ (Active(t)' <=> Active(t))
  BY <1>1 DEF GuardType, EmitType, Active
<1>3. CacheType'
  BY DEF GuardInv, CacheType
<1>4. Emitting'
  <2> SUFFICES ASSUME NEW t \in Thread, Active(t) PROVE emit[t].cur <= gen'[emit[t].obs]
    BY <1>2 DEF Emitting
  <2>1. emit[t].cur <= gen[emit[t].obs]
    BY DEF CacheInv, Emitting
  <2> QED
    BY <1>1, <1>2, <2>1
<1>5. ASSUME NEW a \in AnswerType, Good(a) PROVE Good(a)'
  <2>1. a.obs \in Observer /\ a.cur \in Nat
    BY DEF AnswerType
  <2>2. a.cur <= gen[a.obs] /\ (a.cur = gen[a.obs] => a.ok \in InForce(a.obs))
    BY <1>5 DEF Good
  <2>3. a.cur <= gen'[a.obs] /\ (a.cur = gen'[a.obs] => a.ok \in InForce(a.obs)')
    <3>1. CASE a.obs # s
      BY <2>1, <2>2, <3>1
    <3>2. CASE a.obs = s
      BY <1>1, <2>1, <2>2, <3>2
    <3> QED
      BY <3>1, <3>2
  <2>4. \A t \in Thread : Active(t)' /\ a.obs = emit'[t].obs /\ a.cur = emit'[t].cur => a.ok \in valid'[t]
    BY <1>2, <1>5 DEF Good
  <2> QED
    BY <2>3, <2>4 DEF Good
<1>6. Answers'
  <2>1. PICK b, f : b = by /\ f = emit
    OBVIOUS
  <2>2. b.gen \in AnswerType /\ b.interest \in AnswerType /\ Good(b.gen) /\ Good(b.interest)
    BY <1>1, <2>1 DEF GuardType, CacheInv, Answers
  <2>3. \A t \in Thread : /\ f[t].gen \in AnswerType /\ f[t].interest \in AnswerType
                          /\ Good(f[t].gen) /\ Good(f[t].interest)
    BY <1>1, <2>1 DEF GuardType, EmitType, CacheInv, Answers
  <2>4. Good(b.gen)' /\ Good(b.interest)'
    BY <1>5, <2>2
  <2>5. \A t \in Thread : Good(f[t].gen)' /\ Good(f[t].interest)'
    BY <1>5, <2>3
  <2>6. by' = b /\ emit' = f
    BY <2>1
  <2> QED
    BY <2>4, <2>5, <2>6 DEF Answers
<1>7. Cached' /\ Loading' /\ Storing'
  BY DEF CacheInv, Cached, Loading, Storing
<1>8. DecisionIsCurrent'
  BY <1>2 DEF CacheInv, DecisionIsCurrent, Active
<1> QED
  BY <1>3, <1>4, <1>6, <1>7, <1>8 DEF CacheInv

(* Every step preserves the invariant of the cache. *)
LEMMA CacheNext == GuardInv /\ CacheInv /\ [Next]_vars => CacheInv'
<1> SUFFICES ASSUME GuardInv, CacheInv, [Next]_vars PROVE CacheInv'
  OBVIOUS
<1>0. GuardInv'
  BY GuardNext
<1>c. /\ GuardType /\ Noops /\ Emitting /\ valid \in [Thread -> SUBSET BOOLEAN]
  BY DEF GuardInv, CacheInv, CacheType
<1>1. ASSUME NEW t \in Thread, EmitStep(t) PROVE CacheInv'
  BY <1>0, <1>1, CacheEmit
<1>2. ASSUME NEW r \in Reloader, NEW s \in Std, NEW ok \in BOOLEAN, StoreFilter(r, s, ok) PROVE CacheInv'
  <2>1. InForce(s)' = InForce(s) \union {ok} /\ \A o \in Observer \ {s} : InForce(o)' = InForce(o)
    BY <1>2, <1>c, InForceGrows
  <2>2. /\ UNCHANGED <<interest, cached_gen, by, gen, emit>>
        /\ valid' = [t \in Thread |->
                       IF emit[t].at \in {"load", "store", "act"} /\ emit[t].obs = s
                         THEN valid[t] \union {ok} ELSE valid[t]]
    BY <1>2 DEF StoreFilter, cacheVars
  <2>3. /\ valid' \in [Thread -> SUBSET BOOLEAN]
        /\ \A t \in Thread : valid[t] \subseteq valid'[t] /\ (Active(t) /\ emit[t].obs = s => ok \in valid'[t])
    BY <1>c, <2>2 DEF Active
  <2>4. Noops'
    <3>1. allow'[Noop] = allow[Noop]
      BY <1>2, <1>c, CallsiteAssumption DEF StoreFilter, GuardType
    <3>2. \A q \in Reloader : reload'[q].at = "bump" => reload'[q].obs \in Std
      BY <1>2, <1>c DEF StoreFilter, GuardType, Noops
    <3> QED
      BY <1>c, <2>2, <3>1, <3>2 DEF Noops
  <2>5. \A t \in Thread : Active(t) => InForce(emit[t].obs)' \subseteq valid'[t]
    <3> SUFFICES ASSUME NEW t \in Thread, Active(t) PROVE InForce(emit[t].obs)' \subseteq valid'[t]
      OBVIOUS
    <3>1. InForce(emit[t].obs) \subseteq valid[t] /\ emit[t].obs \in Observer
      BY <1>c DEF Emitting, GuardType, EmitType
    <3>2. PICK o : o = emit[t].obs
      OBVIOUS
    <3>3. InForce(o)' \subseteq valid'[t]
      BY <2>1, <2>3, <3>1, <3>2
    <3>4. emit'[t].obs = o
      BY <2>2, <3>2
    <3> QED
      BY <2>2, <3>2, <3>3, <3>4
  <2> QED
    BY <1>0, <2>1, <2>2, <2>3, <2>4, <2>5, CacheReload
<1>3. ASSUME NEW r \in Reloader, BumpGeneration(r) PROVE CacheInv'
  <2>1. PICK s \in Std : reload[r].obs = s /\ reload[r].at = "bump"
    BY <1>3, <1>c DEF BumpGeneration, Noops
  <2>2. /\ gen' = [gen EXCEPT ![s] = @ + 1] /\ reload' = [reload EXCEPT ![r] = NoReload]
        /\ UNCHANGED <<interest, cached_gen, by, allow, emit, valid>>
    BY <1>3, <2>1 DEF BumpGeneration, Bumps, cacheVars
  <2>3. s \in Observer /\ s # Noop /\ gen'[s] = gen[s] + 1 /\ \A o \in Observer : o # s => gen'[o] = gen[o]
    BY <1>c, <2>2, CallsiteAssumption DEF Observer, GuardType
  <2>4. reload'[r].at = "idle" /\ \A q \in Reloader : q # r => reload'[q] = reload[q]
    BY <1>c, <2>2 DEF GuardType, NoReload
  <2>5. \A o : InForce(o)' \subseteq InForce(o)
    BY <1>3, <1>c, InForceShrinks
  <2>6. \A o \in Observer : o # s => InForce(o)' = InForce(o)
    BY <2>1, <2>2, <2>4 DEF InForce
  <2>7. Noops'
    BY <1>c, <2>2, <2>3, <2>4, CallsiteAssumption DEF Noops, Observer
  <2>8. \A t \in Thread : Active(t) => InForce(emit[t].obs)' \subseteq valid'[t]
    <3> SUFFICES ASSUME NEW t \in Thread, Active(t) PROVE InForce(emit[t].obs)' \subseteq valid'[t]
      OBVIOUS
    <3>1. PICK o : o = emit[t].obs
      OBVIOUS
    <3>2. InForce(o) \subseteq valid[t] /\ InForce(o)' \subseteq InForce(o)
      BY <1>c, <2>5, <3>1 DEF Emitting
    <3> QED
      BY <2>2, <3>1, <3>2
  <2> QED
    BY <1>0, <1>c, <2>2, <2>3, <2>6, <2>7, <2>8, CacheReload
<1>4. ASSUME NEW s \in Std, ReloadFilter(s) PROVE CacheInv'
  <2>1. /\ gen' = [gen EXCEPT ![s] = @ + 1]
        /\ UNCHANGED <<interest, cached_gen, by, allow, reload, emit, valid>>
    BY <1>4 DEF ReloadFilter, Bumps, cacheVars
  <2>2. s \in Observer /\ s # Noop /\ gen'[s] = gen[s] + 1 /\ \A o \in Observer : o # s => gen'[o] = gen[o]
    BY <1>c, <2>1, CallsiteAssumption DEF Observer, GuardType
  <2>3. \A o : InForce(o)' = InForce(o)
    BY <2>1, InForceStays
  <2>4. Noops'
    BY <1>c, <2>1, <2>2, CallsiteAssumption DEF Noops, Observer
  <2>5. \A t \in Thread : Active(t) => InForce(emit[t].obs)' \subseteq valid'[t]
    <3> SUFFICES ASSUME NEW t \in Thread, Active(t) PROVE InForce(emit[t].obs)' \subseteq valid'[t]
      OBVIOUS
    <3>1. PICK o : o = emit[t].obs
      OBVIOUS
    <3>2. InForce(o) \subseteq valid[t] /\ InForce(o)' = InForce(o)
      BY <1>c, <2>3, <3>1 DEF Emitting
    <3> QED
      BY <2>1, <3>1, <3>2
  <2> QED
    BY <1>0, <1>c, <2>1, <2>2, <2>3, <2>4, <2>5, CacheReload
<1>5. CASE UNCHANGED vars
  BY <1>5 DEF vars, CacheInv, CacheType, GuardType, Noops, Emitting, Active, Answers, Good, Cached, Loading,
     Storing, DecisionIsCurrent, InForce
<1> QED
  BY <1>1, <1>2, <1>3, <1>4, <1>5 DEF Next

(* ObsCallsite::enabled and cache against reload_config: whatever the order *)
(* of the relaxed loads and stores of any number of threads, and however    *)
(* many reloads of however many observers run beside them, an emit is       *)
(* permitted or refused as its observer's filter answered at some moment    *)
(* since the emit began, unless it trusted the halves of two answers, or    *)
(* the answer of another observer.                                          *)
THEOREM DecisionIsCurrentHolds == Spec => []DecisionIsCurrent
<1>1. Init => GuardInv /\ CacheInv
  BY GuardInit, CacheInit
<1>2. GuardInv /\ CacheInv /\ [Next]_vars => (GuardInv /\ CacheInv)'
  BY GuardNext, CacheNext
<1>3. CacheInv => DecisionIsCurrent
  BY DEF CacheInv
<1> QED
  BY <1>1, <1>2, <1>3, PTL DEF Spec

(* What ObsCallsite::cache leaves behind: once no emit and no reload is     *)
(* under way, an Interest cached under an observer's current generation is  *)
(* its filter's own answer, so no later emit is suppressed or let through   *)
(* by a leftover of a reload, unless the two atomics are of two answers, or *)
(* of another observer's.                                                   *)
THEOREM CacheAgreesHolds == Spec => []CacheAgrees
<1>1. Init => GuardInv /\ CacheInv
  BY GuardInit, CacheInit
<1>2. GuardInv /\ CacheInv /\ [Next]_vars => (GuardInv /\ CacheInv)'
  BY GuardNext, CacheNext
<1>3. CacheInv => CacheAgrees
  <2> SUFFICES ASSUME CacheInv, \A r \in Reloader : reload[r].at = "idle",
                      NEW o \in Std, Whole(by, o), cached_gen = gen[o], interest # "Unknown"
               PROVE  interest = (IF allow[o] THEN "Always" ELSE "Never")
    BY DEF CacheAgrees
  <2>1. by.interest = by.gen /\ by.gen.obs = o /\ by.gen.cur = gen[o] /\ interest = Says(by.gen.ok)
    BY DEF CacheInv, Cached, Whole
  <2>2. \A x : x \in InForce(o) => x = allow[o]
    BY InForceIs
  <2>3. by.gen.ok \in InForce(o)
    BY <2>1 DEF CacheInv, Answers, Good
  <2> QED
    BY <2>1, <2>2, <2>3 DEF Says
<1> QED
  BY <1>1, <1>2, <1>3, PTL DEF Spec

-------------------------------------------------------------------------------
(* The watcher.                                                            *)

Reported == [kind : {"access", "create", "modify", "remove"}, about : {"target", "other"}]

WatchType ==
    /\ file \in [version : Nat, torn : BOOLEAN]
    /\ saves \in Nat /\ failed \in Nat /\ active \in Nat
    /\ saving \in BOOLEAN /\ recent \in BOOLEAN /\ skipped \in BOOLEAN /\ dropped \in BOOLEAN
    /\ events \in Seq(Reported)

(* Some event that will make the watcher read the file is in the channel. *)
Awaited == \E i \in 1..Len(events) : IsRelevant(events[i])

(* The configuration in force is the file's, or a reason is still pending: *)
(* an event to come, one that was debounced, a half-written file, or no    *)
(* watcher.  Unlike ReloadsLatest it also speaks of a channel that is not  *)
(* empty, which is what makes it inductive.                                *)
UpToDate == Awaited \/ skipped \/ dropped \/ file.torn \/ active = file.version

WatchInv == WatchType /\ UpToDate

LEMMA WatchInitInv == WatchInit => WatchInv
<1> SUFFICES ASSUME WatchInit PROVE WatchInv
  OBVIOUS
<1>1. WatchType
  <2>1. file \in [version : Nat, torn : BOOLEAN]
    BY DEF WatchInit
  <2>2. events \in Seq(Reported)
    BY DEF WatchInit
  <2>3. /\ saving \in BOOLEAN /\ recent \in BOOLEAN /\ skipped \in BOOLEAN /\ dropped \in BOOLEAN
    BY DEF WatchInit
  <2>4. saves \in Nat /\ failed \in Nat /\ active \in Nat
    BY DEF WatchInit
  <2> QED
    BY <2>1, <2>2, <2>3, <2>4 DEF WatchType
<1>2. file.version = active
  BY DEF WatchInit
<1> QED
  BY <1>1, <1>2 DEF WatchInv, UpToDate

(* An event is appended by Report unless the watcher is gone. *)
LEMMA Reports ==
    ASSUME WatchInv, NEW kind \in {"access", "create", "modify"}, NEW about \in {"target", "other"},
           Report(kind, about)
    PROVE  /\ events' \in Seq(Reported)
           /\ Awaited => Awaited'
           /\ ~dropped /\ kind # "access" /\ about = "target" => Awaited'
<1> DEFINE ev == [kind |-> kind, about |-> about]
<1>1. ev \in Reported
  BY DEF Reported
<1>2. CASE dropped
  BY <1>2 DEF Report, WatchInv, WatchType, Awaited
<1>3. CASE ~dropped
  <2>1. events' = Append(events, ev)
    BY <1>3 DEF Report
  <2>2. /\ events' \in Seq(Reported) /\ Len(events') = Len(events) + 1
        /\ \A i \in 1..Len(events) : events'[i] = events[i]
        /\ events'[Len(events) + 1] = ev
    BY <1>1, <2>1 DEF WatchInv, WatchType
  <2>3. Len(events) \in Nat
    BY DEF WatchInv, WatchType
  <2>4. Awaited => Awaited'
    BY <2>2, <2>3 DEF Awaited
  <2>5. kind # "access" /\ about = "target" => IsRelevant(ev)
    BY DEF IsRelevant
  <2> QED
    BY <2>2, <2>3, <2>4, <2>5 DEF Awaited
<1> QED
  BY <1>2, <1>3

(* What a turn of the watcher thread leaves in the channel. *)
LEMMA Received ==
    ASSUME WatchInv, events # <<>>, events' = Tail(events)
    PROVE  /\ events' \in Seq(Reported)
           /\ Head(events) \in Reported
           /\ Awaited /\ ~IsRelevant(Head(events)) => Awaited'
<1>1. /\ events' \in Seq(Reported) /\ Len(events') = Len(events) - 1 /\ Len(events) \in Nat \ {0}
      /\ Head(events) = events[1] /\ events[1] \in Reported
      /\ \A i \in 1..Len(events') : events'[i] = events[i + 1]
  BY DEF WatchInv, WatchType
<1>2. ASSUME Awaited, ~IsRelevant(Head(events)) PROVE Awaited'
  <2>1. PICK i \in 1..Len(events) : IsRelevant(events[i])
    BY <1>2 DEF Awaited
  <2>2. i # 1
    BY <1>1, <1>2, <2>1
  <2>3. i - 1 \in 1..Len(events') /\ events'[i - 1] = events[i]
    BY <1>1, <2>1, <2>2
  <2> QED
    BY <2>1, <2>3 DEF Awaited
<1> QED
  BY <1>1, <1>2

LEMMA WatchNextInv == WatchInv /\ [WatchNext]_watchVars => WatchInv'
<1> SUFFICES ASSUME WatchInv, [WatchNext]_watchVars PROVE WatchInv'
  OBVIOUS
<1>1. CASE BeginSave
  BY <1>1, Reports DEF BeginSave, WatchInv, WatchType, UpToDate
<1>2. CASE EndSave
  BY <1>2, Reports DEF EndSave, WatchInv, WatchType, UpToDate
<1>3. CASE RenameSave
  BY <1>3, Reports DEF RenameSave, WatchInv, WatchType, UpToDate
<1>4. CASE OtherEvent
  <2>1. PICK kind \in {"access", "modify"}, about \in {"target", "other"} : Report(kind, about)
    BY <1>4 DEF OtherEvent
  <2> QED
    BY <1>4, <2>1, Reports DEF OtherEvent, WatchInv, WatchType, UpToDate
<1>5. CASE Receive
  <2>1. events' \in Seq(Reported)
    BY <1>5, Received DEF Receive
  <2>2. CASE ~IsRelevant(Head(events))
    BY <1>5, <2>1, <2>2, Received DEF Receive, WatchInv, WatchType, UpToDate
  <2>3. CASE IsRelevant(Head(events)) /\ recent
    BY <1>5, <2>1, <2>3 DEF Receive, WatchInv, WatchType, UpToDate
  <2>4. CASE IsRelevant(Head(events)) /\ ~recent
    <3>1. /\ recent' = TRUE /\ skipped' = FALSE
          /\ UNCHANGED <<file, saving, saves, dropped>>
      BY <1>5, <2>4 DEF Receive
    <3>2. /\ active' = IF file.torn THEN active ELSE file.version
          /\ failed' = failed + IF file.torn THEN 1 ELSE 0
      BY <1>5, <2>4 DEF Receive
    <3>3. active' \in Nat /\ failed' \in Nat
      BY <3>2 DEF WatchInv, WatchType
    <3>4. file'.torn \/ active' = file'.version
      BY <3>1, <3>2
    <3> QED
      BY <2>1, <3>1, <3>3, <3>4 DEF WatchInv, WatchType, UpToDate
  <2> QED
    BY <2>2, <2>3, <2>4
<1>6. CASE DebounceOver
  BY <1>6 DEF DebounceOver, WatchInv, WatchType, UpToDate, Awaited
<1>7. CASE DropWatcher
  BY <1>7 DEF DropWatcher, WatchInv, WatchType, UpToDate, Awaited
<1>8. CASE UNCHANGED watchVars
  BY <1>8 DEF watchVars, WatchInv, WatchType, UpToDate, Awaited
<1> QED
  BY <1>1, <1>2, <1>3, <1>4, <1>5, <1>6, <1>7, <1>8 DEF WatchNext

(* The leading-edge debounce of spawn_watcher is the only way a save is    *)
(* missed: with any number of saves, torn or renamed, once the channel is  *)
(* empty the configuration in force is what obs.yaml holds, unless the     *)
(* last event about it was debounced.                                      *)
THEOREM WatcherReloadsLatest == WatchSpec => []ReloadsLatest
<1>1. WatchInv => ReloadsLatest
  BY DEF WatchInv, WatchType, UpToDate, Awaited, ReloadsLatest
<1> QED
  BY <1>1, WatchInitInv, WatchNextInv, PTL DEF WatchSpec

-------------------------------------------------------------------------------
(* The observer slots.                                                     *)

GuardRec == [obs : Observers, prev : SUBSET Observers]

TaskRec == [state : {"new", "scoped", "done"}, obs : SUBSET Observers, on : SUBSET Threads]

SlotType ==
    /\ global \in Observers
    /\ slot \in [Threads -> SUBSET Observers]
    /\ guards \in [Threads -> Seq(GuardRec)]
    /\ task \in [Tasks -> TaskRec]
    /\ overrides \in Int
    /\ look \in [Threads -> {"out", "probe", "global"}]
    /\ emits \in Nat
    /\ ring \in [Observers -> Seq(Nat)]
    /\ meant \in [Observers -> Seq(Nat)]
    /\ since \in [Observers -> Nat]

(* The slot of a thread holds the observer of its youngest guard, and each *)
(* guard keeps that of the guard before it.                                *)
Nested(gs, in) ==
    /\ in = IF gs = <<>> THEN {} ELSE {gs[Len(gs)].obs}
    /\ \A i \in 1..Len(gs) : gs[i].prev = IF i = 1 THEN {} ELSE {gs[i - 1].obs}

Restores == \A t \in Threads : Nested(guards[t], slot[t])

(* A task that is polled is inside its scope, on one thread, alone there. *)
Polled ==
    /\ \A k \in Tasks : task[k].state = "scoped" => \E o \in Observers : task[k].obs = {o}
    /\ \A k \in Tasks : task[k].on # {} =>
          task[k].state = "scoped" /\ \E t \in Threads : task[k].on = {t}
    /\ \A k, l \in Tasks : task[k].on # {} /\ task[k].on = task[l].on => k = l

(* A thread goes for the global slot only when nothing overrides it there. *)
Looked == \A t \in Threads : look[t] = "global" => Running(t) = {} /\ guards[t] = <<>>

(* OVERRIDE_COUNT is at least the number of guards and scopes that are     *)
(* alive; a task dropped between polls leaves it too high for good.        *)
LiveGuards == {g \in Threads \X Nat : g[2] \in 1..Len(guards[g[1]])}
LiveScopes == {k \in Tasks : task[k].state = "scoped"}
Counted ==
    /\ IsFiniteSet(LiveGuards) /\ IsFiniteSet(LiveScopes)
    /\ Cardinality(LiveGuards) + Cardinality(LiveScopes) <= overrides

(* OverrideSeen, element by element. *)
Aligned(r, m) == \A i \in 1..Len(m), j \in 1..Len(r) : i + Len(r) = j + Len(m) => r[j] = m[i]
Kept(n) == IF n > RingCap THEN RingCap ELSE n
Youngest(r, m, n) ==
    /\ n <= Len(m) /\ Len(r) = Kept(Len(m) - n)
    /\ Aligned(r, m)
Rings == \A o \in Observers : Youngest(ring[o], meant[o], since[o])

SlotInv == SlotType /\ Restores /\ Polled /\ Looked /\ Counted /\ Rings

LEMMA SlotInitInv == SlotInit => SlotInv
<1> SUFFICES ASSUME SlotInit PROVE SlotInv
  OBVIOUS
<1>1. SlotType
  BY DEF SlotInit, SlotType, TaskRec
<1>2. Restores /\ Looked
  BY DEF SlotInit, Restores, Nested, Looked
<1>3. Polled
  BY DEF SlotInit, Polled
<1>4. LiveGuards = {} /\ LiveScopes = {}
  BY DEF SlotInit, LiveGuards, LiveScopes
<1>5. Counted
  BY <1>4, FS_EmptySet DEF Counted, SlotInit
<1>6. Rings
  BY SlotAssumption DEF SlotInit, Rings, Youngest, Aligned, Kept
<1> QED
  BY <1>1, <1>2, <1>3, <1>5, <1>6 DEF SlotInv

(* Sequences that end alike still do when the same is appended to both. *)
LEMMA AppendAligned ==
    ASSUME NEW q, NEW m, NEW e \in Nat, q \in Seq(Nat), m \in Seq(Nat), Aligned(q, m)
    PROVE  Aligned(Append(q, e), Append(m, e))
<1> DEFINE p == Append(q, e)
           w == Append(m, e)
<1>1. /\ p \in Seq(Nat) /\ Len(p) = Len(q) + 1
      /\ \A j \in 1..Len(q) : p[j] = q[j]
      /\ p[Len(q) + 1] = e
  OBVIOUS
<1>2. /\ w \in Seq(Nat) /\ Len(w) = Len(m) + 1
      /\ \A j \in 1..Len(m) : w[j] = m[j]
      /\ w[Len(m) + 1] = e
  OBVIOUS
<1>3. /\ Len(q) \in Nat /\ Len(m) \in Nat /\ Len(p) \in Nat /\ Len(w) \in Nat
      /\ Len(p) = Len(q) + 1 /\ Len(w) = Len(m) + 1
  BY <1>1, <1>2
<1> HIDE DEF p, w
<1>4. \A i \in 1..Len(w), j \in 1..Len(p) : i + Len(p) = j + Len(w) => p[j] = w[i]
  <2> SUFFICES ASSUME NEW i \in 1..Len(w), NEW j \in 1..Len(p), i + Len(p) = j + Len(w)
               PROVE  p[j] = w[i]
    OBVIOUS
  <2>1. CASE j = Len(p)
    <3>1. i = Len(m) + 1 /\ j = Len(q) + 1
      BY <1>3, <2>1
    <3> QED
      BY <1>1, <1>2, <3>1
  <2>2. CASE j # Len(p)
    <3>1. i \in 1..Len(m) /\ j \in 1..Len(q) /\ i + Len(q) = j + Len(m)
      <4>1. i + Len(p) = j + Len(w)
        OBVIOUS
      <4> QED
        BY ONLY <1>3, <2>2, <4>1
    <3>2. q[j] = m[i]
      BY <3>1 DEF Aligned
    <3> QED
      BY <1>1, <1>2, <3>1, <3>2
  <2> QED
    BY <2>1, <2>2
<1> QED
  BY <1>4 DEF Aligned, p, w

LEMMA TailAligned ==
    ASSUME NEW r, NEW m, r \in Seq(Nat), m \in Seq(Nat), r # <<>>, Aligned(r, m)
    PROVE  Aligned(Tail(r), m)
<1> DEFINE q == Tail(r)
<1>1. q \in Seq(Nat) /\ Len(q) = Len(r) - 1 /\ \A j \in 1..Len(q) : q[j] = r[j + 1]
  OBVIOUS
<1>2. Len(m) \in Nat /\ Len(r) \in Nat /\ Len(q) \in Nat /\ Len(q) = Len(r) - 1
  BY <1>1
<1> HIDE DEF q
<1>3. ASSUME NEW i \in 1..Len(m), NEW j \in 1..Len(q), i + Len(q) = j + Len(m) PROVE q[j] = m[i]
  <2> DEFINE h == j + 1
  <2>1. h \in 1..Len(r) /\ i + Len(r) = h + Len(m)
    BY <1>2, <1>3
  <2>2. q[j] = r[h]
    BY <1>1
  <2> HIDE DEF h
  <2> QED
    BY <2>1, <2>2 DEF Aligned
<1> QED
  BY <1>3 DEF Aligned, q

(* What deliver does to the ring of the observer an emit was meant for. *)
LEMMA PushYoungest ==
    ASSUME NEW r, NEW m, NEW n \in Nat, NEW e \in Nat, r \in Seq(Nat), m \in Seq(Nat),
           Youngest(r, m, n)
    PROVE  PushRing(r, e) \in Seq(Nat) /\ Youngest(PushRing(r, e), Append(m, e), n)
<1> USE SlotAssumption
<1> DEFINE w == Append(m, e)
<1>1. Len(m) \in Nat /\ Len(r) \in Nat /\ n <= Len(m) /\ Len(r) = Kept(Len(m) - n) /\ Aligned(r, m)
  BY DEF Youngest
<1>2. w \in Seq(Nat) /\ Len(w) = Len(m) + 1
  OBVIOUS
<1>3. n <= Len(w)
  BY <1>1, <1>2
<1>4. CASE Len(r) >= RingCap
  <2> DEFINE q == Tail(r)
             p == Append(q, e)
  <2>1. r # <<>> /\ PushRing(r, e) = p
    BY <1>4 DEF PushRing
  <2>2. q \in Seq(Nat) /\ Len(q) = Len(r) - 1
    BY <2>1
  <2>3. Aligned(q, m)
    BY <1>1, <2>1, TailAligned
  <2> HIDE DEF q
  <2>4. p \in Seq(Nat) /\ Len(p) = Len(q) + 1 /\ Aligned(p, w)
    BY <2>2, <2>3, AppendAligned
  <2> HIDE DEF p, w
  <2>5. Len(r) = RingCap /\ Len(m) - n >= RingCap
    BY <1>1, <1>4 DEF Kept
  <2>6. Len(w) - n > RingCap /\ Len(p) = RingCap
    BY ONLY <1>1, <1>2, <2>2, <2>4, <2>5, SlotAssumption
  <2>7. Len(p) = Kept(Len(w) - n)
    BY <2>6 DEF Kept
  <2> QED
    BY <1>3, <2>1, <2>4, <2>7 DEF Youngest, w
<1>5. CASE Len(r) < RingCap
  <2> DEFINE p == Append(r, e)
  <2>1. PushRing(r, e) = p
    BY <1>1, <1>5 DEF PushRing
  <2>2. p \in Seq(Nat) /\ Len(p) = Len(r) + 1 /\ Aligned(p, w)
    BY <1>1, AppendAligned
  <2> HIDE DEF p, w
  <2>3. Len(r) = Len(m) - n
    BY <1>1, <1>5 DEF Kept
  <2>4. Len(w) - n = Len(p) /\ Len(w) - n <= RingCap
    <3>1. /\ Len(m) \in Nat /\ Len(r) \in Nat /\ Len(w) \in Nat /\ Len(p) \in Nat
          /\ Len(w) = Len(m) + 1 /\ Len(p) = Len(r) + 1
      BY <1>1, <1>2, <2>2
    <3> QED
      BY ONLY <1>5, <2>3, <3>1, SlotAssumption
  <2>5. Len(p) = Kept(Len(w) - n)
    BY <2>4 DEF Kept
  <2> QED
    BY <1>3, <2>1, <2>2, <2>5 DEF Youngest, w
<1> QED
  BY <1>1, <1>4, <1>5

(* The rings as OverrideSeen reads them. *)
LEMMA YoungestReads ==
    ASSUME NEW r \in Seq(Nat), NEW m \in Seq(Nat), NEW n \in Nat, Youngest(r, m, n)
    PROVE  LET fresh == SubSeq(m, n + 1, Len(m))
               kept == IF Len(fresh) > RingCap THEN RingCap ELSE Len(fresh)
           IN r = SubSeq(fresh, Len(fresh) - kept + 1, Len(fresh))
<1> USE SlotAssumption
<1> DEFINE fresh == SubSeq(m, n + 1, Len(m))
           kept == IF Len(fresh) > RingCap THEN RingCap ELSE Len(fresh)
           from == Len(fresh) - kept + 1
           top == SubSeq(fresh, from, Len(fresh))
<1>0. Len(m) \in Nat /\ Len(r) \in Nat
  OBVIOUS
<1>1. Len(m) \in Nat /\ Len(r) \in Nat /\ n <= Len(m) /\ Len(r) = Kept(Len(m) - n)
  BY DEF Youngest
<1>2. /\ fresh \in Seq(Nat) /\ Len(fresh) = Len(m) - n
      /\ \A i \in 1..Len(fresh) : fresh[i] = m[n + i]
  <2>1. \A i \in (n + 1)..Len(m) : m[i] \in Nat
    BY <1>1
  <2> QED
    BY <1>1, <2>1, SubSeqProperties
<1> HIDE DEF fresh
<1>3. kept \in Nat /\ kept <= Len(fresh) /\ kept = Len(r)
  BY <1>1, <1>2 DEF Kept
<1> HIDE DEF kept
<1>4. /\ top \in Seq(Nat) /\ Len(top) = kept
      /\ \A i \in 1..kept : top[i] = fresh[from + i - 1]
  <2>1. from \in Int /\ Len(fresh) \in Int /\ from > 0
    BY <1>2, <1>3
  <2> HIDE DEF from
  <2>2. /\ top \in Seq(Nat)
        /\ Len(top) = IF from <= Len(fresh) THEN Len(fresh) - from + 1 ELSE 0
        /\ \A i \in 1..(Len(fresh) - from + 1) : top[i] = fresh[from + i - 1]
    <3>1. \A i \in from..Len(fresh) : fresh[i] \in Nat
      BY <1>2, <2>1
    <3> QED
      BY <2>1, <3>1, SubSeqProperties
  <2>3. Len(fresh) - from + 1 = kept /\ (from <= Len(fresh) <=> kept > 0)
    BY <1>2, <1>3 DEF from
  <2> QED
    BY <1>3, <2>2, <2>3
<1> HIDE DEF top
<1>5. \A i \in 1..Len(r) : r[i] = top[i]
  <2> SUFFICES ASSUME NEW i \in 1..Len(r) PROVE r[i] = top[i]
    OBVIOUS
  <2> DEFINE f == from + i - 1
             h == n + f
  <2>a. Len(fresh) \in Nat /\ Len(fresh) = Len(m) - n
    BY <1>2
  <2>1. f \in 1..Len(fresh) /\ h \in 1..Len(m) /\ h + Len(r) = i + Len(m)
    <3>1. n <= Len(m)
      BY <1>1
    <3>2. kept \in Nat /\ kept <= Len(fresh) /\ kept = Len(r)
      BY <1>3
    <3> QED
      BY <1>0, <2>a, <3>1, <3>2
  <2>2. top[i] = fresh[f] /\ fresh[f] = m[h]
    BY <1>2, <1>3, <1>4, <2>1
  <2> HIDE DEF f, h
  <2> QED
    BY <2>1, <2>2 DEF Youngest, Aligned
<1>6. r = top
  BY <1>3, <1>4, <1>5, SeqEqual
<1> QED
  BY <1>6 DEF top, kept, fresh

(* The observer a look-up finds is the one the nesting of scopes says.     *)
LEMMA WantedIsOne ==
    ASSUME SlotInv, NEW t \in Threads
    PROVE  /\ \E o \in Observers : Wanted(t) = {o}
           /\ look[t] = "global" => Wanted(t) = {global}
           /\ Running(t) # {} => Wanted(t) = UNION {task[k].obs : k \in Running(t)}
           /\ Running(t) = {} /\ slot[t] # {} => Wanted(t) = slot[t]
<1>1. CASE Running(t) # {}
  <2>1. PICK k \in Tasks : task[k].on = {t}
    BY <1>1 DEF Running
  <2>2. task[k].on # {}
    BY <2>1
  <2>3. Running(t) = {k}
    BY <2>1, <2>2 DEF Running, SlotInv, Polled
  <2>4. PICK o \in Observers : task[k].obs = {o}
    BY <2>2 DEF SlotInv, Polled
  <2>5. UNION {task[l].obs : l \in Running(t)} = {o}
    BY <2>3, <2>4
  <2>6. Wanted(t) = UNION {task[l].obs : l \in Running(t)}
    BY <1>1 DEF Wanted
  <2>7. look[t] # "global"
    BY <1>1 DEF SlotInv, Looked
  <2> QED
    BY <1>1, <2>5, <2>6, <2>7
<1>2. CASE Running(t) = {} /\ guards[t] # <<>>
  <2>1. guards[t] \in Seq(GuardRec)
    BY DEF SlotInv, SlotType
  <2>2. guards[t][Len(guards[t])] \in GuardRec
    BY <1>2, <2>1
  <2>3. Wanted(t) = {guards[t][Len(guards[t])].obs}
    BY <1>2 DEF Wanted, Last
  <2>4. slot[t] = {guards[t][Len(guards[t])].obs}
    BY <1>2 DEF SlotInv, Restores, Nested
  <2>5. look[t] # "global"
    BY <1>2 DEF SlotInv, Looked
  <2> QED
    BY <1>2, <2>2, <2>3, <2>4, <2>5 DEF GuardRec
<1>3. CASE Running(t) = {} /\ guards[t] = <<>>
  <2>1. Wanted(t) = {global}
    BY <1>3 DEF Wanted
  <2>2. slot[t] = {}
    BY <1>3 DEF SlotInv, Restores, Nested
  <2> QED
    BY <1>3, <2>1, <2>2 DEF SlotInv, SlotType
<1> QED
  BY <1>1, <1>2, <1>3

(* An emit reaches the ring of the observer it was meant for, and no other. *)
LEMMA DeliverInv ==
    ASSUME SlotInv, NEW t \in Threads, NEW o \in Observers, Wanted(t) = {o}, Deliver(t, o)
    PROVE  SlotInv'
<1> DEFINE e == emits + 1
<1>1. e \in Nat /\ emits' = e
  BY DEF Deliver, SlotInv, SlotType
<1>2. /\ ring' = [ring EXCEPT ![o] = PushRing(@, e)]
      /\ meant' = [w \in Observers |-> IF w = o THEN Append(meant[w], e) ELSE meant[w]]
      /\ look' = [look EXCEPT ![t] = "out"]
      /\ UNCHANGED <<global, slot, guards, task, overrides, since>>
  BY DEF Deliver
<1> HIDE DEF e
<1>3. /\ ring[o] \in Seq(Nat) /\ meant[o] \in Seq(Nat) /\ since[o] \in Nat
      /\ Youngest(ring[o], meant[o], since[o])
  BY DEF SlotInv, SlotType, Rings
<1>4. PushRing(ring[o], e) \in Seq(Nat) /\ Youngest(PushRing(ring[o], e), Append(meant[o], e), since[o])
  BY <1>1, <1>3, PushYoungest
<1>5. Append(meant[o], e) \in Seq(Nat)
  BY <1>1, <1>3
<1>6. SlotType'
  BY <1>1, <1>2, <1>4, <1>5 DEF SlotInv, SlotType
<1>7. Rings'
  <2> SUFFICES ASSUME NEW w \in Observers PROVE Youngest(ring'[w], meant'[w], since'[w])
    BY DEF Rings, Youngest, Aligned, Kept
  <2>1. CASE w = o
    <3>1. ring'[w] = PushRing(ring[o], e) /\ meant'[w] = Append(meant[o], e) /\ since'[w] = since[o]
      BY <1>2, <2>1 DEF SlotInv, SlotType
    <3> QED
      BY <1>4, <3>1
  <2>2. CASE w # o
    <3>1. ring'[w] = ring[w] /\ meant'[w] = meant[w] /\ since'[w] = since[w]
      BY <1>2, <2>2 DEF SlotInv, SlotType
    <3> QED
      BY <3>1 DEF SlotInv, Rings
  <2> QED
    BY <2>1, <2>2
<1>8. Restores' /\ Polled' /\ Counted'
  BY <1>2 DEF SlotInv, Restores, Polled, Counted, LiveGuards, LiveScopes
<1>9. Looked'
  BY <1>2 DEF SlotInv, SlotType, Looked, Running
<1> QED
  BY <1>6, <1>7, <1>8, <1>9 DEF SlotInv

(* A guard is the youngest until it is dropped. *)
LEMMA GuardTaken ==
    ASSUME SlotInv, NEW t \in Threads, NEW o \in Observers, WithObserverThreadLocal(t, o)
    PROVE  SlotInv'
<1> DEFINE g == [obs |-> o, prev |-> slot[t]]
           n == Len(guards[t]) + 1
<1>1. g \in GuardRec /\ guards[t] \in Seq(GuardRec)
  BY DEF GuardRec, SlotInv, SlotType
<1>2. /\ slot' = [slot EXCEPT ![t] = {o}]
      /\ guards' = [guards EXCEPT ![t] = Append(guards[t], g)]
      /\ overrides' = overrides + 1
      /\ look[t] = "out"
      /\ UNCHANGED <<global, task, look, emits, ring, meant, since>>
  BY DEF WithObserverThreadLocal, SlotInv, SlotType
<1>3. g.obs = o /\ g.prev = slot[t]
  OBVIOUS
<1> HIDE DEF g
<1>4. /\ Append(guards[t], g) \in Seq(GuardRec)
      /\ Len(Append(guards[t], g)) = n
      /\ \A i \in 1..Len(guards[t]) : Append(guards[t], g)[i] = guards[t][i]
      /\ Append(guards[t], g)[n] = g
  BY <1>1
<1>5. /\ guards'[t] = Append(guards[t], g) /\ slot'[t] = {o}
      /\ \A u \in Threads : u # t => guards'[u] = guards[u] /\ slot'[u] = slot[u]
  BY <1>2 DEF SlotInv, SlotType
<1>6. SlotType'
  BY <1>2, <1>4 DEF SlotInv, SlotType
<1>7. Len(guards[t]) \in Nat /\ n \in Nat \ {0}
  BY <1>1
<1>8. Restores'
  <2> SUFFICES ASSUME NEW u \in Threads PROVE Nested(guards'[u], slot'[u])
    BY DEF Restores, Nested
  <2>1. CASE u # t
    BY <1>5, <2>1 DEF SlotInv, Restores
  <2>2. CASE u = t
    <3>1. Nested(guards[t], slot[t])
      BY DEF SlotInv, Restores
    <3>2. guards'[t] # <<>> /\ Len(guards'[t]) = n /\ guards'[t][n].obs = o
      BY <1>3, <1>4, <1>5, <1>7
    <3>3. guards'[t][n].prev = IF n = 1 THEN {} ELSE {guards'[t][n - 1].obs}
      <4>1. guards'[t][n].prev = slot[t]
        BY <1>3, <1>4, <1>5
      <4>2. CASE guards[t] = <<>>
        BY <1>7, <3>1, <4>1, <4>2 DEF Nested
      <4>3. CASE guards[t] # <<>>
        <5>1. Len(guards[t]) # 0
          BY <1>1, <4>3
        <5>2. n # 1 /\ n - 1 = Len(guards[t]) /\ n - 1 \in 1..Len(guards[t])
          BY <1>7, <5>1
        <5>3. guards'[t][n - 1] = guards[t][Len(guards[t])]
          BY <1>4, <1>5, <5>2
        <5> QED
          BY <3>1, <4>1, <4>3, <5>2, <5>3 DEF Nested
      <4> QED
        BY <4>2, <4>3
    <3>4. ASSUME NEW i \in 1..Len(guards[t])
          PROVE  guards'[t][i].prev = IF i = 1 THEN {} ELSE {guards'[t][i - 1].obs}
      <4>1. guards'[t][i] = guards[t][i]
        BY <1>4, <1>5
      <4>2. i # 1 => i - 1 \in 1..Len(guards[t])
        BY <1>7
      <4>3. i # 1 => guards'[t][i - 1] = guards[t][i - 1]
        BY <1>4, <1>5, <4>2
      <4> QED
        BY <3>1, <4>1, <4>3 DEF Nested
    <3>5. \A i \in 1..n : i = n \/ i \in 1..Len(guards[t])
      BY <1>7
    <3> QED
      BY <1>5, <2>2, <3>2, <3>3, <3>4, <3>5 DEF Nested
  <2> QED
    BY <2>1, <2>2
<1>9. Counted'
  <2>1. LiveGuards' = LiveGuards \union {<<t, n>>} /\ <<t, n>> \notin LiveGuards
    <3>1. Len(guards'[t]) = n
      BY <1>4, <1>5
    <3>2. <<t, n>> \notin LiveGuards
      BY <1>7 DEF LiveGuards
    <3>3. ASSUME NEW g2 \in Threads \X Nat
          PROVE  g2[2] \in 1..Len(guards'[g2[1]]) <=> g2[2] \in 1..Len(guards[g2[1]]) \/ g2 = <<t, n>>
      <4>1. PICK u \in Threads, i \in Nat : g2 = <<u, i>>
        OBVIOUS
      <4>2. CASE u # t
        BY <1>5, <4>1, <4>2
      <4>3. CASE u = t
        BY <1>7, <3>1, <4>1, <4>3
      <4> QED
        BY <4>2, <4>3
    <3> QED
      BY <1>7, <3>2, <3>3 DEF LiveGuards
  <2>2. LiveScopes' = LiveScopes
    BY <1>2 DEF LiveScopes
  <2>3. IsFiniteSet(LiveGuards) /\ IsFiniteSet(LiveScopes)
    BY DEF SlotInv, Counted
  <2>4. IsFiniteSet(LiveGuards') /\ Cardinality(LiveGuards') = Cardinality(LiveGuards) + 1
    BY <2>1, <2>3, FS_AddElement
  <2>5. Cardinality(LiveGuards) \in Nat /\ Cardinality(LiveScopes) \in Nat
    BY <2>3, FS_CardinalityType
  <2> QED
    BY <1>2, <2>2, <2>3, <2>4, <2>5 DEF SlotInv, SlotType, Counted
<1>10. Looked'
  BY <1>2, <1>5 DEF SlotInv, SlotType, Looked, Running
<1>11. Polled' /\ Rings'
  BY <1>2 DEF SlotInv, Polled, Rings
<1> QED
  BY <1>6, <1>8, <1>9, <1>10, <1>11 DEF SlotInv

(* Dropping the youngest guard puts back what it replaced. *)
LEMMA GuardDropped ==
    ASSUME SlotInv, NEW t \in Threads, DropGuard(t)
    PROVE  SlotInv'
<1> DEFINE gs == guards[t]
           n == Len(gs)
           fr == Front(gs)
<1>1. gs \in Seq(GuardRec) /\ gs # <<>> /\ n \in Nat \ {0} /\ gs[n] \in GuardRec
  BY DEF DropGuard, SlotInv, SlotType
<1>2. /\ slot' = [slot EXCEPT ![t] = gs[n].prev]
      /\ guards' = [guards EXCEPT ![t] = fr]
      /\ overrides' = overrides - 1
      /\ look[t] = "out"
      /\ UNCHANGED <<global, task, look, emits, ring, meant, since>>
  BY DEF DropGuard, Last
<1>3. /\ fr \in Seq(GuardRec) /\ Len(fr) = n - 1
      /\ \A i \in 1..(n - 1) : fr[i] = gs[i]
  BY <1>1 DEF Front
<1> HIDE DEF fr
<1>4. Nested(gs, slot[t]) /\ gs[n].prev = IF n = 1 THEN {} ELSE {gs[n - 1].obs}
  <2>1. Nested(gs, slot[t]) /\ n \in 1..n
    BY <1>1 DEF SlotInv, Restores
  <2> QED
    BY <2>1 DEF Nested
<1>5. gs[n].prev \in SUBSET Observers
  BY <1>1 DEF GuardRec
<1>6. SlotType'
  BY <1>2, <1>3, <1>5 DEF SlotInv, SlotType
<1>7. /\ guards'[t] = fr /\ slot'[t] = gs[n].prev
      /\ \A u \in Threads : u # t => guards'[u] = guards[u] /\ slot'[u] = slot[u]
  BY <1>2 DEF SlotInv, SlotType
<1>8. Restores'
  <2> SUFFICES ASSUME NEW u \in Threads PROVE Nested(guards'[u], slot'[u])
    BY DEF Restores, Nested
  <2>1. CASE u # t
    BY <1>7, <2>1 DEF SlotInv, Restores
  <2>2. CASE u = t
    <3>1. fr = <<>> <=> n = 1
      <4>1. fr = <<>> <=> Len(fr) = 0
        BY <1>3, EmptySeq
      <4>2. Len(fr) = 0 <=> n = 1
        <5>1. n \in Nat \ {0} /\ Len(fr) = n - 1
          BY <1>1, <1>3
        <5> HIDE DEF n
        <5> QED
          BY ONLY <5>1
      <4> QED
        BY <4>1, <4>2
    <3>2. gs[n].prev = IF fr = <<>> THEN {} ELSE {fr[Len(fr)].obs}
      <4>1. n # 1 => n - 1 \in 1..(n - 1)
        <5>1. n \in Nat \ {0}
          BY <1>1
        <5> HIDE DEF n
        <5> QED
          BY ONLY <5>1
      <4>2. n # 1 => fr[n - 1] = gs[n - 1]
        BY <1>3, <4>1
      <4>3. Len(fr) = n - 1
        BY <1>3
      <4> QED
        BY <1>4, <3>1, <4>2, <4>3
    <3>3. ASSUME NEW i \in 1..Len(fr) PROVE fr[i].prev = IF i = 1 THEN {} ELSE {fr[i - 1].obs}
      <4>1. i \in 1..n /\ i \in 1..(n - 1) /\ (i # 1 => i - 1 \in 1..(n - 1))
        BY <1>1, <1>3
      <4>2. fr[i] = gs[i] /\ (i # 1 => fr[i - 1] = gs[i - 1])
        BY <1>3, <4>1
      <4> QED
        BY <1>4, <4>1, <4>2 DEF Nested
    <3> QED
      BY <1>7, <2>2, <3>2, <3>3 DEF Nested
  <2> QED
    BY <2>1, <2>2
<1>9. Counted'
  <2>1. LiveGuards' = LiveGuards \ {<<t, n>>} /\ <<t, n>> \in LiveGuards
    <3>1. Len(guards'[t]) = n - 1
      BY <1>3, <1>7
    <3>2. <<t, n>> \in LiveGuards
      BY <1>1 DEF LiveGuards
    <3>3. ASSUME NEW g2 \in Threads \X Nat
          PROVE  g2[2] \in 1..Len(guards'[g2[1]]) <=> g2[2] \in 1..Len(guards[g2[1]]) /\ g2 # <<t, n>>
      <4>1. PICK u \in Threads, i \in Nat : g2 = <<u, i>>
        OBVIOUS
      <4>2. CASE u # t
        BY <1>7, <4>1, <4>2
      <4>3. CASE u = t
        BY <1>1, <3>1, <4>1, <4>3
      <4> QED
        BY <4>2, <4>3
    <3> QED
      BY <3>2, <3>3 DEF LiveGuards
  <2>2. LiveScopes' = LiveScopes
    BY <1>2 DEF LiveScopes
  <2>3. IsFiniteSet(LiveGuards) /\ IsFiniteSet(LiveScopes)
    BY DEF SlotInv, Counted
  <2>4. IsFiniteSet(LiveGuards') /\ Cardinality(LiveGuards') = Cardinality(LiveGuards) - 1
    BY <2>1, <2>3, FS_RemoveElement
  <2>5. Cardinality(LiveGuards) \in Nat /\ Cardinality(LiveScopes) \in Nat
    BY <2>3, FS_CardinalityType
  <2> QED
    BY <1>2, <2>2, <2>3, <2>4, <2>5 DEF SlotInv, SlotType, Counted
<1>10. Looked'
  BY <1>2, <1>7 DEF SlotInv, SlotType, Looked, Running
<1>11. Polled' /\ Rings'
  BY <1>2 DEF SlotInv, Polled, Rings
<1> QED
  BY <1>6, <1>8, <1>9, <1>10, <1>11 DEF SlotInv

(* A step that only changes one task, and leaves no thread that is past    *)
(* the task slot with a task to run.                                       *)
LEMMA TaskStep ==
    ASSUME SlotInv, NEW k \in Tasks, NEW r \in TaskRec, task' = [task EXCEPT ![k] = r],
           overrides' \in Int, Counted',
           r.state = "scoped" => \E o \in Observers : r.obs = {o},
           r.on # {} => /\ r.state = "scoped"
                        /\ \E t \in Threads : r.on = {t} /\ Running(t) \subseteq {k} /\ look[t] # "global",
           UNCHANGED <<global, slot, guards, look, emits, ring, meant, since>>
    PROVE  SlotInv'
<1>1. task'[k] = r /\ \A l \in Tasks : l # k => task'[l] = task[l]
  BY DEF SlotInv, SlotType
<1>2. SlotType'
  BY DEF SlotInv, SlotType
<1>3. Restores' /\ Rings'
  BY DEF SlotInv, Restores, Rings
<1>4. Polled'
  <2>1. \A l \in Tasks : task'[l].state = "scoped" => \E o \in Observers : task'[l].obs = {o}
    BY <1>1 DEF SlotInv, Polled
  <2>2. \A l \in Tasks : task'[l].on # {} =>
          task'[l].state = "scoped" /\ \E t \in Threads : task'[l].on = {t}
    BY <1>1 DEF SlotInv, Polled
  <2>3. ASSUME NEW l \in Tasks, l # k, r.on # {}, task[l].on = r.on PROVE FALSE
    <3>1. PICK t \in Threads : r.on = {t} /\ Running(t) \subseteq {k}
      BY <2>3
    <3> QED
      BY <2>3, <3>1 DEF Running
  <2>4. ASSUME NEW l \in Tasks, NEW h \in Tasks, task'[l].on # {}, task'[l].on = task'[h].on PROVE l = h
    <3>1. CASE l = k
      BY <1>1, <2>3, <2>4, <3>1
    <3>2. CASE h = k
      BY <1>1, <2>3, <2>4, <3>2
    <3>3. CASE l # k /\ h # k
      BY <1>1, <2>4, <3>3 DEF SlotInv, Polled
    <3> QED
      BY <3>1, <3>2, <3>3
  <2> QED
    BY <2>1, <2>2, <2>4 DEF Polled
<1>5. Looked'
  <2> SUFFICES ASSUME NEW t \in Threads, look[t] = "global" PROVE Running(t)' = {} /\ guards[t] = <<>>
    BY DEF Looked
  <2>1. Running(t) = {} /\ guards[t] = <<>>
    BY DEF SlotInv, Looked
  <2>2. r.on # {t}
    OBVIOUS
  <2> QED
    BY <1>1, <2>1, <2>2 DEF Running
<1> QED
  BY <1>2, <1>3, <1>4, <1>5 DEF SlotInv

(* A task's scope opens with its first poll and is counted. *)
LEMMA TaskPolled ==
    ASSUME SlotInv, NEW t \in Threads, NEW k \in Tasks, NEW o \in Observers, Poll(t, k, o)
    PROVE  SlotInv'
<1>0. task[k] \in TaskRec /\ look[t] = "out" /\ Running(t) = {}
  BY DEF Poll, SlotInv, SlotType
<1>1. IsFiniteSet(LiveGuards) /\ IsFiniteSet(LiveScopes) /\ overrides \in Int
  BY DEF SlotInv, Counted, SlotType
<1>2. Cardinality(LiveGuards) \in Nat /\ Cardinality(LiveScopes) \in Nat
  BY <1>1, FS_CardinalityType
<1>3. LiveGuards' = LiveGuards
  BY DEF Poll, LiveGuards
<1>4. CASE task[k].state = "new" /\ overrides' = overrides + 1
           /\ task' = [task EXCEPT ![k] = [state |-> "scoped", obs |-> {o}, on |-> {t}]]
  <2> DEFINE r == [state |-> "scoped", obs |-> {o}, on |-> {t}]
  <2>1. r \in TaskRec /\ r.state = "scoped" /\ r.obs = {o} /\ r.on = {t}
    BY DEF TaskRec
  <2> HIDE DEF r
  <2>2. LiveScopes' = LiveScopes \union {k} /\ k \notin LiveScopes
    BY <1>4, <2>1 DEF LiveScopes, SlotInv, SlotType, r
  <2>3. IsFiniteSet(LiveScopes') /\ Cardinality(LiveScopes') = Cardinality(LiveScopes) + 1
    BY <1>1, <2>2, FS_AddElement
  <2>4. Counted'
    BY <1>1, <1>2, <1>3, <1>4, <2>3 DEF SlotInv, Counted
  <2>5. task' = [task EXCEPT ![k] = r] /\ overrides' \in Int
    BY <1>1, <1>4 DEF r
  <2>6. UNCHANGED <<global, slot, guards, look, emits, ring, meant, since>>
    BY DEF Poll
  <2> QED
    BY <1>0, <2>1, <2>4, <2>5, <2>6, TaskStep
<1>5. CASE task[k].state = "scoped" /\ overrides' = overrides /\ task' = [task EXCEPT ![k].on = {t}]
  <2> DEFINE r == [task[k] EXCEPT !.on = {t}]
  <2>1. r \in TaskRec /\ r.state = "scoped" /\ r.obs = task[k].obs /\ r.on = {t}
    BY <1>0, <1>5 DEF TaskRec
  <2>2. task' = [task EXCEPT ![k] = r] /\ overrides' \in Int
    BY <1>1, <1>5
  <2> HIDE DEF r
  <2>3. LiveScopes' = LiveScopes
    BY <1>5, <2>1, <2>2 DEF LiveScopes, SlotInv, SlotType
  <2>4. Counted'
    BY <1>3, <1>5, <2>3 DEF SlotInv, Counted
  <2>5. \E w \in Observers : r.obs = {w}
    BY <1>5, <2>1 DEF SlotInv, Polled
  <2>6. UNCHANGED <<global, slot, guards, look, emits, ring, meant, since>>
    BY DEF Poll
  <2> QED
    BY <1>0, <2>1, <2>2, <2>4, <2>5, <2>6, TaskStep
<1> QED
  BY <1>4, <1>5 DEF Poll

(* It closes when the task is ready, and the count goes down. *)
LEMMA TaskReady ==
    ASSUME SlotInv, NEW t \in Threads, NEW k \in Tasks, PollReady(t, k)
    PROVE  SlotInv'
<1>0. task[k] \in TaskRec /\ task[k].on # {} /\ task[k].state = "scoped"
  BY DEF PollReady, Running, SlotInv, SlotType, Polled
<1>1. IsFiniteSet(LiveGuards) /\ IsFiniteSet(LiveScopes) /\ overrides \in Int
  BY DEF SlotInv, Counted, SlotType
<1>2. Cardinality(LiveGuards) \in Nat /\ Cardinality(LiveScopes) \in Nat
  BY <1>1, FS_CardinalityType
<1>3. LiveGuards' = LiveGuards
  BY DEF PollReady, LiveGuards
<1> DEFINE r == [task[k] EXCEPT !.state = "done", !.on = {}]
<1>4. r \in TaskRec /\ r.state = "done" /\ r.on = {}
  BY <1>0 DEF TaskRec
<1>5. task' = [task EXCEPT ![k] = r] /\ overrides' = overrides - 1
  BY DEF PollReady
<1> HIDE DEF r
<1>6. LiveScopes' = LiveScopes \ {k} /\ k \in LiveScopes
  BY <1>0, <1>4, <1>5 DEF LiveScopes, SlotInv, SlotType
<1>7. IsFiniteSet(LiveScopes') /\ Cardinality(LiveScopes') = Cardinality(LiveScopes) - 1
  BY <1>1, <1>6, FS_RemoveElement
<1>8. Counted' /\ overrides' \in Int
  BY <1>1, <1>2, <1>3, <1>5, <1>7 DEF SlotInv, Counted
<1>9. UNCHANGED <<global, slot, guards, look, emits, ring, meant, since>>
  BY DEF PollReady
<1> QED
  BY <1>4, <1>5, <1>8, <1>9, TaskStep

LEMMA TaskPending ==
    ASSUME SlotInv, NEW t \in Threads, NEW k \in Tasks, PollPending(t, k)
    PROVE  SlotInv'
<1>0. task[k] \in TaskRec
  BY DEF SlotInv, SlotType
<1> DEFINE r == [task[k] EXCEPT !.on = {}]
<1>1. r \in TaskRec /\ r.state = task[k].state /\ r.obs = task[k].obs /\ r.on = {}
  BY <1>0 DEF TaskRec
<1>2. task' = [task EXCEPT ![k] = r]
  BY DEF PollPending
<1> HIDE DEF r
<1>3. LiveScopes' = LiveScopes /\ LiveGuards' = LiveGuards /\ overrides' = overrides
  BY <1>1, <1>2 DEF LiveScopes, LiveGuards, PollPending, SlotInv, SlotType
<1>4. Counted' /\ overrides' \in Int
  BY <1>3 DEF SlotInv, Counted, SlotType
<1>5. r.state = "scoped" => \E o \in Observers : r.obs = {o}
  BY <1>1 DEF SlotInv, Polled
<1>6. UNCHANGED <<global, slot, guards, look, emits, ring, meant, since>>
  BY DEF PollPending
<1> QED
  BY <1>1, <1>2, <1>4, <1>5, <1>6, TaskStep

(* A task dropped between polls is not counted down: the count stays an    *)
(* upper bound.                                                            *)
LEMMA TaskDropped ==
    ASSUME SlotInv, NEW k \in Tasks, DropTask(k)
    PROVE  SlotInv'
<1>0. task[k] \in TaskRec /\ task[k].on = {} /\ task[k].state = "scoped"
  BY DEF DropTask, SlotInv, SlotType
<1>1. IsFiniteSet(LiveGuards) /\ IsFiniteSet(LiveScopes) /\ overrides \in Int
  BY DEF SlotInv, Counted, SlotType
<1>2. Cardinality(LiveGuards) \in Nat /\ Cardinality(LiveScopes) \in Nat
  BY <1>1, FS_CardinalityType
<1> DEFINE r == [task[k] EXCEPT !.state = "done"]
<1>3. r \in TaskRec /\ r.state = "done" /\ r.on = {}
  BY <1>0 DEF TaskRec
<1>4. task' = [task EXCEPT ![k] = r] /\ overrides' = overrides /\ LiveGuards' = LiveGuards
  BY DEF DropTask, LiveGuards
<1> HIDE DEF r
<1>5. LiveScopes' = LiveScopes \ {k} /\ k \in LiveScopes
  BY <1>0, <1>3, <1>4 DEF LiveScopes, SlotInv, SlotType
<1>6. IsFiniteSet(LiveScopes') /\ Cardinality(LiveScopes') = Cardinality(LiveScopes) - 1
  BY <1>1, <1>5, FS_RemoveElement
<1>7. Counted' /\ overrides' \in Int
  BY <1>1, <1>2, <1>4, <1>6 DEF SlotInv, Counted
<1>8. UNCHANGED <<global, slot, guards, look, emits, ring, meant, since>>
  BY DEF DropTask
<1> QED
  BY <1>3, <1>4, <1>7, <1>8, TaskStep

(* A count of zero says that nothing overrides the global slot. *)
LEMMA CountLoaded ==
    ASSUME SlotInv, NEW t \in Threads, LoadCount(t)
    PROVE  SlotInv'
<1>1. UNCHANGED <<global, slot, guards, task, overrides, emits, ring, meant, since>>
  BY DEF LoadCount
<1>2. look' = [look EXCEPT ![t] = IF overrides = 0 THEN "global" ELSE "probe"]
  BY DEF LoadCount
<1>3. SlotType'
  BY <1>1, <1>2 DEF SlotInv, SlotType
<1>4. Restores' /\ Polled' /\ Counted' /\ Rings'
  BY <1>1 DEF SlotInv, Restores, Polled, Counted, LiveGuards, LiveScopes, Rings
<1>5. overrides = 0 => Running(t) = {} /\ guards[t] = <<>>
  <2> SUFFICES ASSUME overrides = 0 PROVE Running(t) = {} /\ guards[t] = <<>>
    OBVIOUS
  <2>1. IsFiniteSet(LiveGuards) /\ IsFiniteSet(LiveScopes)
    BY DEF SlotInv, Counted
  <2>2. Cardinality(LiveGuards) \in Nat /\ Cardinality(LiveScopes) \in Nat
    BY <2>1, FS_CardinalityType
  <2>3. Cardinality(LiveGuards) = 0 /\ Cardinality(LiveScopes) = 0
    BY <2>2 DEF SlotInv, Counted
  <2>4. LiveGuards = {} /\ LiveScopes = {}
    BY <2>1, <2>3, FS_EmptySet
  <2>5. Running(t) = {}
    BY <2>4 DEF Running, LiveScopes, SlotInv, Polled
  <2>6. ASSUME guards[t] # <<>> PROVE FALSE
    <3>1. guards[t] \in Seq(GuardRec)
      BY DEF SlotInv, SlotType
    <3>2. Len(guards[t]) \in Nat \ {0}
      BY <2>6, <3>1
    <3>3. <<t, 1>> \in LiveGuards
      BY <3>2 DEF LiveGuards
    <3> QED
      BY <2>4, <3>3
  <2> QED
    BY <2>5, <2>6
<1>6. Looked'
  <2> SUFFICES ASSUME NEW u \in Threads, look'[u] = "global" PROVE Running(u) = {} /\ guards[u] = <<>>
    BY <1>1 DEF Looked, Running
  <2>1. CASE u = t
    BY <1>2, <1>5, <2>1 DEF SlotInv, SlotType
  <2>2. CASE u # t
    BY <1>2, <2>2 DEF SlotInv, SlotType, Looked
  <2> QED
    BY <2>1, <2>2
<1> QED
  BY <1>3, <1>4, <1>6 DEF SlotInv

LEMMA Probed ==
    ASSUME SlotInv, NEW t \in Threads, Probe(t)
    PROVE  SlotInv'
<1> DEFINE found == IF Running(t) # {} THEN UNION {task[k].obs : k \in Running(t)} ELSE slot[t]
<1>1. CASE found # {}
  <2>1. PICK o \in found : Deliver(t, o)
    BY <1>1 DEF Probe
  <2>2. PICK w \in Observers : Wanted(t) = {w}
    BY WantedIsOne
  <2>3. found = Wanted(t)
    BY <1>1, WantedIsOne
  <2>4. o = w
    BY <2>2, <2>3
  <2> QED
    BY <2>1, <2>2, <2>4, DeliverInv
<1>2. CASE found = {}
  <2>1. /\ look' = [look EXCEPT ![t] = "global"]
        /\ UNCHANGED <<global, slot, guards, task, overrides, emits, ring, meant, since>>
    BY <1>2 DEF Probe
  <2>2. Running(t) = {} /\ slot[t] = {}
    <3>1. Wanted(t) # {}
      BY WantedIsOne
    <3> QED
      BY <1>2, <3>1, WantedIsOne
  <2>3. guards[t] = <<>>
    BY <2>2 DEF SlotInv, Restores, Nested
  <2>4. SlotType'
    BY <2>1 DEF SlotInv, SlotType
  <2>5. Restores' /\ Polled' /\ Counted' /\ Rings'
    BY <2>1 DEF SlotInv, Restores, Polled, Counted, LiveGuards, LiveScopes, Rings
  <2>6. Looked'
    BY <2>1, <2>2, <2>3 DEF SlotInv, SlotType, Looked, Running
  <2> QED
    BY <2>4, <2>5, <2>6 DEF SlotInv
<1> QED
  BY <1>1, <1>2

(* What touches no slot, guard, task or look-up keeps the slots in order.  *)
LEMMA SlotsKept ==
    ASSUME SlotInv, UNCHANGED <<slot, guards, task, overrides, look>>
    PROVE  Restores' /\ Polled' /\ Looked' /\ Counted'
<1>1. Restores' /\ Polled' /\ Counted'
  BY DEF SlotInv, Restores, Polled, Counted, LiveGuards, LiveScopes
<1>2. Looked'
  BY DEF SlotInv, Looked, Running
<1> QED
  BY <1>1, <1>2

LEMMA SlotNextInv == SlotInv /\ [SlotNext]_slotVars => SlotInv'
<1> SUFFICES ASSUME SlotInv, [SlotNext]_slotVars PROVE SlotInv'
  OBVIOUS
<1>1. ASSUME NEW o \in Observers, InstallObserver(o) PROVE SlotInv'
  <2>1. Restores' /\ Polled' /\ Looked' /\ Counted'
    BY <1>1, SlotsKept DEF InstallObserver
  <2>2. SlotType' /\ Rings'
    BY <1>1 DEF InstallObserver, SlotInv, SlotType, Rings
  <2> QED
    BY <2>1, <2>2 DEF SlotInv
<1>2. ASSUME NEW o \in Observers, Drain(o) PROVE SlotInv'
  <2>1. /\ ring' = [ring EXCEPT ![o] = <<>>] /\ since' = [since EXCEPT ![o] = Len(meant[o])]
        /\ UNCHANGED <<global, slot, guards, task, overrides, look, emits, meant>>
    BY <1>2 DEF Drain
  <2>2. meant[o] \in Seq(Nat) /\ Len(meant[o]) \in Nat
    BY DEF SlotInv, SlotType
  <2>3. SlotType'
    BY <2>1, <2>2 DEF SlotInv, SlotType
  <2>4. Restores' /\ Polled' /\ Looked' /\ Counted'
    BY <2>1, SlotsKept
  <2>5. Youngest(<<>>, meant[o], Len(meant[o]))
    BY <2>2, SlotAssumption DEF Youngest, Aligned, Kept
  <2>6. Rings'
    <3> SUFFICES ASSUME NEW w \in Observers PROVE Youngest(ring'[w], meant'[w], since'[w])
      BY DEF Rings, Youngest, Aligned, Kept
    <3>1. CASE w = o
      BY <2>1, <2>5, <3>1 DEF SlotInv, SlotType
    <3>2. CASE w # o
      BY <2>1, <3>2 DEF SlotInv, SlotType, Rings
    <3> QED
      BY <3>1, <3>2
  <2> QED
    BY <2>3, <2>4, <2>6 DEF SlotInv
<1>3. ASSUME NEW t \in Threads, LoadGlobal(t) PROVE SlotInv'
  <2>1. global \in Observers /\ Wanted(t) = {global} /\ Deliver(t, global)
    BY <1>3, WantedIsOne DEF LoadGlobal, SlotInv, SlotType
  <2> QED
    BY <2>1, DeliverInv
<1>4. CASE UNCHANGED slotVars
  <2>1. Restores' /\ Polled' /\ Looked' /\ Counted'
    BY <1>4, SlotsKept DEF slotVars
  <2>2. SlotType' /\ Rings'
    BY <1>4 DEF slotVars, SlotInv, SlotType, Rings
  <2> QED
    BY <2>1, <2>2 DEF SlotInv
<1> QED
  BY <1>1, <1>2, <1>3, <1>4, GuardTaken, GuardDropped, TaskPolled, TaskReady, TaskPending, TaskDropped,
     CountLoaded, Probed DEF SlotNext

(* observer() finds the innermost override: for any threads, tasks and     *)
(* observers, however guards, polls, dropped futures and emits interleave, *)
(* the ring of an in-memory observer holds the youngest of exactly the     *)
(* emits made under it since it was drained.                               *)
THEOREM OverrideIsSeen == SlotSpec => []OverrideSeen
<1>1. SlotInv => OverrideSeen
  <2> SUFFICES ASSUME SlotInv, NEW o \in Observers
               PROVE  LET fresh == SubSeq(meant[o], since[o] + 1, Len(meant[o]))
                          kept == IF Len(fresh) > RingCap THEN RingCap ELSE Len(fresh)
                      IN ring[o] = SubSeq(fresh, Len(fresh) - kept + 1, Len(fresh))
    BY DEF OverrideSeen
  <2>1. /\ ring[o] \in Seq(Nat) /\ meant[o] \in Seq(Nat) /\ since[o] \in Nat
        /\ Youngest(ring[o], meant[o], since[o])
    BY DEF SlotInv, SlotType, Rings
  <2> QED
    BY <2>1, YoungestReads
<1> QED
  BY <1>1, SlotInitInv, SlotNextInv, PTL DEF SlotSpec

-------------------------------------------------------------------------------
(* The filter.                                                             *)

(* Every static directive has a target, of at least one segment. *)
StaticDirective == [target : Target, fields : {{}}, level : Level \union {Trace}, off : BOOLEAN]
Targeted == statics \in Seq(StaticDirective)

(* The parser leaves a directive without a target only when it is a bare   *)
(* level or off.                                                           *)
LEMMA ParsedTarget ==
    ASSUME NEW raw \in Raw, NEW d, d = ParseDirective(raw), d.target # NoTarget, d.fields = {}
    PROVE  d \in StaticDirective
<1>1. /\ raw.word \in Target \union {NoTarget} /\ raw.level \in Level
      /\ raw.word \in DOMAIN LevelOf => LevelOf[raw.word] \in Level
  BY FilterAssumption DEF Raw
<1>2. CASE Bare(raw) /\ (raw.word = OffWord \/ raw.word \in DOMAIN LevelOf)
  <2>1. d.target = NoTarget
    BY <1>2 DEF ParseDirective, Directive
  <2> QED
    BY <2>1
<1>3. CASE ~(Bare(raw) /\ (raw.word = OffWord \/ raw.word \in DOMAIN LevelOf))
  <2> DEFINE fs == IF raw.block = "ok" THEN raw.fields ELSE {}
             lv == IF raw.set = "level" THEN raw.level ELSE Trace
             off == raw.set = "off"
  <2>1. d = Directive(raw.word, fs, lv, off)
    BY <1>3 DEF ParseDirective
  <2>2. lv \in Level \union {Trace} /\ off \in BOOLEAN
    BY <1>1
  <2> HIDE DEF fs, lv, off
  <2>3. d.target = raw.word /\ d.fields = fs
    BY <2>1 DEF Directive
  <2>4. raw.word \in Target /\ fs = {}
    BY <1>1, <2>3
  <2>5. d = [target |-> raw.word, fields |-> {}, level |-> lv, off |-> off]
    BY <2>1, <2>4 DEF Directive
  <2> QED
    BY <2>2, <2>4, <2>5 DEF StaticDirective
<1> QED
  BY <1>2, <1>3

LEMMA FilterTargeted == FilterBehaviour => []Targeted
<1>1. FilterInit => Targeted
  BY DEF FilterInit, Targeted
<1>2. Targeted /\ [FilterNext]_filterVars => Targeted'
  <2> SUFFICES ASSUME Targeted, [FilterNext]_filterVars PROVE Targeted'
    OBVIOUS
  <2>1. ASSUME NEW raw \in Raw, AddStatic(ParseDirective(raw)) PROVE Targeted'
    <3> DEFINE d == ParseDirective(raw)
    <3>1. d \in StaticDirective
      BY <2>1, ParsedTarget DEF AddStatic
    <3>2. statics' = Append(statics, d)
      BY <2>1 DEF AddStatic
    <3> HIDE DEF d
    <3> QED
      BY <3>1, <3>2 DEF Targeted
  <2>2. ASSUME UNCHANGED statics PROVE Targeted'
    BY <2>2 DEF Targeted
  <2> QED
    BY <2>1, <2>2 DEF FilterNext, Refuse, AddBare, AddDynamic, filterVars
<1> QED
  BY <1>1, <1>2, PTL DEF FilterBehaviour

(* A filter without a directive for the module answers alike with the      *)
(* module and without.                                                     *)
LEMMA ModuleMakesNoDifference ==
    ASSUME Targeted, NEW full, NEW module, \A i \in DOMAIN statics : ~IsPrefix(statics[i].target, module)
    PROVE  StaticLevelFor(full, module) = StaticLevelFor(full, NoModule)
<1>1. ASSUME NEW i \in DOMAIN statics
      PROVE  Matches(statics[i], full, module) <=> Matches(statics[i], full, NoModule)
  <2>1. statics[i] \in StaticDirective
    BY DEF Targeted
  <2>2. statics[i].target \in Seq(STRING) /\ statics[i].target # <<>>
    BY <2>1, FilterAssumption DEF StaticDirective
  <2>3. Len(statics[i].target) \in Nat \ {0}
    BY <2>2, EmptySeq, LenProperties
  <2>4. ~IsPrefix(statics[i].target, NoModule)
    BY <2>3 DEF IsPrefix, NoModule
  <2> QED
    BY <2>4 DEF Matches
<1>2. {i \in DOMAIN statics : Matches(statics[i], full, module)}
        = {i \in DOMAIN statics : Matches(statics[i], full, NoModule)}
  BY <1>1
<1> QED
  BY <1>2 DEF StaticLevelFor

(* callsite_interest and event_allowed agree, for any filter text without  *)
(* a directive for the callsite's module: what is cached as Always passes  *)
(* the per-event check, and what is cached as Never would have failed it.  *)
THEOREM FilterStagesAgree == FilterBehaviour => []StagesAgree
<1>1. Targeted => StagesAgree
  <2> SUFFICES ASSUME Targeted, NEW c \in Callsite,
                      \A i \in DOMAIN statics : ~IsPrefix(statics[i].target, c.module)
               PROVE  /\ CallsiteInterest(c) = "Always" => \A l \in Labels : EventAllowed(c.full, l, c.sev)
                      /\ CallsiteInterest(c) = "Never" => \A l \in Labels : ~EventAllowed(c.full, l, c.sev)
    BY DEF StagesAgree
  <2>1. StaticLevelFor(c.full, c.module) = StaticLevelFor(c.full, NoModule)
    BY ModuleMakesNoDifference
  <2>2. CASE HasDynamicFor(c.full)
    BY <2>2 DEF CallsiteInterest
  <2>3. CASE ~HasDynamicFor(c.full)
    <3>1. \A l \in Labels : EventAllowed(c.full, l, c.sev) <=> ~Blocks(StaticLevelFor(c.full, NoModule), c.sev)
      BY <2>3 DEF EventAllowed, Deciding
    <3>2. CallsiteInterest(c) = IF Blocks(StaticLevelFor(c.full, NoModule), c.sev) THEN "Never" ELSE "Always"
      BY <2>1, <2>3 DEF CallsiteInterest
    <3> QED
      BY <3>1, <3>2
  <2> QED
    BY <2>2, <2>3
<1> QED
  BY <1>1, FilterTargeted, PTL
===============================================================================
