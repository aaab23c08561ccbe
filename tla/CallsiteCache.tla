---------------------------- MODULE CallsiteCache -----------------------------
(* The Interest cache of one static callsite (callsite.rs), the emit path  *)
(* through it (emit.rs), the re-entry guard around emit_envelope           *)
(* (observer/mod.rs) and the reloads that make the cache stale             *)
(* (observer/standard.rs).                                                 *)
(*                                                                         *)
(* The cache is two atomics, interest and cached_gen, read and written     *)
(* with Ordering::Relaxed: each access is a step, and the two accesses of  *)
(* one emit take effect in either order.                                   *)
EXTENDS Integers, FiniteSets

CONSTANTS
    Thread,       \* threads that emit through the callsite
    Reloader,     \* threads that call reload_config
    Std,          \* StandardObservers
    Noop,         \* the NoopObserver
    MaxReloads    \* bound on the generation bumps

ASSUME CallsiteAssumption == Noop \notin Std /\ MaxReloads \in Nat

Observer == Std \union {Noop}

VARIABLES
    interest,     \* ObsCallsite::interest
    cached_gen,   \* ObsCallsite::cached_gen
    by,           \* ghost: which answer was stored, in each of the two
    gen,          \* Observer::generation
    allow,        \* does the observer's filter allow the callsite
    reload,       \* reload_config, per reloader
    emit,         \* emit_one, per thread
    can_enter,    \* CAN_ENTER, per thread
    panicked,     \* ghost: a panic unwound out of emit_envelope on the thread
    valid         \* ghost: filter answers in force since the emit began

vars == <<interest, cached_gen, by, gen, allow, reload, emit, can_enter, panicked, valid>>
cacheVars == <<interest, cached_gen, by>>
obsVars == <<gen, allow, reload>>

Unread == -1

(* An answer: the observer that gave it, the generation read before, and     *)
(* what it was.                                                              *)
Answer(o, cur, ok) == [obs |-> o, cur |-> cur, ok |-> ok]
NoAnswer == Answer(Noop, 0, FALSE)

(* A thread outside emit_one, and a reloader outside reload_config. *)
Resting(at) == [at |-> at, obs |-> Noop, cur |-> 0, cg |-> Unread, ci |-> "unread",
                gen |-> NoAnswer, interest |-> NoAnswer, ok |-> FALSE, left |-> {}, nested |-> FALSE]
NoReload == [at |-> "idle", obs |-> Noop, old |-> FALSE]

Init ==
    /\ interest = "Unknown"
    /\ cached_gen = 0
    /\ by = [interest |-> NoAnswer, gen |-> NoAnswer]
    /\ gen = [o \in Observer |-> IF o = Noop THEN 0 ELSE 1]
    /\ allow \in {f \in [Observer -> BOOLEAN] : ~f[Noop]}
    /\ reload = [r \in Reloader |-> NoReload]
    /\ emit = [t \in Thread |-> Resting("idle")]
    /\ can_enter = [t \in Thread |-> TRUE]
    /\ panicked = [t \in Thread |-> FALSE]
    /\ valid = [t \in Thread |-> {}]

-------------------------------------------------------------------------------
(* emit_one.                                                               *)

(* The answers an emit that begins now may be given: the filter's, and the *)
(* one it gave before a reload that has not yet bumped the generation.     *)
InForce(o) ==
    {allow[o]} \union
    {reload[r].old : r \in {s \in Reloader : reload[s].at = "bump" /\ reload[s].obs = o}}

(* observer(): inside emit_envelope the NoopObserver, otherwise whichever  *)
(* of the task, thread and global slots is filled.                         *)
Resolves(t) == IF can_enter[t] THEN Observer ELSE {Noop}

(* An emit starts at the top of a thread or inside emit_envelope (a sink   *)
(* or a self-event that emits); it resolves the observer and its generation. *)
Begin(t, o) ==
    /\ emit[t].at \in {"idle", "inside"}
    /\ o \in Resolves(t)
    /\ emit' = [emit EXCEPT ![t] = [Resting("load") EXCEPT
                    !.obs = o, !.cur = gen[o], !.nested = (emit[t].at = "inside")]]
    /\ valid' = [valid EXCEPT ![t] = InForce(o)]
    /\ UNCHANGED <<cacheVars, obsVars, can_enter, panicked>>

(* ObsCallsite::enabled loads the two atomics. *)
LoadGen(t) ==
    /\ emit[t].at = "load" /\ emit[t].cg = Unread
    /\ emit' = [emit EXCEPT ![t].cg = cached_gen, ![t].gen = by.gen]
    /\ UNCHANGED <<cacheVars, obsVars, can_enter, panicked, valid>>

LoadInterest(t) ==
    /\ emit[t].at = "load" /\ emit[t].ci = "unread"
    /\ emit' = [emit EXCEPT ![t].ci = interest, ![t].interest = by.interest]
    /\ UNCHANGED <<cacheVars, obsVars, can_enter, panicked, valid>>

(* Mutant of Stale: the generation is not compared. *)
StaleNever(e) == e.ci = "Unknown"

(* EnabledOutcome::ReProbe. *)
Stale(e) == e.cg # e.cur \/ e.ci = "Unknown"

(* Both values are read: the cached answer decides, or the observer is     *)
(* asked and its answer is to be cached under the generation read first.   *)
Decide(t) ==
    LET e == emit[t]
        own == Answer(e.obs, e.cur, allow[e.obs])
    IN /\ e.at = "load" /\ e.cg # Unread /\ e.ci # "unread"
       /\ emit' = [emit EXCEPT ![t] =
                     IF Stale(e)
                       THEN [e EXCEPT !.at = "store", !.left = {"interest", "gen"}, !.cg = Unread, !.ci = "unread",
                                      !.ok = own.ok, !.gen = own, !.interest = own]
                       ELSE [e EXCEPT !.at = "act", !.cg = Unread, !.ci = "unread", !.ok = (e.ci = "Always")]]
       /\ UNCHANGED <<cacheVars, obsVars, can_enter, panicked, valid>>

(* Mutant of CachedGen: the generation is read again when it is stored. *)
CachedGenReread(t) == gen[emit[t].obs]

(* Mutant of CachedGen: the next generation is stored. *)
CachedGenAhead(t) == gen[emit[t].obs] + 1

CachedGen(t) == emit[t].cur

(* ObsCallsite::cache stores the two atomics. *)
Store(t, what) ==
    /\ emit[t].at = "store"
    /\ what \in emit[t].left
    /\ IF what = "interest"
         THEN /\ interest' = IF emit[t].ok THEN "Always" ELSE "Never"
              /\ by' = [by EXCEPT !.interest = emit[t].interest]
              /\ UNCHANGED cached_gen
         ELSE /\ cached_gen' = CachedGen(t)
              /\ by' = [by EXCEPT !.gen = emit[t].gen]
              /\ UNCHANGED interest
    /\ emit' = [emit EXCEPT ![t] = [@ EXCEPT !.left = emit[t].left \ {what},
                      !.at = IF emit[t].left = {what} THEN "act" ELSE "store"]]
    /\ UNCHANGED <<obsVars, can_enter, panicked, valid>>

(* Not permitted, or enter_emit_envelope finds the guard taken: the emit   *)
(* ends.  Otherwise the thread enters the observer with the guard held.    *)
Act(t) ==
    /\ emit[t].at = "act"
    /\ IF emit[t].ok /\ can_enter[t]
         THEN /\ emit' = [emit EXCEPT ![t] = Resting("inside")]
              /\ can_enter' = [can_enter EXCEPT ![t] = FALSE]
         ELSE /\ emit' = [emit EXCEPT ![t] = Resting(IF emit[t].nested THEN "inside" ELSE "idle")]
              /\ UNCHANGED can_enter
    /\ valid' = [valid EXCEPT ![t] = {}]
    /\ UNCHANGED <<cacheVars, obsVars, panicked>>

(* Mutant of Return: the guard is not restored. *)
ReturnHolding(t) ==
    /\ emit[t].at = "inside"
    /\ emit' = [emit EXCEPT ![t] = Resting("idle")]
    /\ UNCHANGED <<cacheVars, obsVars, can_enter, panicked, valid>>

(* emit_envelope returns and the guard is restored. *)
Return(t) ==
    /\ emit[t].at = "inside"
    /\ emit' = [emit EXCEPT ![t] = Resting("idle")]
    /\ can_enter' = [can_enter EXCEPT ![t] = TRUE]
    /\ UNCHANGED <<cacheVars, obsVars, panicked, valid>>

(* emit_envelope panics (audit.on_failure = panic, or a sink) and the      *)
(* thread survives: the guard is not restored.                             *)
Panic(t) ==
    /\ emit[t].at = "inside"
    /\ emit' = [emit EXCEPT ![t] = Resting("idle")]
    /\ panicked' = [panicked EXCEPT ![t] = TRUE]
    /\ UNCHANGED <<cacheVars, obsVars, can_enter, valid>>

-------------------------------------------------------------------------------
(* reload_config: first the filter is replaced, then the generation bumped. *)

Bumps(o) == /\ gen[o] <= MaxReloads
            /\ gen' = [gen EXCEPT ![o] = @ + 1]

StoreFilter(r, o, ok) ==
    /\ reload[r].at = "idle"
    /\ gen[o] + Cardinality({s \in Reloader : reload[s].at = "bump"}) <= MaxReloads
    /\ allow' = [allow EXCEPT ![o] = ok]
    /\ reload' = [reload EXCEPT ![r] = [at |-> "bump", obs |-> o, old |-> allow[o]]]
    /\ valid' = [t \in Thread |->
                   IF emit[t].at \in {"load", "store", "act"} /\ emit[t].obs = o
                     THEN valid[t] \union {ok} ELSE valid[t]]
    /\ UNCHANGED <<cacheVars, gen, emit, can_enter, panicked>>

BumpGeneration(r) ==
    /\ reload[r].at = "bump"
    /\ Bumps(reload[r].obs)
    /\ reload' = [reload EXCEPT ![r] = NoReload]
    /\ UNCHANGED <<cacheVars, allow, emit, can_enter, panicked, valid>>

(* reload_filter() only bumps the generation. *)
ReloadFilter(o) ==
    /\ gen[o] + Cardinality({s \in Reloader : reload[s].at = "bump"}) <= MaxReloads
    /\ Bumps(o)
    /\ UNCHANGED <<cacheVars, allow, reload, emit, can_enter, panicked, valid>>

-------------------------------------------------------------------------------
EmitStep(t) ==
    \/ \E o \in Observer : Begin(t, o)
    \/ LoadGen(t) \/ LoadInterest(t) \/ Decide(t)
    \/ \E what \in {"interest", "gen"} : Store(t, what)
    \/ Act(t) \/ Return(t) \/ Panic(t)

Next ==
    \/ \E t \in Thread : EmitStep(t)
    \/ \E r \in Reloader, o \in Std, ok \in BOOLEAN : StoreFilter(r, o, ok)
    \/ \E r \in Reloader : BumpGeneration(r)
    \/ \E o \in Std : ReloadFilter(o)

Spec == Init /\ [][Next]_vars

-------------------------------------------------------------------------------
Interests == {"Unknown", "Never", "Sometimes", "Always"}

(* The type invariant.  No callsite is cached under a generation that its  *)
(* observers have not reached.                                             *)
TypeOK ==
    /\ interest \in Interests
    /\ \E o \in Observer : cached_gen \in 0..gen[o]
    /\ gen \in [Observer -> 0..(MaxReloads + 1)]
    /\ allow \in [Observer -> BOOLEAN]
    /\ \A t \in Thread :
         /\ emit[t].at \in {"idle", "load", "store", "act", "inside"}
         /\ can_enter[t] \in BOOLEAN /\ panicked[t] \in BOOLEAN
         /\ valid[t] \subseteq BOOLEAN
    /\ \A r \in Reloader : reload[r].at \in {"idle", "bump"}

(* The two atomics an emit or the cache holds are of one answer of o. *)
Whole(pair, o) == pair.interest = pair.gen /\ pair.gen.obs = o

(* An emit is permitted or refused as the observer's filter answered at      *)
(* some moment since the emit began, so that the first emit after a reload   *)
(* already follows it, whatever the threads did to the cache before.  Only   *)
(* an emit that trusted the halves of two answers, or the answer of another  *)
(* observer under the same generation, may be wrong.                         *)
DecisionIsCurrent ==
    \A t \in Thread : emit[t].at = "act" /\ Whole(emit[t], emit[t].obs) => emit[t].ok \in valid[t]

(* With all emits and reloads at rest, an answer cached under the current    *)
(* generation is the filter's own, and no later emit is suppressed by        *)
(* mistake, unless the cache was left with the halves of two answers.        *)
CacheAgrees ==
    (/\ \A t \in Thread : emit[t].at \in {"idle", "inside"}
     /\ \A r \in Reloader : reload[r].at = "idle") =>
      \A o \in Std : Whole(by, o) /\ cached_gen = gen[o] /\ interest # "Unknown" =>
        interest = (IF allow[o] THEN "Always" ELSE "Never")

(* A thread is inside at most one emit_envelope, and outside it holds no   *)
(* re-entry guard, unless a panic unwound through one.                     *)
GuardIsBalanced ==
    \A t \in Thread : ~panicked[t] =>
      (can_enter[t] <=> ~(emit[t].at = "inside" \/ emit[t].nested))
===============================================================================
