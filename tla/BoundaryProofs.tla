---------------------------- MODULE BoundaryProofs ----------------------------
(* Theorems about the edges of the library: start-up, for any number of    *)
(* install() calls, plans and file contents; HTTP trace context, for any   *)
(* number of threads and calls; and the tracing bridge, for any set-up of  *)
(* the two directions and any number of threads, callsites and spans.      *)
EXTENDS Startup, HttpTrace, TracingBridge, SequenceLemmas, FiniteSetTheorems,
        SequenceTheorems, TLAPS

-------------------------------------------------------------------------------
(* Start-up.                                                               *)

BootRec ==
    [at : {"new", "build", "hook", "bridge", "sighup", "guard", "dropped", "failed"},
     plan : Plan, cfg : Settings, error : {"none", "read", "parse", "config", "spool", "bridge"}]

Slots == [Tiers -> {"none", "own", "compact", "fallback"}]

ObserverRec ==
    [kind : {"none", "memory", "standard"}, cfg : Settings, filter : {"unset", "good", "bad"},
     router : Slots, workers : Slots, spool : BOOLEAN,
     resource : {"none", "builder", "env", "attributes"}, up : BOOLEAN]

StartType ==
    /\ file \in Text
    /\ environ \in Environment
    /\ boot \in [Boot -> BootRec]
    /\ observer \in [Boot -> ObserverRec]
    /\ global \in Boot \union {"noop"}
    /\ reloads \in Nat

(* What InstalledIsSound says of one observer. *)
SoundObserver(o) ==
    o.kind = "standard" =>
        /\ o.cfg.ranges = "ok"
        /\ o.filter # "bad"
        /\ \A t \in Tiers : o.workers[t] \in {"none", ForTier(o.router, t)}
        /\ o.workers["Audit"] # "none" => o.spool

(* An install() that has not come to step 2, or has failed there or        *)
(* before, has no observer and is not the global one.                      *)
Early(i) == i.at \in {"new", "build"} \/ (i.at = "failed" /\ i.error # "bridge")

StartInv ==
    /\ StartType
    /\ \A b \in Boot : SoundObserver(observer[b])
    /\ \A b \in Boot : Early(boot[b]) => observer[b] = NoObserver /\ global # b

LEMMA SettingsTyped ==
    /\ Default \in Settings
    /\ NoObserver \in ObserverRec /\ NoObserver.kind = "none"
    /\ \A c \in Settings, f \in {"unset", "good", "bad"} : [c EXCEPT !.filter = f] \in Settings
    /\ \A c \in Settings, d \in BOOLEAN : [c EXCEPT !.dev = d] \in Settings
<1>1. Default \in Settings
  BY DEF Default, Settings
<1>2. NoObserver \in ObserverRec /\ NoObserver.kind = "none"
  BY <1>1 DEF NoObserver, ObserverRec, Slots
<1>3. \A c \in Settings, f \in {"unset", "good", "bad"} : [c EXCEPT !.filter = f] \in Settings
  BY DEF Settings
<1>4. \A c \in Settings, d \in BOOLEAN : [c EXCEPT !.dev = d] \in Settings
  BY DEF Settings
<1> QED
  BY <1>1, <1>2, <1>3, <1>4

(* What config.rs makes of the file and of the environment are settings.   *)
LEMMA ReadTyped ==
    ASSUME StartType
    PROVE  /\ Expanded(file) \in Settings
           /\ \A c \in Settings : WithDev(c) \in Settings
           /\ \A c \in Settings : MergedWithEnv(c) \in Settings
<1>1. file.holds \in Settings /\ environ.filter \in {"unset", "good", "bad"} /\ environ.dev \in BOOLEAN
  BY StartupAssumption DEF StartType
<1>2. Expanded(file) \in Settings
  <2> DEFINE f == IF environ.filter # "unset" THEN environ.filter
                  ELSE IF file.placeholder = "default" THEN "good" ELSE "bad"
  <2>1. f \in {"unset", "good", "bad"}
    BY <1>1
  <2>2. Expanded(file) = IF file.placeholder = "none" THEN file.holds ELSE [file.holds EXCEPT !.filter = f]
    BY DEF Expanded
  <2> HIDE DEF f
  <2> QED
    BY <1>1, <2>1, <2>2, SettingsTyped
<1>3. ASSUME NEW c \in Settings PROVE WithDev(c) \in Settings
  <2> DEFINE d == c.dev \/ environ.dev
  <2>1. WithDev(c) = [c EXCEPT !.dev = d] /\ d \in BOOLEAN
    BY DEF WithDev
  <2> HIDE DEF d
  <2> QED
    BY <2>1, SettingsTyped
<1>4. ASSUME NEW c \in Settings PROVE MergedWithEnv(c) \in Settings
  <2> DEFINE d == c.dev \/ environ.dev
             f == IF environ.filter = "unset" THEN c.filter ELSE environ.filter
             x == [c EXCEPT !.dev = d]
  <2>1. d \in BOOLEAN
    OBVIOUS
  <2>2. f \in {"unset", "good", "bad"}
    BY <1>1 DEF Settings
  <2>3. x \in Settings /\ x.filter = c.filter
    <3> HIDE DEF d
    <3> QED
      BY <2>1, SettingsTyped DEF Settings
  <2>4. MergedWithEnv(c) = IF environ.unknown THEN c ELSE [x EXCEPT !.filter = f]
    BY DEF MergedWithEnv, Settings
  <2> HIDE DEF x, f
  <2> QED
    BY <2>2, <2>3, <2>4, SettingsTyped
<1> QED
  BY <1>2, <1>3, <1>4

(* The observer build returns is sound when build does not refuse. *)
LEMMA BuiltIsSound ==
    ASSUME StartType, NEW plan \in Plan, NEW cfg \in Settings, BuildError(plan, cfg) = "none"
    PROVE  Built(plan, cfg) \in ObserverRec /\ SoundObserver(Built(plan, cfg))
<1> DEFINE router == SinkSlots(plan)
           workers == SpawnPool(router)
           has == router["Audit"] # "none"
           o == [kind |-> "standard", cfg |-> cfg, filter |-> FilterSpec(cfg), router |-> router,
                 workers |-> workers, spool |-> has, resource |-> ResourceName, up |-> TRUE]
<1>1. Built(plan, cfg) = o
  BY DEF Built
<1>2. router \in [Tiers -> {"none", "own", "compact"}]
  BY DEF SinkSlots
<1> HIDE DEF router
<1>3. \A t \in Tiers : ForTier(router, t) \in {"own", "compact", "fallback"}
  BY <1>2 DEF ForTier
<1>4. /\ workers \in Slots /\ router \in Slots
      /\ \A t \in Tiers : workers[t] \in {"none", ForTier(router, t)}
      /\ workers["Audit"] = router["Audit"]
  <2>1. \A t \in Tiers : workers[t] = IF t = "Audit" THEN router[t] ELSE ForTier(router, t)
    BY DEF SpawnPool
  <2>2. "Audit" \in Tiers
    BY DEF Tiers
  <2>3. router["Audit"] \in {"none", ForTier(router, "Audit")}
    BY <1>2, <2>2 DEF ForTier
  <2> QED
    BY <1>2, <1>3, <2>1, <2>2, <2>3 DEF Slots, SpawnPool
<1>5. has \in BOOLEAN /\ (workers["Audit"] # "none" => has)
  BY <1>4
<1>6. cfg.ranges = "ok" /\ FilterSpec(cfg) # "bad" /\ FilterSpec(cfg) \in {"unset", "good", "bad"}
  <2>1. Valid(cfg) /\ FilterSpec(cfg) # "bad"
    BY DEF BuildError
  <2>2. environ.filter \in {"unset", "good", "bad"}
    BY StartupAssumption DEF StartType
  <2> QED
    BY <2>1, <2>2 DEF Valid, FilterSpec, Settings
<1>7. ResourceName \in {"none", "builder", "env", "attributes"}
  BY StartupAssumption DEF ResourceName, StartType
<1> HIDE DEF has, workers
<1>8. o \in ObserverRec
  BY <1>4, <1>5, <1>6, <1>7 DEF ObserverRec
<1>9. SoundObserver(o)
  BY <1>4, <1>5, <1>6 DEF SoundObserver
<1> QED
  BY <1>1, <1>8, <1>9

LEMMA StartInitInv == StartInit => StartInv
<1> SUFFICES ASSUME StartInit PROVE StartInv
  OBVIOUS
<1>1. ASSUME NEW b \in Boot PROVE boot[b] \in BootRec
  <2>1. PICK p \in Plan : boot[b] = [at |-> "new", plan |-> p, cfg |-> Default, error |-> "none"]
    BY DEF StartInit
  <2> QED
    BY <2>1, SettingsTyped DEF BootRec
<1>2. boot \in [Boot -> BootRec]
  BY <1>1 DEF StartInit
<1>3. StartType
  BY <1>2, SettingsTyped DEF StartInit, StartType
<1>4. \A b \in Boot : observer[b] = NoObserver /\ SoundObserver(NoObserver)
  BY SettingsTyped DEF StartInit, SoundObserver
<1>5. \A b \in Boot : global # b
  BY StartupAssumption DEF StartInit
<1> QED
  BY <1>3, <1>4, <1>5 DEF StartInv

(* A step of an install() that makes no observer. *)
LEMMA InstallGoesOn ==
    ASSUME StartInv, NEW b \in Boot, NEW i \in BootRec, boot' = [boot EXCEPT ![b] = i],
           Early(i) => Early(boot[b]), UNCHANGED <<file, environ, observer, global, reloads>>
    PROVE  StartInv'
<1>1. boot'[b] = i /\ \A c \in Boot : c # b => boot'[c] = boot[c]
  BY DEF StartInv, StartType
<1>2. StartType'
  BY DEF StartInv, StartType
<1>3. \A c \in Boot : Early(boot'[c]) => Early(boot[c])
  BY <1>1
<1> QED
  BY <1>2, <1>3 DEF StartInv, SoundObserver, ForTier, Early

LEMMA ShutDownInv ==
    ASSUME StartInv, ShutDownGlobal, UNCHANGED <<file, environ, global, reloads>>,
           boot' \in [Boot -> BootRec], \A c \in Boot : Early(boot'[c]) => Early(boot[c])
    PROVE  StartInv'
<1>1. \A b \in Boot : observer'[b] = IF b = global THEN [observer[b] EXCEPT !.up = FALSE] ELSE observer[b]
  BY DEF ShutDownGlobal, StartInv, StartType
<1>2. \A b \in Boot : LET o == [observer[b] EXCEPT !.up = FALSE]
                      IN o \in ObserverRec /\ SoundObserver(o)
  <2> SUFFICES ASSUME NEW b \in Boot
               PROVE  LET o == [observer[b] EXCEPT !.up = FALSE]
                      IN o \in ObserverRec /\ SoundObserver(o)
    OBVIOUS
  <2> DEFINE x == observer[b]
             o == [x EXCEPT !.up = FALSE]
  <2>1. x \in ObserverRec /\ SoundObserver(x)
    BY DEF StartInv, StartType
  <2> HIDE DEF x
  <2>2. /\ o \in ObserverRec /\ o.kind = x.kind /\ o.cfg = x.cfg /\ o.filter = x.filter
        /\ o.router = x.router /\ o.workers = x.workers /\ o.spool = x.spool
    BY <2>1 DEF ObserverRec
  <2>3. SoundObserver(o)
    BY <2>1, <2>2 DEF SoundObserver
  <2> QED
    BY <2>2, <2>3 DEF x
<1>3. observer' = [b \in Boot |-> IF b = global THEN [observer[b] EXCEPT !.up = FALSE] ELSE observer[b]]
  BY DEF ShutDownGlobal, StartInv, StartType
<1>4. observer' \in [Boot -> ObserverRec]
  BY <1>2, <1>3 DEF StartInv, StartType
<1>5. StartType'
  BY <1>4 DEF StartInv, StartType
<1>6. \A b \in Boot : SoundObserver(observer'[b])
  BY <1>1, <1>2 DEF StartInv
<1>7. \A b \in Boot : Early(boot'[b]) => observer'[b] = NoObserver /\ global' # b
  BY <1>1 DEF StartInv
<1> QED
  BY <1>5, <1>6, <1>7 DEF StartInv, SoundObserver, Early, ForTier

(* One step per action: only BuildAndInstall makes an observer, from a     *)
(* configuration build accepts, and only ReloadConfig changes its          *)
(* configuration, to one validate and the filter parser accept.            *)
LEMMA StartNextInv == StartInv /\ [StartNext]_startVars => StartInv'
<1> SUFFICES ASSUME StartInv, [StartNext]_startVars PROVE StartInv'
  OBVIOUS
<1> USE DEF StartInv
<1>0. StartType
  OBVIOUS
<1>rec. ASSUME NEW b \in Boot
        PROVE  /\ boot[b] \in BootRec /\ boot[b].plan \in Plan /\ boot[b].cfg \in Settings
               /\ boot[b].plan.given \in Settings
  <2>1. boot[b] \in BootRec
    BY DEF StartType
  <2>2. boot[b].plan \in Plan /\ boot[b].cfg \in Settings
    BY <2>1 DEF BootRec
  <2>3. boot[b].plan \in InitBuilder
    BY <2>2, StartupAssumption
  <2> QED
    BY <2>1, <2>2, <2>3 DEF InitBuilder
<1> HIDE DEF StartInv
<1>moves. ASSUME NEW b \in Boot,
                 NEW at \in {"hook", "bridge", "sighup", "guard", "dropped"}, Moves(b, at)
          PROVE  LET i == [boot[b] EXCEPT !.at = at]
                 IN i \in BootRec /\ boot' = [boot EXCEPT ![b] = i] /\ ~Early(i)
  BY <1>rec, <1>moves DEF Moves, BootRec, Early
<1>fails. ASSUME NEW b \in Boot, NEW error \in {"read", "parse", "config", "spool", "bridge"},
                 Fails(b, error), boot[b].at \in {"new", "build"} \/ error = "bridge"
          PROVE  LET i == [boot[b] EXCEPT !.at = "failed", !.error = error]
                 IN i \in BootRec /\ boot' = [boot EXCEPT ![b] = i] /\ (Early(i) => Early(boot[b]))
  <2>1. boot' = [boot EXCEPT ![b] = [boot[b] EXCEPT !.at = "failed", !.error = error]]
    BY <1>0, <1>fails DEF Fails, StartType, BootRec
  <2> QED
    BY <1>rec, <1>fails, <2>1 DEF BootRec, Early
<1>cfg. ASSUME NEW b \in Boot, boot[b].at = "new", NEW c \in Settings,
               boot' = [boot EXCEPT ![b].at = "build", ![b].cfg = c]
        PROVE  LET i == [boot[b] EXCEPT !.at = "build", !.cfg = c]
               IN i \in BootRec /\ boot' = [boot EXCEPT ![b] = i] /\ (Early(i) => Early(boot[b]))
  <2>1. boot' = [boot EXCEPT ![b] = [boot[b] EXCEPT !.at = "build", !.cfg = c]]
    BY <1>0, <1>cfg DEF StartType, BootRec
  <2> QED
    BY <1>rec, <1>cfg, <2>1 DEF BootRec, Early
<1>1. ASSUME NEW b \in Boot, TakeConfig(b) PROVE StartInv'
  <2> DEFINE p == boot[b].plan
             c == IF p.source = "none" THEN Default
                  ELSE IF p.overlay THEN MergedWithEnv(p.given) ELSE p.given
  <2>1. c \in Settings
    BY <1>0, <1>rec, ReadTyped, SettingsTyped
  <2>2. /\ boot[b].at = "new" /\ boot' = [boot EXCEPT ![b].at = "build", ![b].cfg = c]
        /\ UNCHANGED <<file, environ, observer, global, reloads>>
    BY <1>1 DEF TakeConfig
  <2> HIDE DEF c
  <2> QED
    BY <1>cfg, <2>1, <2>2, InstallGoesOn
<1>2. ASSUME NEW b \in Boot, LoadConfig(b) PROVE StartInv'
  <2>1. UNCHANGED <<file, environ, observer, global, reloads>> /\ boot[b].at = "new"
    BY <1>2 DEF LoadConfig
  <2>2. CASE Fails(b, "read")
    BY <1>fails, <2>1, <2>2, InstallGoesOn
  <2>3. CASE Fails(b, "parse")
    BY <1>fails, <2>1, <2>3, InstallGoesOn
  <2>4. CASE boot' = [boot EXCEPT ![b].at = "build", ![b].cfg = Expanded(file)]
    BY <1>0, <1>cfg, <2>1, <2>4, ReadTyped, InstallGoesOn
  <2> QED
    BY <1>2, <2>2, <2>3, <2>4 DEF LoadConfig
<1>3. ASSUME NEW b \in Boot, BuildAndInstall(b) PROVE StartInv'
  <2> DEFINE cfg == WithDev(boot[b].cfg)
             error == BuildError(boot[b].plan, cfg)
             memory == boot[b].plan.preset = "InMemory"
             o == IF memory THEN [NoObserver EXCEPT !.kind = "memory", !.up = TRUE]
                  ELSE Built(boot[b].plan, cfg)
  <2>1. cfg \in Settings
    BY <1>0, <1>rec, ReadTyped
  <2>2. error \in {"none", "config", "spool"}
    BY DEF BuildError
  <2>3. CASE ~memory /\ error # "none"
    <3>1. /\ Fails(b, error) /\ UNCHANGED <<file, environ, observer, global, reloads>>
          /\ boot[b].at = "build" /\ error \in {"config", "spool"}
      BY <1>3, <2>2, <2>3 DEF BuildAndInstall
    <3> HIDE DEF error
    <3> QED
      BY <1>fails, <3>1, InstallGoesOn
  <2>4. CASE memory \/ error = "none"
    <3>1. /\ Moves(b, "hook") /\ global' = b /\ observer' = [observer EXCEPT ![b] = o]
          /\ UNCHANGED <<file, environ, reloads>>
      BY <1>3, <2>4 DEF BuildAndInstall
    <3>2. o \in ObserverRec /\ SoundObserver(o)
      <4>1. CASE memory
        <5>1. o = [NoObserver EXCEPT !.kind = "memory", !.up = TRUE]
          BY <4>1
        <5>2. o \in ObserverRec /\ o.kind = "memory"
          BY <5>1, SettingsTyped DEF ObserverRec
        <5> QED
          BY <5>2 DEF SoundObserver
      <4>2. CASE ~memory
        BY <1>0, <1>rec, <2>1, <2>4, <4>2, BuiltIsSound
      <4> QED
        BY <4>1, <4>2
    <3>3. boot' \in [Boot -> BootRec] /\ ~Early(boot'[b])
          /\ \A d \in Boot : d # b => boot'[d] = boot[d]
      BY <1>0, <1>moves, <3>1 DEF StartType
    <3> HIDE DEF o
    <3>4. /\ observer' \in [Boot -> ObserverRec] /\ observer'[b] = o
          /\ \A d \in Boot : d # b => observer'[d] = observer[d]
      BY <1>0, <3>1, <3>2 DEF StartType
    <3>5. StartType'
      BY <1>0, <3>1, <3>3, <3>4 DEF StartType
    <3>6. \A d \in Boot : SoundObserver(observer'[d])
      BY <3>2, <3>4 DEF StartInv
    <3>7. \A d \in Boot : Early(boot'[d]) => observer'[d] = NoObserver /\ global' # d
      BY <3>1, <3>3, <3>4 DEF StartInv
    <3> QED
      BY <3>5, <3>6, <3>7 DEF StartInv, SoundObserver, Early, ForTier
  <2> QED
    BY <2>3, <2>4
<1>4. ASSUME NEW b \in Boot, PanicHook(b) PROVE StartInv'
  BY <1>4, <1>moves, InstallGoesOn DEF PanicHook
<1>5. ASSUME NEW b \in Boot, InstallBridge(b) PROVE StartInv'
  <2>1. UNCHANGED <<file, environ, observer, global, reloads>>
    BY <1>5 DEF InstallBridge
  <2>2. CASE Moves(b, "sighup")
    BY <1>moves, <2>1, <2>2, InstallGoesOn
  <2>3. CASE Fails(b, "bridge")
    BY <1>fails, <2>1, <2>3, InstallGoesOn
  <2> QED
    BY <1>5, <2>2, <2>3 DEF InstallBridge
<1>6. ASSUME NEW b \in Boot, SpawnSighup(b) PROVE StartInv'
  BY <1>6, <1>moves, InstallGoesOn DEF SpawnSighup
<1>7. ASSUME NEW b \in Boot, DropGuard(b) PROVE StartInv'
  <2>1. Moves(b, "dropped") /\ ShutDownGlobal /\ UNCHANGED <<file, environ, global, reloads>>
    BY <1>7 DEF DropGuard
  <2>2. boot' \in [Boot -> BootRec] /\ \A c \in Boot : Early(boot'[c]) => Early(boot[c])
    BY <1>0, <1>moves, <2>1 DEF StartType
  <2> QED
    BY <2>1, <2>2, ShutDownInv
<1>8. ASSUME NEW b \in Boot, ReloadConfig(b) PROVE StartInv'
  <2> DEFINE c == Expanded(file)
             o == [observer[b] EXCEPT !.cfg = c, !.filter = c.filter]
  <2>1. UNCHANGED <<file, environ, boot, global>> /\ observer[b].kind = "standard"
        /\ reloads' = reloads + 1
    BY <1>8 DEF ReloadConfig
  <2>2. c \in Settings
    BY <1>0, ReadTyped
  <2>3. CASE UNCHANGED observer
    BY <1>0, <2>1, <2>3 DEF StartInv, StartType, SoundObserver, Early, ForTier
  <2>4. CASE /\ Valid(c) /\ c.filter # "bad"
             /\ observer' = [observer EXCEPT ![b].cfg = c, ![b].filter = c.filter]
    <3> HIDE DEF c
    <3>1. observer[b] \in ObserverRec /\ SoundObserver(observer[b])
      BY <1>0 DEF StartType, StartInv
    <3>2. /\ o \in ObserverRec /\ o.kind = "standard" /\ o.cfg = c /\ o.filter = c.filter
          /\ o.workers = observer[b].workers /\ o.router = observer[b].router
          /\ o.spool = observer[b].spool
      BY <2>1, <2>2, <3>1 DEF ObserverRec, Settings
    <3>3. SoundObserver(o)
      BY <2>1, <2>4, <3>1, <3>2 DEF SoundObserver, Valid
    <3>4. observer' = [observer EXCEPT ![b] = o]
      BY <1>0, <2>4 DEF StartType, ObserverRec
    <3> HIDE DEF o
    <3>5. /\ observer' \in [Boot -> ObserverRec] /\ observer'[b] = o
          /\ \A d \in Boot : d # b => observer'[d] = observer[d]
      BY <1>0, <3>2, <3>4 DEF StartType
    <3>6. StartType'
      BY <1>0, <2>1, <3>5 DEF StartType
    <3>7. \A d \in Boot : SoundObserver(observer'[d])
      BY <3>3, <3>5 DEF StartInv
    <3>8. ~Early(boot[b])
      BY <2>1, SettingsTyped DEF StartInv
    <3>9. \A d \in Boot : Early(boot'[d]) => observer'[d] = NoObserver /\ global' # d
      BY <2>1, <3>5, <3>8 DEF StartInv
    <3> QED
      BY <3>6, <3>7, <3>9 DEF StartInv, SoundObserver, Early, ForTier
  <2> QED
    BY <1>8, <2>3, <2>4 DEF ReloadConfig
<1>9. ASSUME NEW text \in Text, Save(text) PROVE StartInv'
  BY <1>0, <1>9 DEF Save, StartInv, StartType, SoundObserver, Early, ForTier
<1>10. CASE Panic
  BY <1>0, <1>10, ShutDownInv DEF Panic, StartType
<1>11. CASE UNCHANGED startVars
  BY <1>0, <1>11 DEF startVars, StartInv, StartType, SoundObserver, Early, ForTier
<1> QED
  BY <1>1, <1>2, <1>3, <1>4, <1>5, <1>6, <1>7, <1>8, <1>9, <1>10, <1>11 DEF StartNext, Sighup

(* InitBuilder::install, for any number of install() calls with any     *)
(* plans, any contents of obs.yaml and any environment: however they       *)
(* interleave with saves, reloads, panics and dropped guards, an observer  *)
(* in place runs a valid configuration and a filter that parses, its       *)
(* workers and the inline dispatch deliver to the same sinks, a wired      *)
(* AUDIT worker has its spool, and a failed install() left nothing behind. *)
THEOREM InstallIsSound == StartSpec => []InstalledIsSound
<1>1. StartInv => InstalledIsSound
  BY DEF StartInv, SoundObserver, Early, InstalledIsSound
<1> QED
  BY <1>1, StartInitInv, StartNextInv, PTL DEF StartSpec

-------------------------------------------------------------------------------
(* HTTP trace context.                                                     *)

SpanIds == {"client", "server", "none"} \X (Call \union {Nowhere})
Contexts == [trace : SpanIds, span : SpanIds, parent : SpanIds]
Places == {"none", "sent", "open", "done", "dropped"}

HttpType ==
    /\ running \in [Runner -> Seq(Call)]
    /\ scopes \in [Runner -> Seq(Contexts)]
    /\ client \in [Call -> [at : Places, ctx : Contexts, within : Call \union {Nowhere}]]
    /\ server \in [Call -> [at : Places, ctx : Contexts, trusted : BOOLEAN]]
    /\ header \in [Call -> [trace : SpanIds, span : SpanIds]]

(* A thread's scope frames are those of the handlers it is polling. *)
FramesMatch(r, f) ==
    /\ Len(f) = Len(r)
    /\ \A i \in 1..Len(r) : server[r[i]].at # "none" /\ f[i] = server[r[i]].ctx

(* A call that was made has a trace, that of the handler it was made in if *)
(* there was one, and its header says so until it is lost.                 *)
ClientReal(c) ==
    /\ client[c].at # "none" =>
          /\ client[c].ctx.trace # NoSpan
          /\ client[c].ctx.span = SpanOf("client", c)
          /\ client[c].within = Nowhere => client[c].ctx.trace = SpanOf("client", c)
          /\ client[c].within # Nowhere =>
                /\ server[client[c].within].at # "none"
                /\ client[c].ctx.trace = server[client[c].within].ctx.trace
    /\ header[c] # NoHeader =>
          client[c].at # "none" /\ header[c] = Header(client[c].ctx.trace, client[c].ctx.span)

(* A request being served has a trace, its caller's if it was trusted. *)
ServerReal(c) ==
    /\ server[c].at # "none" => server[c].ctx.trace # NoSpan
    /\ server[c].trusted =>
          /\ server[c].at # "none" /\ client[c].at # "none"
          /\ server[c].ctx.trace = client[c].ctx.trace
          /\ server[c].ctx.parent = client[c].ctx.span
          /\ server[c].ctx.span = SpanOf("server", c)

(* An envelope belongs to a call that was made, and is of its trace. *)
EventReal(e) ==
    /\ e.call \in Call
    /\ e.kind \in {"client_started", "client_completed"} =>
          client[e.call].at # "none" /\ e.ctx.trace = client[e.call].ctx.trace
    /\ e.kind \notin {"client_started", "client_completed"} =>
          server[e.call].at # "none" /\ e.ctx.trace = server[e.call].ctx.trace

HttpInv ==
    /\ HttpType
    /\ \A t \in Runner : FramesMatch(running[t], scopes[t])
    /\ \A c \in Call : ClientReal(c) /\ ServerReal(c)
    /\ \A e \in events : EventReal(e)

(* A call's context is written once: a step may only add calls. *)
ContextsKept ==
    \A c \in Call :
        /\ client[c].at # "none" =>
              /\ client'[c].at # "none" /\ client'[c].ctx = client[c].ctx
              /\ client'[c].within = client[c].within
        /\ server[c].at # "none" => server'[c].at # "none" /\ server'[c].ctx = server[c].ctx

LEMMA SpansTyped ==
    /\ NoSpan \in SpanIds /\ NoContext \in Contexts
    /\ \A c \in Call : /\ SpanOf("client", c) \in SpanIds /\ SpanOf("server", c) \in SpanIds
                       /\ SpanOf("client", c) # NoSpan /\ SpanOf("server", c) # NoSpan
                       /\ SpanOf("client", c) # SpanOf("server", c)
<1>1. NoSpan \in SpanIds
  BY DEF NoSpan, SpanIds, Nowhere
<1>2. NoContext \in Contexts
  BY <1>1 DEF NoContext, Context, Contexts
<1> QED
  BY <1>1, <1>2 DEF SpanOf, SpanIds, NoSpan, Nowhere

LEMMA SequenceEnds ==
    ASSUME NEW S, NEW s, s \in Seq(S), s # <<>>
    PROVE  /\ Last(s) \in S /\ Last(s) = s[Len(s)] /\ Len(s) \in 1..Len(s)
           /\ Front(s) \in Seq(S) /\ Len(Front(s)) = Len(s) - 1
           /\ \A i \in 1..(Len(s) - 1) : i \in 1..Len(s) /\ Front(s)[i] = s[i]
<1> DEFINE n == Len(s)
           m == n - 1
<1>1. n \in Nat /\ n > 0 /\ \A i \in 1..n : s[i] \in S
  OBVIOUS
<1>2. Last(s) = s[n] /\ Front(s) = SubSeq(s, 1, m)
  BY DEF Last, Front
<1> HIDE DEF n
<1>3. m \in Nat /\ n \in 1..n /\ m - 1 + 1 = m /\ \A i \in 1..m : i \in 1..n /\ 1 + i - 1 = i
  BY ONLY <1>1
<1> HIDE DEF m
<1>4. \A i \in 1..m : s[i] \in S
  BY ONLY <1>1, <1>3
<1>5. /\ SubSeq(s, 1, m) \in Seq(S)
      /\ Len(SubSeq(s, 1, m)) = IF 1 <= m THEN m - 1 + 1 ELSE 0
      /\ \A i \in 1..(m - 1 + 1) : SubSeq(s, 1, m)[i] = s[1 + i - 1]
  BY <1>3, <1>4, SubSeqProperties
<1>6. Len(SubSeq(s, 1, m)) = m
  BY ONLY <1>3, <1>5
<1>7. \A i \in 1..m : SubSeq(s, 1, m)[i] = s[i]
  BY ONLY <1>3, <1>5
<1> QED
  BY <1>1, <1>2, <1>3, <1>5, <1>6, <1>7 DEF n, m

(* auto_fill_envelope keeps a trace the envelope sets itself. *)
LEMMA FilledKeeps ==
    ASSUME NEW kind, NEW c, NEW cx \in Contexts, cx.trace # NoSpan, NEW fs
    PROVE  LET e == Filled(Event(kind, c, cx), fs)
           IN e.kind = kind /\ e.call = c /\ e.ctx.trace = cx.trace
BY DEF Filled, Event, Context

LEMMA FramesKept ==
    ASSUME HttpInv, ContextsKept, NEW r \in Seq(Call), NEW f, FramesMatch(r, f)
    PROVE  FramesMatch(r, f)'
BY DEF FramesMatch, ContextsKept

LEMMA EventsKept ==
    ASSUME HttpInv, ContextsKept, NEW e \in events
    PROVE  EventReal(e)'
BY DEF HttpInv, EventReal, ContextsKept

LEMMA HttpInitInv == HttpInit => HttpInv
<1> SUFFICES ASSUME HttpInit PROVE HttpInv
  OBVIOUS
<1>1. HttpType
  BY SpansTyped DEF HttpInit, HttpType, Places, NoHeader, Header
<1>2. \A t \in Runner : FramesMatch(running[t], scopes[t])
  BY DEF HttpInit, FramesMatch
<1>3. \A c \in Call : ClientReal(c) /\ ServerReal(c)
  BY DEF HttpInit, ClientReal, ServerReal
<1> QED
  BY <1>1, <1>2, <1>3 DEF HttpInv, HttpInit

LEMMA CallsKept ==
    ASSUME HttpInv, ContextsKept, NEW c \in Call
    PROVE  /\ (client[c].at = "none" => client'[c].at = "none") /\ header'[c] \in {header[c], NoHeader}
              => ClientReal(c)'
           /\ (server[c].at = "none" => server'[c].at = "none") /\ server'[c].trusted = server[c].trusted
              => ServerReal(c)'
<1>1. ClientReal(c) /\ ServerReal(c) /\ client[c].within \in Call \union {Nowhere}
  BY DEF HttpInv, HttpType
<1> QED
  BY <1>1 DEF ContextsKept, ClientReal, ServerReal

LEMMA HttpNextInv == HttpInv /\ [HttpNext]_httpVars => HttpInv'
<1> SUFFICES ASSUME HttpInv, [HttpNext]_httpVars PROVE HttpInv'
  OBVIOUS
<1>0. HttpType
  BY DEF HttpInv
<1>1. ASSUME NEW t \in Runner, NEW c \in Call, ClientCall(t, c) PROVE HttpInv'
  <2> DEFINE fs == scopes[t]
             h == Outbound(c, fs)
             cx == Context(h.trace, h.span, NoSpan)
             within == IF running[t] = <<>> THEN Nowhere ELSE Last(running[t])
             new == [at |-> "sent", ctx |-> cx, within |-> within]
             emitted == Filled(ClientStarted(c, h), fs)
  <2>e. PICK e : e = emitted
    OBVIOUS
  <2>1. /\ client[c].at = "none" /\ header' = [header EXCEPT ![c] = h]
        /\ client' = [client EXCEPT ![c] = new] /\ events' = events \union {e}
        /\ UNCHANGED <<running, scopes, server>>
    BY <1>1, <2>e DEF ClientCall
  <2>2. FramesMatch(running[t], fs) /\ running[t] \in Seq(Call) /\ fs \in Seq(Contexts)
    BY <1>0 DEF HttpInv, HttpType
  <2>3. /\ h.span = SpanOf("client", c)
        /\ h = Header(h.trace, h.span)
        /\ running[t] = <<>> => h.trace = SpanOf("client", c)
        /\ running[t] # <<>> => /\ Last(running[t]) \in Call
                                /\ server[Last(running[t])].at # "none"
                                /\ h.trace = server[Last(running[t])].ctx.trace
    <3>1. h.span = SpanOf("client", c) /\ h = Header(h.trace, h.span)
          /\ h.trace = IF fs = <<>> THEN SpanOf("client", c) ELSE Last(fs).trace
      BY DEF Outbound, Header, ActiveTrace
    <3>2. running[t] = <<>> <=> fs = <<>>
      BY <2>2 DEF FramesMatch
    <3>3. ASSUME running[t] # <<>>
          PROVE  /\ Last(running[t]) \in Call /\ server[Last(running[t])].at # "none"
                 /\ Last(fs) = server[Last(running[t])].ctx
      <4>1. Last(running[t]) \in Call /\ Last(running[t]) = running[t][Len(running[t])]
            /\ Len(running[t]) \in 1..Len(running[t])
        BY <2>2, <3>3, SequenceEnds
      <4>2. Last(fs) = fs[Len(fs)]
        BY DEF Last
      <4> QED
        BY <2>2, <4>1, <4>2 DEF FramesMatch
    <3> QED
      BY <3>1, <3>2, <3>3
  <2> HIDE DEF h
  <2>4. h.trace # NoSpan /\ h.trace \in SpanIds /\ h.span \in SpanIds
    <3>1. \A d \in Call : server[d].at # "none" => server[d].ctx.trace # NoSpan /\ server[d].ctx.trace \in SpanIds
      BY <1>0 DEF HttpInv, HttpType, ServerReal, Contexts
    <3> QED
      BY <2>3, <3>1, SpansTyped
  <2>5. cx \in Contexts /\ cx.trace = h.trace /\ cx.span = h.span
    BY <2>4, SpansTyped DEF Context, Contexts
  <2>6. within \in Call \union {Nowhere} /\ (within = Nowhere <=> running[t] = <<>>)
    BY <2>3, CallAssumption
  <2>7. e.kind = "client_started" /\ e.call = c /\ e.ctx.trace = h.trace
    <3>1. /\ Context(h.trace, NoSpan, NoSpan) \in Contexts
          /\ Context(h.trace, NoSpan, NoSpan).trace = h.trace
      BY <2>4, SpansTyped DEF Context, Contexts
    <3> QED
      BY <2>e, <2>4, <3>1, FilledKeeps DEF ClientStarted
  <2> HIDE DEF cx, emitted
  <2>8. client'[c] = new /\ header'[c] = h
        /\ \A d \in Call : d # c => client'[d] = client[d] /\ header'[d] = header[d]
    BY <1>0, <2>1 DEF HttpType
  <2>9. HttpType'
    <3>1. new \in [at : Places, ctx : Contexts, within : Call \union {Nowhere}]
      BY <2>5, <2>6 DEF Places
    <3>2. h \in [trace : SpanIds, span : SpanIds]
      BY <2>3, <2>4 DEF Header
    <3> HIDE DEF new
    <3> QED
      BY <1>0, <2>1, <3>1, <3>2 DEF HttpType
  <2>10. ContextsKept
    BY <2>1, <2>8 DEF ContextsKept
  <2>11. \A u \in Runner : FramesMatch(running[u], scopes[u])'
    BY <1>0, <2>1, <2>10, FramesKept DEF HttpInv, HttpType
  <2>12. ClientReal(c)'
    <3>1. /\ client'[c].at = "sent" /\ client'[c].ctx = cx /\ client'[c].within = within
          /\ header'[c] = Header(h.trace, h.span) /\ server' = server
      BY <2>1, <2>3, <2>8
    <3>2. within # Nowhere => within = Last(running[t])
      OBVIOUS
    <3> HIDE DEF within
    <3> QED
      BY <2>3, <2>4, <2>5, <2>6, <3>1, <3>2 DEF ClientReal
  <2>13. \A d \in Call : ClientReal(d)' /\ ServerReal(d)'
    BY <2>1, <2>8, <2>10, <2>12, CallsKept
  <2>14. EventReal(e)'
    <3>1. client'[c].at = "sent" /\ client'[c].ctx = cx
      BY <2>8
    <3> QED
      BY <2>5, <2>7, <3>1 DEF EventReal
  <2>15. \A x \in events' : EventReal(x)'
    BY <2>1, <2>10, <2>14, EventsKept
  <2> QED
    BY <2>9, <2>11, <2>13, <2>15 DEF HttpInv
<1>2. ASSUME NEW t \in Runner, NEW c \in Call, ClientReady(t, c) PROVE HttpInv'
  <2> DEFINE emitted == Filled(ClientCompleted(c, client[c].ctx), scopes[t])
  <2>e. PICK e : e = emitted
    OBVIOUS
  <2>1. /\ client[c].at = "sent" /\ client' = [client EXCEPT ![c].at = "done"]
        /\ events' = events \union {e} /\ UNCHANGED <<running, scopes, server, header>>
    BY <1>2, <2>e DEF ClientReady
  <2>2. client[c].ctx \in Contexts /\ client[c].ctx.trace # NoSpan
    BY <1>0, <2>1 DEF HttpInv, HttpType, ClientReal
  <2>3. e.kind = "client_completed" /\ e.call = c /\ e.ctx.trace = client[c].ctx.trace
    <3> DEFINE x == Context(client[c].ctx.trace, client[c].ctx.span, NoSpan)
    <3>1. x \in Contexts /\ x.trace = client[c].ctx.trace
      BY <2>2, SpansTyped DEF Context, Contexts
    <3>2. e = Filled(Event("client_completed", c, x), scopes[t])
      BY <2>e DEF ClientCompleted
    <3> HIDE DEF x, emitted
    <3> QED
      BY <2>2, <3>1, <3>2, FilledKeeps
  <2> HIDE DEF emitted
  <2>4. /\ client'[c].at = "done" /\ client'[c].ctx = client[c].ctx /\ client'[c].within = client[c].within
        /\ \A d \in Call : d # c => client'[d] = client[d]
    BY <1>0, <2>1 DEF HttpType
  <2>5. HttpType'
    BY <1>0, <2>1 DEF HttpType, Places
  <2>6. ContextsKept
    BY <2>1, <2>4 DEF ContextsKept
  <2>7. \A u \in Runner : FramesMatch(running[u], scopes[u])'
    BY <1>0, <2>1, <2>6, FramesKept DEF HttpInv, HttpType
  <2>8. \A d \in Call : ClientReal(d)' /\ ServerReal(d)'
    BY <2>1, <2>4, <2>6, CallsKept
  <2>9. EventReal(e)'
    BY <2>3, <2>4 DEF EventReal
  <2>10. \A x \in events' : EventReal(x)'
    BY <2>1, <2>6, <2>9, EventsKept
  <2> QED
    BY <2>5, <2>7, <2>8, <2>10 DEF HttpInv
<1>3. ASSUME NEW t \in Runner, NEW c \in Call, PollBegins(t, c) PROVE HttpInv'
  <2>1. /\ server[c].at = "open" /\ running' = [running EXCEPT ![t] = Append(@, c)]
        /\ scopes' = [scopes EXCEPT ![t] = Append(@, server[c].ctx)]
        /\ UNCHANGED <<client, server, header, events>>
    BY <1>3 DEF PollBegins
  <2>2. HttpType'
    BY <1>0, <2>1 DEF HttpType
  <2>3. ContextsKept
    BY <2>1 DEF ContextsKept
  <2>4. ASSUME NEW u \in Runner PROVE FramesMatch(running[u], scopes[u])'
    <3>1. CASE u # t
      <4>1. running'[u] = running[u] /\ scopes'[u] = scopes[u]
        BY <1>0, <2>1, <3>1 DEF HttpType
      <4> QED
        BY <1>0, <2>3, <4>1, FramesKept DEF HttpInv, HttpType
    <3>2. CASE u = t
      <4> DEFINE r == running[t]
                 f == scopes[t]
      <4>1. r \in Seq(Call) /\ f \in Seq(Contexts) /\ FramesMatch(r, f)
        BY <1>0 DEF HttpInv, HttpType
      <4>2. running'[u] = Append(r, c) /\ scopes'[u] = Append(f, server[c].ctx)
        BY <1>0, <2>1, <3>2 DEF HttpType
      <4> HIDE DEF r, f
      <4>3. /\ Len(Append(r, c)) = Len(r) + 1 /\ Len(Append(f, server[c].ctx)) = Len(f) + 1
            /\ \A i \in 1..(Len(r) + 1) : Append(r, c)[i] = IF i = Len(r) + 1 THEN c ELSE r[i]
            /\ \A i \in 1..(Len(f) + 1) : Append(f, server[c].ctx)[i] = IF i = Len(f) + 1 THEN server[c].ctx ELSE f[i]
        BY <4>1
      <4>4. FramesMatch(Append(r, c), Append(f, server[c].ctx))
        BY <2>1, <4>1, <4>3 DEF FramesMatch
      <4>5. Append(r, c) \in Seq(Call)
        BY <4>1
      <4> QED
        BY <2>3, <4>2, <4>4, <4>5, FramesKept
    <3> QED
      BY <3>1, <3>2
  <2>5. \A d \in Call : ClientReal(d)' /\ ServerReal(d)'
    BY <2>1, <2>3, CallsKept
  <2>6. \A x \in events' : EventReal(x)'
    BY <2>1, <2>3, EventsKept
  <2> QED
    BY <2>2, <2>4, <2>5, <2>6 DEF HttpInv
<1>4. ASSUME NEW t \in Runner, NEW c \in Call, NEW on \in BOOLEAN, ServerCall(t, c, on) PROVE HttpInv'
  <2> DEFINE cx == Inbound(c)
             ok == Extracted(c)
             new == [at |-> "open", ctx |-> cx, trusted |-> ok]
             emitted == Filled(RequestStarted(c, cx), scopes[t])
  <2>e. PICK e : e = emitted
    OBVIOUS
  <2>1. /\ client[c].at # "none" /\ server[c].at = "none"
        /\ server' = [server EXCEPT ![c] = new] /\ events' \subseteq events \union {e}
        /\ UNCHANGED <<running, scopes, client, header>>
    BY <1>4, <2>e DEF ServerCall
  <2>2. ok \in BOOLEAN /\ (ok => header[c] = Header(client[c].ctx.trace, client[c].ctx.span))
    BY DEF HttpInv, ClientReal, Extracted
  <2>3. /\ cx \in Contexts /\ cx.trace # NoSpan /\ cx.span = SpanOf("server", c)
        /\ ok => cx.trace = client[c].ctx.trace /\ cx.parent = client[c].ctx.span
    <3>1. client[c].ctx \in Contexts /\ client[c].ctx.trace # NoSpan
      BY <1>0, <2>1 DEF HttpInv, HttpType, ClientReal
    <3>2. CASE ok
      <4>1. cx = Context(client[c].ctx.trace, SpanOf("server", c), client[c].ctx.span)
        BY <2>2, <3>2 DEF Inbound, Header
      <4> QED
        BY <3>1, <4>1, SpansTyped DEF Context, Contexts
    <3>3. CASE ~ok
      <4>1. cx = Context(SpanOf("server", c), SpanOf("server", c), NoSpan)
        BY <3>3 DEF Inbound
      <4> QED
        BY <3>3, <4>1, SpansTyped DEF Context, Contexts
    <3> QED
      BY <3>2, <3>3
  <2> HIDE DEF cx, ok
  <2>4. e.kind = "server_started" /\ e.call = c /\ e.ctx.trace = cx.trace
    <3> DEFINE x == Context(cx.trace, NoSpan, cx.parent)
    <3>1. x \in Contexts /\ x.trace = cx.trace
      BY <2>3, SpansTyped DEF Context, Contexts
    <3>2. e = Filled(Event("server_started", c, x), scopes[t])
      BY <2>e DEF RequestStarted
    <3> HIDE DEF x, emitted
    <3> QED
      BY <2>3, <3>1, <3>2, FilledKeeps
  <2> HIDE DEF emitted
  <2>5. server'[c] = new /\ \A d \in Call : d # c => server'[d] = server[d]
    BY <1>0, <2>1 DEF HttpType
  <2>6. new \in [at : Places, ctx : Contexts, trusted : BOOLEAN]
    BY <2>2, <2>3 DEF Places
  <2>7. new.at = "open" /\ new.ctx = cx /\ new.trusted = ok
    OBVIOUS
  <2> HIDE DEF new
  <2>8. HttpType'
    BY <1>0, <2>1, <2>6 DEF HttpType
  <2>9. ContextsKept
    BY <2>1, <2>5 DEF ContextsKept
  <2>10. \A u \in Runner : FramesMatch(running[u], scopes[u])'
    BY <1>0, <2>1, <2>9, FramesKept DEF HttpInv, HttpType
  <2>11. ServerReal(c)'
    BY <2>1, <2>2, <2>3, <2>5, <2>7 DEF ServerReal
  <2>12. \A d \in Call : ClientReal(d)' /\ ServerReal(d)'
    BY <2>1, <2>5, <2>9, <2>11, CallsKept
  <2>13. EventReal(e)'
    BY <2>4, <2>5, <2>7 DEF EventReal
  <2>14. \A x \in events' : EventReal(x)'
    BY <2>1, <2>9, <2>13, EventsKept
  <2> QED
    BY <2>8, <2>10, <2>12, <2>14 DEF HttpInv
<1>pop. ASSUME NEW t \in Runner, running[t] # <<>>, ContextsKept,
               running' = [running EXCEPT ![t] = Front(@)], scopes' = [scopes EXCEPT ![t] = Front(@)]
        PROVE  /\ running' \in [Runner -> Seq(Call)] /\ scopes' \in [Runner -> Seq(Contexts)]
               /\ \A u \in Runner : FramesMatch(running[u], scopes[u])'
  <2> DEFINE r == running[t]
             f == scopes[t]
  <2>1. r \in Seq(Call) /\ f \in Seq(Contexts) /\ FramesMatch(r, f) /\ r # <<>>
    BY <1>0, <1>pop DEF HttpInv, HttpType
  <2>2. f # <<>>
    BY <2>1 DEF FramesMatch
  <2>3. running'[t] = Front(r) /\ scopes'[t] = Front(f)
        /\ \A u \in Runner : u # t => running'[u] = running[u] /\ scopes'[u] = scopes[u]
    BY <1>0, <1>pop DEF HttpType
  <2>4. Front(r) \in Seq(Call) /\ Len(Front(r)) = Len(r) - 1
        /\ \A i \in 1..(Len(r) - 1) : i \in 1..Len(r) /\ Front(r)[i] = r[i]
    BY <2>1, SequenceEnds
  <2>5. Front(f) \in Seq(Contexts) /\ Len(Front(f)) = Len(f) - 1
        /\ \A i \in 1..(Len(f) - 1) : i \in 1..Len(f) /\ Front(f)[i] = f[i]
    BY <2>1, <2>2, SequenceEnds
  <2> HIDE DEF r, f
  <2>6. PICK rs, ss : rs = Front(r) /\ ss = Front(f)
    OBVIOUS
  <2>7. rs \in Seq(Call) /\ FramesMatch(rs, ss)
    BY <2>1, <2>4, <2>5, <2>6 DEF FramesMatch
  <2>8. FramesMatch(rs, ss)' /\ running'[t] = rs /\ scopes'[t] = ss
    BY <1>pop, <2>3, <2>6, <2>7, FramesKept
  <2>9. \A u \in Runner : FramesMatch(running[u], scopes[u])'
    BY <1>0, <1>pop, <2>3, <2>8, FramesKept DEF HttpInv, HttpType
  <2> QED
    BY <1>0, <1>pop, <2>4, <2>5, <2>9 DEF HttpType, r, f
<1>5. ASSUME NEW t \in Runner, PollPending(t) PROVE HttpInv'
  <2>1. /\ running[t] # <<>> /\ running' = [running EXCEPT ![t] = Front(@)]
        /\ scopes' = [scopes EXCEPT ![t] = Front(@)] /\ UNCHANGED <<client, server, header, events>>
    BY <1>5 DEF PollPending, PopScope
  <2>2. ContextsKept
    BY <2>1 DEF ContextsKept
  <2>3. HttpType' /\ \A u \in Runner : FramesMatch(running[u], scopes[u])'
    BY <1>0, <1>pop, <2>1, <2>2 DEF HttpType
  <2>4. \A d \in Call : ClientReal(d)' /\ ServerReal(d)'
    BY <2>1, <2>2, CallsKept
  <2>5. \A x \in events' : EventReal(x)'
    BY <2>1, <2>2, EventsKept
  <2> QED
    BY <2>3, <2>4, <2>5 DEF HttpInv
<1>6. ASSUME NEW t \in Runner, NEW on \in BOOLEAN, PollReady(t, on) PROVE HttpInv'
  <2> DEFINE c == Last(running[t])
             cx == server[c].ctx
             emitted == Filled(RequestCompleted(c, cx), scopes[t])
  <2>e. PICK e : e = emitted
    OBVIOUS
  <2>1. /\ running[t] # <<>> /\ running' = [running EXCEPT ![t] = Front(@)]
        /\ scopes' = [scopes EXCEPT ![t] = Front(@)] /\ UNCHANGED <<client, header>>
        /\ server' = [server EXCEPT ![c].at = "done"] /\ events' \subseteq events \union {e}
    BY <1>6, <2>e DEF PollReady
  <2>2. c \in Call /\ server[c].at # "none"
    <3>1. running[t] \in Seq(Call) /\ FramesMatch(running[t], scopes[t])
      BY <1>0 DEF HttpInv, HttpType
    <3> QED
      BY <2>1, <3>1, SequenceEnds DEF FramesMatch
  <2> HIDE DEF c
  <2>3. cx \in Contexts /\ cx.trace # NoSpan
    BY <1>0, <2>2 DEF HttpInv, HttpType, ServerReal
  <2>4. e.kind = "server_completed" /\ e.call = c /\ e.ctx.trace = cx.trace
    BY <2>e, <2>3, FilledKeeps DEF RequestCompleted
  <2> HIDE DEF emitted
  <2>5. /\ server'[c].at = "done" /\ server'[c].ctx = cx /\ server'[c].trusted = server[c].trusted
        /\ \A d \in Call : d # c => server'[d] = server[d]
    BY <1>0, <2>1, <2>2 DEF HttpType
  <2>6. ContextsKept
    BY <2>1, <2>5 DEF ContextsKept
  <2>7. /\ running' \in [Runner -> Seq(Call)] /\ scopes' \in [Runner -> Seq(Contexts)]
        /\ \A u \in Runner : FramesMatch(running[u], scopes[u])'
    BY <1>pop, <2>1, <2>6
  <2>8. HttpType'
    BY <1>0, <2>1, <2>2, <2>7 DEF HttpType, Places
  <2>9. \A d \in Call : ClientReal(d)' /\ ServerReal(d)'
    BY <2>1, <2>2, <2>5, <2>6, CallsKept
  <2>10. EventReal(e)'
    BY <2>2, <2>4, <2>5 DEF EventReal
  <2>11. \A x \in events' : EventReal(x)'
    BY <2>1, <2>6, <2>10, EventsKept
  <2> QED
    BY <2>7, <2>8, <2>9, <2>11 DEF HttpInv
<1>7. ASSUME ContextsKept, HttpType', UNCHANGED <<running, scopes, events>>,
             \A d \in Call : /\ client[d].at = "none" => client'[d].at = "none"
                             /\ header'[d] \in {header[d], NoHeader}
                             /\ server[d].at = "none" => server'[d].at = "none"
                             /\ server'[d].trusted = server[d].trusted
      PROVE  HttpInv'
  <2>1. \A u \in Runner : FramesMatch(running[u], scopes[u])'
    BY <1>0, <1>7, FramesKept DEF HttpInv, HttpType
  <2>2. \A d \in Call : ClientReal(d)' /\ ServerReal(d)'
    BY <1>7, CallsKept
  <2>3. \A x \in events' : EventReal(x)'
    BY <1>7, EventsKept
  <2> QED
    BY <1>7, <2>1, <2>2, <2>3 DEF HttpInv
<1>8. ASSUME NEW c \in Call, ClientDropped(c) PROVE HttpInv'
  <2>1. /\ client[c].at = "sent" /\ client' = [client EXCEPT ![c].at = "dropped"]
        /\ UNCHANGED <<running, scopes, server, header, events>>
    BY <1>8 DEF ClientDropped
  <2>2. /\ client'[c].at = "dropped" /\ client'[c].ctx = client[c].ctx /\ client'[c].within = client[c].within
        /\ \A d \in Call : d # c => client'[d] = client[d]
    BY <1>0, <2>1 DEF HttpType
  <2>3. ContextsKept
    BY <2>1, <2>2 DEF ContextsKept
  <2>4. HttpType'
    BY <1>0, <2>1 DEF HttpType, Places
  <2> QED
    BY <1>7, <2>1, <2>2, <2>3, <2>4
<1>9. ASSUME NEW c \in Call, HeaderLost(c) PROVE HttpInv'
  <2>1. /\ header' = [header EXCEPT ![c] = NoHeader]
        /\ UNCHANGED <<running, scopes, client, server, events>>
    BY <1>9 DEF HeaderLost
  <2>2. HttpType'
    BY <1>0, <2>1, SpansTyped DEF HttpType, NoHeader, Header
  <2>3. \A d \in Call : header'[d] \in {header[d], NoHeader}
    BY <1>0, <2>1 DEF HttpType
  <2>4. ContextsKept
    BY <2>1 DEF ContextsKept
  <2> QED
    BY <1>7, <2>1, <2>2, <2>3, <2>4
<1>10. ASSUME NEW c \in Call, ServerDropped(c) PROVE HttpInv'
  <2>1. /\ server[c].at = "open" /\ server' = [server EXCEPT ![c].at = "dropped"]
        /\ UNCHANGED <<running, scopes, client, header, events>>
    BY <1>10 DEF ServerDropped
  <2>2. /\ server'[c].at = "dropped" /\ server'[c].ctx = server[c].ctx /\ server'[c].trusted = server[c].trusted
        /\ \A d \in Call : d # c => server'[d] = server[d]
    BY <1>0, <2>1 DEF HttpType
  <2>3. ContextsKept
    BY <2>1, <2>2 DEF ContextsKept
  <2>4. HttpType'
    BY <1>0, <2>1 DEF HttpType, Places
  <2> QED
    BY <1>7, <2>1, <2>2, <2>3, <2>4
<1>11. CASE UNCHANGED httpVars
  BY <1>0, <1>7, <1>11 DEF httpVars, ContextsKept, HttpType
<1> QED
  BY <1>1, <1>2, <1>3, <1>4, <1>5, <1>6, <1>8, <1>9, <1>10, <1>11 DEF HttpNext

(* Both tower layers, for any number of executor threads and calls: however *)
(* polls interleave and nest, whatever headers are lost and futures        *)
(* dropped, a request tree stays one trace and every event lies in the     *)
(* trace of its own call.                                                  *)
THEOREM RequestTreeIsOneTrace == HttpSpec => []TraceContinues
<1>1. HttpInv => TraceContinues
  <2> SUFFICES ASSUME HttpInv PROVE TraceContinues
    OBVIOUS
  <2>1. \A c \in Call : client[c].within \in Call \union {Nowhere}
    BY DEF HttpInv, HttpType
  <2>2. \A c \in Call : server[c].trusted => server[c].ctx.span # client[c].ctx.span
    BY SpansTyped DEF HttpInv, ClientReal, ServerReal
  <2> QED
    BY <2>1, <2>2 DEF HttpInv, ClientReal, ServerReal, EventReal, TraceContinues
<1> QED
  BY <1>1, HttpInitInv, HttpNextInv, PTL DEF HttpSpec

-------------------------------------------------------------------------------
(* The bridge between tracing and obs.                                     *)

Kinds == {"native", "event", "registered", "cardinality_high", "pii_suspected", "unresolved",
          "span_entered", "span_completed"}

BridgeCtx == [trace : Span \union {None, Given}, id : Span \union {None}, parent : Span \union {None}]

Envelopes ==
    [kind : Kinds, site : Site \union PrewarmCallsites \union {None}, ctx : BridgeCtx,
     at : Span \union {None}, nested : BOOLEAN, label : Value \union {None}, hops : Nat]

EmitCall == [fn : {"emit"}, at : {"start", "guarded", "end"}, guarded : BOOLEAN]

LayerCall ==
    [fn : {"on_event"}, at : {"start", "warm", "record", "intern", "register", "reset", "emit", "leave"},
     site : Site \union {None}, value : Value \union {None},
     target : {"app", SyntheticMetadata, BridgeMetadata}, env : Envelopes, stale : BOOLEAN]

SinkCall == [fn : {"deliver"}, at : {"start", "resolve", "dispatch", "end"}, env : Envelopes]

BridgeCall == EmitCall \union LayerCall \union SinkCall

(* Where on its stack a thread lifts an event. *)
Pos(t) == IF t = Worker THEN 2 ELSE 1

(* An envelope underway: its callsite is known, and with the reserved      *)
(* target it has not crossed the bridge.                                   *)
EnvOk(m, known, e) ==
    /\ e \in Envelopes
    /\ e.site # None => e.site \in known
    /\ ~m.dynamic => e.hops = 0

EmitOk(t, i, c) == c \in EmitCall /\ i = 1 /\ t \in Thread

SinkOk(m, known, t, i, c) ==
    /\ c \in SinkCall
    /\ EnvOk(m, known, c.env)
    /\ m.queued => t = Worker /\ i = 1

(* A call of the layer: the application's are the first of their stack,    *)
(* the sink's are not and carry its target; past the interning the         *)
(* envelope is about the callsite, past the recording it holds the         *)
(* correlation of where the thread is.                                     *)
LayerOk(m, known, here, t, i, c) ==
    /\ c \in LayerCall
    /\ t = Worker => i # 1
    /\ m.queued => i = Pos(t)
    /\ c.env.kind \in {"event", "span_entered", "span_completed"}
    /\ c.env.site # None => c.env.site \in known
    /\ i = 1 => c.target = "app" /\ EnvOk(m, known, c.env)
    /\ i # 1 /\ ~m.dynamic => c.target = BridgeMetadata /\ c.at = "start"
    /\ c.at \in {"start", "warm", "record", "intern"} =>
          c.env.kind = "event" /\ c.env.site = None /\ c.site \in Site
    /\ c.at \in {"register", "reset"} => c.env.kind = "event" /\ c.env.site = c.site /\ c.site \in Site
    /\ c.at \in {"intern", "register", "reset", "emit"} /\ c.env.kind = "event" =>
          c.env.at = here.at /\ c.env.ctx = here.ctx

CallOk(m, known, here, t, i, c) ==
    /\ t = Worker => m.queued
    /\ EmitOk(t, i, c) \/ SinkOk(m, known, t, i, c) \/ LayerOk(m, known, here, t, i, c)

StackOk(m, known, here, t, cs) ==
    /\ cs \in Seq(BridgeCall)
    /\ \A i \in 1..Len(cs) : CallOk(m, known, here, t, i, cs[i])

Where(t) == [at |-> CurrentSpan(t), ctx |-> SpanCtx(t)]
Known == DOMAIN registry

BridgeType ==
    /\ mode \in Modes
    /\ can_enter \in [AnyThread -> BOOLEAN]
    /\ Known \subseteq Site \union PrewarmCallsites /\ registry \in [Known -> Nat]
    /\ since \in [Site -> Nat] /\ missed \in [Site -> Nat]
    /\ calls \in [AnyThread -> Seq(BridgeCall)]

StacksOk == \A t \in AnyThread : StackOk(mode, Known, Where(t), t, calls[t])

QueueOk ==
    /\ queue \in Seq(Envelopes)
    /\ \A i \in 1..Len(queue) : EnvOk(mode, Known, queue[i])
    /\ ~mode.queued => queue = <<>>

(* A thread that may not emit is inside a guarded emit, the holder of the  *)
(* lock delivers.                                                          *)
WithTop(cs, r) == [cs EXCEPT ![Len(cs)] = r]
HasSink(cs) == \E i \in 1..Len(cs) : cs[i].fn = "deliver"
InEmit(cs) == 1 \in 1..Len(cs) /\ cs[1].fn = "emit"

GuardsOk ==
    \A t \in AnyThread : (~can_enter[t] => InEmit(calls[t])) /\ (lock = t => HasSink(calls[t]))

(* A thread has as many scope frames as entries into spans, and they are   *)
(* those of the spans unless one was exited out of turn.                   *)
SpansOk ==
    /\ DOMAIN ctx \subseteq Span /\ ctx \in [DOMAIN ctx -> BridgeCtx]
    /\ \A sp \in DOMAIN ctx :
          /\ ctx[sp].id = sp /\ ctx[sp].trace # None
          /\ ctx[sp].parent # None =>
                ctx[sp].parent \in DOMAIN ctx /\ ctx[sp].trace \in {Given, ctx[ctx[sp].parent].trace}
    /\ entered \in [AnyThread -> Seq(DOMAIN ctx)]
    /\ frames \in [AnyThread -> Seq(BridgeCtx)]
    /\ \A t \in AnyThread :
          /\ Len(frames[t]) = Len(entered[t])
          /\ ~crossed[t] => \A i \in 1..Len(entered[t]) : frames[t][i] = ctx[entered[t][i]]
    /\ crossed \in [AnyThread -> BOOLEAN]

(* The correlation of a span, with the parent of another where it has none. *)
Agrees(c, d) == c.trace = d.trace /\ c.id = d.id /\ (c.parent = d.parent \/ d.parent = None)

Correlated(e) ==
    e.kind \in {"native", "event"} =>
        IF e.at = None THEN e.ctx = NoCtx ELSE e.at \in DOMAIN ctx /\ (e.nested => Agrees(e.ctx, ctx[e.at]))

SentOk ==
    \A e \in sent : Correlated(e) /\ e.kind # "unresolved" /\ (~mode.dynamic => e.hops = 0)

BridgeInv == BridgeType /\ StacksOk /\ QueueOk /\ GuardsOk /\ SpansOk /\ SentOk

(* How far the lift of an event of a callsite has come. *)
PhaseOf(c, s) ==
    IF c.fn = "on_event" /\ c.env.site = s /\ c.env.kind = "event" /\ c.at \in {"register", "reset", "emit"}
    THEN IF c.at = "register" /\ ~c.stale THEN "first" ELSE c.at
    ELSE "none"

Phase(cs, t, s) == IF Pos(t) \in 1..Len(cs) THEN PhaseOf(cs[Pos(t)], s) ELSE "none"

(* The innermost call is at that place, and the phases the stack is in are *)
(* those of a call, none, or as before.                                    *)
AtPos(cs, t) == Len(cs) = Pos(t)
PhaseIs(cs, t, c) == \A s \in Site : Phase(cs, t, s) = PhaseOf(c, s)
Silent(cs, t) == \A s \in Site : Phase(cs, t, s) = "none"
Quiet(c) == \A s \in Site : PhaseOf(c, s) = "none"
SamePhase(cs, new, t) == \A s \in Site : Phase(new, t, s) = Phase(cs, t, s)

InPhase(ps, s) == {t \in AnyThread : Phase(calls[t], t, s) \in ps}

(* The threads about to send an interned envelope, those about to reset    *)
(* the count, and those that found the registration due.                   *)
Sending(s) == InPhase({"emit"}, s)
Resetting(s) == InPhase({"reset"}, s)
Due(s) == InPhase({"register", "reset"}, s)

(* What is left until the registration of a callsite is due by its count. *)
Left(c) == IF c < RefreshCount THEN RefreshCount - 1 - c ELSE 0

(* What the registrations that did not go out allow. *)
Slack(n, lost) == n * RefreshCount * lost

(* Each thread about to reset the count allows RefreshCount more interned  *)
(* envelopes, the count itself what is left of it.                         *)
CountOk(n, count, sending, resetting, due, passed, slack) ==
    /\ passed + sending + resetting * RefreshCount + Left(count) <= n * RefreshCount + slack
    /\ due = n => count >= RefreshCount

OldOk(n, sending, resetting, passed, slack) ==
    passed + sending + resetting <= n * RefreshCount + slack

SiteOk(s) ==
    LET n == Cardinality(Lifting)
        sending == Cardinality(Sending(s))
        resetting == Cardinality(Resetting(s))
        due == Cardinality(Due(s))
    IN IF s \notin Known THEN since[s] = 0 /\ InPhase({"first", "register", "reset", "emit"}, s) = {}
       ELSE IF s \in old THEN OldOk(n, sending, resetting, since[s], Slack(n, missed[s]))
       ELSE CountOk(n, registry[s], sending, resetting, due, since[s], Slack(n, missed[s]))

CountsOk == mode.queued \/ ~mode.dynamic => \A s \in Site : SiteOk(s)

LEMMA BridgeWords ==
    /\ None \notin AnyThread /\ None \notin Site /\ None \notin Span
    /\ Site \cap PrewarmCallsites = {} /\ Site # {}
    /\ RefreshCount \in Nat \ {0}
    /\ \A m \in Modes : m.dynamic \in BOOLEAN /\ m.queued \in BOOLEAN
    /\ NoCtx \in BridgeCtx
    /\ \A sp \in Span, c \in BridgeCtx : c.id = sp => c # NoCtx
<1>1. /\ None \notin AnyThread /\ None \notin Site /\ None \notin Span
      /\ Site \cap PrewarmCallsites = {} /\ Site # {}
      /\ RefreshCount \in Nat \ {0}
  BY BridgeAssumption DEF None, AnyThread, PrewarmCallsites
<1>2. \A m \in Modes : m.dynamic \in BOOLEAN /\ m.queued \in BOOLEAN
  BY BridgeAssumption
<1>3. NoCtx \in BridgeCtx
  BY DEF NoCtx, BridgeCtx
<1> QED
  BY <1>1, <1>2, <1>3 DEF NoCtx

(* A call is one of the three kinds, told by its function. *)
LEMMA CallKinds ==
    ASSUME NEW m, NEW known, NEW here, NEW t, NEW i, NEW c, CallOk(m, known, here, t, i, c)
    PROVE  /\ c \in BridgeCall
           /\ c.fn = "emit" => EmitOk(t, i, c)
           /\ c.fn = "deliver" => SinkOk(m, known, t, i, c)
           /\ c.fn = "on_event" => LayerOk(m, known, here, t, i, c)
BY DEF CallOk, EmitOk, SinkOk, LayerOk, BridgeCall, EmitCall, SinkCall, LayerCall

LEMMA CallGrows ==
    ASSUME NEW m, NEW known, NEW more, known \subseteq more, NEW here, NEW t, NEW i, NEW c,
           CallOk(m, known, here, t, i, c)
    PROVE  CallOk(m, more, here, t, i, c)
BY DEF CallOk, EmitOk, SinkOk, LayerOk, EnvOk

(* A call that goes on to another place, or in place of the last one. *)
LEMMA GoesOn ==
    ASSUME NEW cs \in Seq(BridgeCall), cs # <<>>, NEW r \in BridgeCall
    PROVE  /\ Len(cs) \in 1..Len(cs) /\ Last(cs) = cs[Len(cs)]
           /\ [cs EXCEPT ![Len(cs)] = r] \in Seq(BridgeCall)
           /\ Len([cs EXCEPT ![Len(cs)] = r]) = Len(cs)
           /\ \A i \in 1..Len(cs) :
                 [cs EXCEPT ![Len(cs)] = r][i] = IF i = Len(cs) THEN r ELSE cs[i]
BY DEF Last

LEMMA Pushed ==
    ASSUME NEW cs \in Seq(BridgeCall), NEW r \in BridgeCall
    PROVE  /\ Append(cs, r) \in Seq(BridgeCall)
           /\ Len(Append(cs, r)) = Len(cs) + 1
           /\ \A i \in 1..(Len(cs) + 1) : Append(cs, r)[i] = IF i = Len(cs) + 1 THEN r ELSE cs[i]
           /\ \A i \in 1..(Len(cs) + 1) : i = Len(cs) + 1 \/ i \in 1..Len(cs)
BY DEF BridgeCall

LEMMA StackGoesOn ==
    ASSUME NEW m, NEW known, NEW here, NEW t, NEW cs,
           StackOk(m, known, here, t, cs), cs # <<>>,
           NEW r, CallOk(m, known, here, t, Len(cs), r), r.fn = Last(cs).fn,
           NEW new, new = WithTop(cs, r)
    PROVE  /\ StackOk(m, known, here, t, new) /\ new # <<>> /\ Len(new) = Len(cs) /\ Last(new) = r
           /\ HasSink(cs) => HasSink(new)
           /\ InEmit(cs) => InEmit(new)
           /\ AtPos(cs, t) => PhaseIs(new, t, r) /\ PhaseIs(cs, t, Last(cs))
           /\ ~AtPos(cs, t) => SamePhase(cs, new, t)
<1>1. cs \in Seq(BridgeCall) /\ r \in BridgeCall
  BY CallKinds DEF StackOk
<1>2. /\ Len(cs) \in 1..Len(cs) /\ Last(cs) = cs[Len(cs)]
      /\ new \in Seq(BridgeCall) /\ Len(new) = Len(cs)
      /\ \A i \in 1..Len(cs) : new[i] = IF i = Len(cs) THEN r ELSE cs[i]
  BY <1>1, GoesOn DEF WithTop
<1>3. new # <<>> /\ Last(new) = r
  BY <1>2 DEF Last
<1>4. \A i \in 1..Len(cs) : CallOk(m, known, here, t, i, new[i])
  <2> SUFFICES ASSUME NEW i \in 1..Len(cs) PROVE CallOk(m, known, here, t, i, new[i])
    OBVIOUS
  <2>1. CallOk(m, known, here, t, i, cs[i])
    BY DEF StackOk
  <2> QED
    BY <1>2, <2>1
<1>5. \A i \in 1..Len(cs) : new[i].fn = cs[i].fn
  BY <1>2
<1>6. (HasSink(cs) => HasSink(new)) /\ (InEmit(cs) => InEmit(new))
  BY <1>2, <1>5 DEF HasSink, InEmit
<1>7. AtPos(cs, t) => PhaseIs(new, t, r) /\ PhaseIs(cs, t, Last(cs))
  BY <1>2 DEF Phase, AtPos, PhaseIs, SamePhase
<1>8. ~AtPos(cs, t) => SamePhase(cs, new, t)
  BY <1>2 DEF Phase, AtPos, PhaseIs, SamePhase
<1> QED
  BY <1>2, <1>3, <1>4, <1>6, <1>7, <1>8 DEF StackOk

LEMMA StackPushes ==
    ASSUME NEW m, NEW known, NEW here, NEW t, NEW cs, StackOk(m, known, here, t, cs),
           NEW r, CallOk(m, known, here, t, Len(cs) + 1, r)
    PROVE  LET new == Append(cs, r)
           IN /\ StackOk(m, known, here, t, new)
              /\ HasSink(cs) \/ r.fn = "deliver" => HasSink(new)
              /\ InEmit(cs) \/ (cs = <<>> /\ r.fn = "emit") => InEmit(new)
              /\ Quiet(r) => SamePhase(cs, new, t)
<1> DEFINE new == Append(cs, r)
           n == Len(cs)
<1>1. cs \in Seq(BridgeCall) /\ r \in BridgeCall
  BY CallKinds DEF StackOk
<1>2. /\ new \in Seq(BridgeCall) /\ Len(new) = n + 1
      /\ \A i \in 1..(n + 1) : new[i] = IF i = n + 1 THEN r ELSE cs[i]
      /\ \A i \in 1..(n + 1) : i = n + 1 \/ i \in 1..n
  BY <1>1, Pushed
<1>n. n \in Nat /\ (cs = <<>> => n = 0)
  BY <1>1
<1>3. \A i \in 1..n : CallOk(m, known, here, t, i, cs[i])
  BY DEF StackOk
<1> HIDE DEF new, n
<1>4. \A i \in 1..(n + 1) : CallOk(m, known, here, t, i, new[i])
  BY <1>2, <1>3 DEF n
<1>5. StackOk(m, known, here, t, new)
  BY <1>2, <1>4 DEF StackOk
<1>6. n + 1 \in 1..(n + 1) /\ \A i \in 1..n : i \in 1..(n + 1) /\ i # n + 1
  BY ONLY <1>n
<1>7. HasSink(cs) \/ r.fn = "deliver" => HasSink(new)
  BY ONLY <1>2, <1>6 DEF HasSink, n
<1>8. InEmit(cs) \/ (cs = <<>> /\ r.fn = "emit") => InEmit(new)
  BY ONLY <1>2, <1>6, <1>n DEF InEmit, n
<1>9. Quiet(r) => SamePhase(cs, new, t)
  <2> SUFFICES ASSUME NEW s \in Site, PhaseOf(r, s) = "none" PROVE Phase(new, t, s) = Phase(cs, t, s)
    BY DEF Quiet, SamePhase
  <2> DEFINE p == Pos(t)
  <2> HIDE DEF p
  <2>1. Phase(new, t, s) = IF p \in 1..(n + 1) THEN PhaseOf(new[p], s) ELSE "none"
    BY <1>2 DEF Phase, p
  <2>2. Phase(cs, t, s) = IF p \in 1..n THEN PhaseOf(cs[p], s) ELSE "none"
    BY DEF Phase, p, n
  <2> QED
    BY ONLY <1>2, <1>6, <2>1, <2>2, PhaseOf(r, s) = "none"
<1> QED
  BY <1>5, <1>7, <1>8, <1>9 DEF new

LEMMA StackReturns ==
    ASSUME NEW m, NEW known, NEW here, NEW t, NEW cs, StackOk(m, known, here, t, cs), cs # <<>>
    PROVE  LET new == Front(cs)
           IN /\ StackOk(m, known, here, t, new)
              /\ HasSink(cs) /\ Last(cs).fn # "deliver" => HasSink(new)
              /\ InEmit(cs) /\ Last(cs).fn # "emit" => InEmit(new)
              /\ Quiet(Last(cs)) => SamePhase(cs, new, t)
              /\ AtPos(cs, t) => Silent(new, t) /\ PhaseIs(cs, t, Last(cs))
<1> DEFINE new == Front(cs)
           n == Len(cs)
<1>1. cs \in Seq(BridgeCall)
  BY DEF StackOk
<1>2. /\ Last(cs) = cs[n] /\ n \in 1..n /\ new \in Seq(BridgeCall) /\ Len(new) = n - 1
      /\ \A i \in 1..(n - 1) : i \in 1..n /\ new[i] = cs[i]
  BY <1>1, SequenceEnds
<1>n. n \in Nat
  BY <1>1
<1>3. \A i \in 1..n : CallOk(m, known, here, t, i, cs[i])
  BY DEF StackOk
<1> HIDE DEF new, n
<1>4. \A i \in 1..(n - 1) : CallOk(m, known, here, t, i, new[i])
  BY <1>2, <1>3
<1>5. StackOk(m, known, here, t, new)
  BY <1>2, <1>4 DEF StackOk
<1>6. \A i \in 1..n : i = n \/ i \in 1..(n - 1)
  BY ONLY <1>n
<1>6a. n \notin 1..(n - 1)
  BY ONLY <1>n
<1>7. HasSink(cs) /\ Last(cs).fn # "deliver" => HasSink(new)
  BY ONLY <1>2, <1>6 DEF HasSink, n
<1>8. InEmit(cs) /\ Last(cs).fn # "emit" => InEmit(new)
  BY ONLY <1>2, <1>6 DEF InEmit, n
<1>9. /\ Quiet(Last(cs)) => SamePhase(cs, new, t)
      /\ AtPos(cs, t) => Silent(new, t) /\ PhaseIs(cs, t, Last(cs))
  <2> SUFFICES ASSUME NEW s \in Site
               PROVE  /\ PhaseOf(Last(cs), s) = "none" => Phase(new, t, s) = Phase(cs, t, s)
                      /\ n = Pos(t) => Phase(new, t, s) = "none" /\ Phase(cs, t, s) = PhaseOf(Last(cs), s)
    BY DEF Quiet, SamePhase, Silent, PhaseIs, AtPos, n
  <2> DEFINE p == Pos(t)
  <2> HIDE DEF p
  <2>1. Phase(new, t, s) = IF p \in 1..(n - 1) THEN PhaseOf(new[p], s) ELSE "none"
    BY <1>2 DEF Phase, p
  <2>2. Phase(cs, t, s) = IF p \in 1..n THEN PhaseOf(cs[p], s) ELSE "none"
    BY DEF Phase, p, n
  <2>3. /\ PhaseOf(Last(cs), s) = "none" => Phase(new, t, s) = Phase(cs, t, s)
        /\ n = p => Phase(new, t, s) = "none" /\ Phase(cs, t, s) = PhaseOf(Last(cs), s)
    BY ONLY <1>2, <1>6, <1>6a, <2>1, <2>2
  <2> QED
    BY <2>3 DEF p
<1> QED
  BY <1>5, <1>7, <1>8, <1>9 DEF new, n, AtPos

LEMMA StackBegins ==
    ASSUME NEW m, NEW known, NEW here, NEW t, NEW r, CallOk(m, known, here, t, 1, r)
    PROVE  /\ StackOk(m, known, here, t, <<r>>) /\ StackOk(m, known, here, t, <<>>)
           /\ ~HasSink(<<>>) /\ ~InEmit(<<>>)
           /\ Quiet(r) => Silent(<<r>>, t)
           /\ Silent(<<>>, t)
<1>1. r \in BridgeCall
  BY CallKinds
<1>2. StackOk(m, known, here, t, <<r>>) /\ StackOk(m, known, here, t, <<>>)
  BY <1>1 DEF StackOk
<1>3. ~HasSink(<<>>) /\ ~InEmit(<<>>)
  BY DEF HasSink, InEmit
<1>4. Quiet(r) => Silent(<<r>>, t)
  BY DEF Phase, Quiet, Silent
<1>5. Silent(<<>>, t)
  BY DEF Phase, Quiet, Silent
<1> QED
  BY <1>2, <1>3, <1>4, <1>5

(* No lift of an event goes on. *)
PhasesKept == \A u \in AnyThread : SamePhase(calls[u], calls'[u], u)

(* The registry only grows. *)
RegistryGrows ==
    Known \subseteq Known' /\ Known' \subseteq Site \union PrewarmCallsites /\ registry' \in [Known' -> Nat]

LEMMA StackGrows ==
    ASSUME NEW m, NEW known, NEW more, known \subseteq more, NEW here, NEW t, NEW cs,
           StackOk(m, known, here, t, cs)
    PROVE  StackOk(m, more, here, t, cs)
BY CallGrows DEF StackOk

LEMMA StacksStep ==
    ASSUME BridgeInv, RegistryGrows, mode' = mode, \A u \in AnyThread : Where(u)' = Where(u),
           NEW t \in AnyThread, NEW cs, calls' = [calls EXCEPT ![t] = cs],
           StackOk(mode, Known', Where(t), t, cs)
    PROVE  StacksOk' /\ calls' \in [AnyThread -> Seq(BridgeCall)]
<1>1. /\ calls'[t] = cs /\ \A u \in AnyThread : u # t => calls'[u] = calls[u]
      /\ calls' \in [AnyThread -> Seq(BridgeCall)]
  BY DEF BridgeInv, BridgeType, StackOk
<1>2. \A u \in AnyThread : StackOk(mode, Known', Where(u), u, calls'[u])
  <2> SUFFICES ASSUME NEW u \in AnyThread, u # t PROVE StackOk(mode, Known', Where(u), u, calls[u])
    BY <1>1
  <2>1. StackOk(mode, Known, Where(u), u, calls[u])
    BY DEF BridgeInv, StacksOk
  <2> QED
    BY <2>1, StackGrows DEF RegistryGrows
<1> QED
  BY <1>1, <1>2 DEF StacksOk

LEMMA SameWhere == UNCHANGED spanVars => \A u \in AnyThread : Where(u)' = Where(u)
BY DEF spanVars, Where, SpanCtx, CurrentSpan

LEMMA QueueStep ==
    ASSUME BridgeInv, RegistryGrows, mode' = mode,
           \/ queue' = queue
           \/ mode.queued /\ \E e : EnvOk(mode, Known', e) /\ queue' = Append(queue, e)
    PROVE  QueueOk'
<1>1. \A e : EnvOk(mode, Known, e) => EnvOk(mode, Known', e)
  BY DEF EnvOk, RegistryGrows
<1>2. QueueOk
  BY DEF BridgeInv
<1>3. CASE queue' = queue
  BY <1>1, <1>2, <1>3 DEF QueueOk
<1>4. ASSUME mode.queued, NEW e, EnvOk(mode, Known', e), queue' = Append(queue, e) PROVE QueueOk'
  <2>1. e \in Envelopes /\ queue \in Seq(Envelopes)
    BY <1>2, <1>4 DEF EnvOk, QueueOk
  <2>2. /\ Append(queue, e) \in Seq(Envelopes) /\ Len(Append(queue, e)) = Len(queue) + 1
        /\ Append(queue, e)[Len(queue) + 1] = e
        /\ \A i \in 1..Len(queue) : Append(queue, e)[i] = queue[i]
        /\ \A i \in 1..(Len(queue) + 1) : i = Len(queue) + 1 \/ i \in 1..Len(queue)
    BY <2>1
  <2>3. \A i \in 1..(Len(queue) + 1) : EnvOk(mode, Known', Append(queue, e)[i])
    BY <1>1, <1>2, <1>4, <2>2 DEF QueueOk
  <2> QED
    BY <1>4, <2>2, <2>3 DEF QueueOk
<1> QED
  BY <1>3, <1>4

LEMMA SpansStep ==
    ASSUME BridgeInv, UNCHANGED spanVars
    PROVE  SpansOk'
BY DEF BridgeInv, SpansOk, spanVars

LEMMA SentStep ==
    ASSUME BridgeInv, UNCHANGED spanVars, mode' = mode,
           \/ sent' = sent
           \/ \E e : /\ sent' = sent \union {e} /\ Correlated(e) /\ e.kind # "unresolved"
                     /\ ~mode.dynamic => e.hops = 0
    PROVE  SentOk'
<1>1. \A e : Correlated(e) => Correlated(e)'
  BY DEF Correlated, spanVars
<1>2. SentOk
  BY DEF BridgeInv
<1> QED
  BY <1>1, <1>2 DEF SentOk

(* The innermost call of a thread goes on to another place. *)
LEMMA StepGoesOn ==
    ASSUME BridgeInv, RegistryGrows, UNCHANGED <<mode, can_enter, lock, queue, spanVars, sent, since, missed>>,
           NEW t \in AnyThread, calls[t] # <<>>, NEW r, r.fn = Top(t).fn,
           CallOk(mode, Known', Where(t), t, Len(calls[t]), r),
           calls' = [calls EXCEPT ![t] = WithTop(calls[t], r)]
    PROVE  /\ BridgeInv'
           /\ Quiet(r) /\ Quiet(Top(t)) => PhasesKept
           /\ AtPos(calls[t], t) => PhaseIs(calls'[t], t, r) /\ PhaseIs(calls[t], t, Top(t))
           /\ \A u \in AnyThread : u # t => calls'[u] = calls[u]
<1> DEFINE cs == calls[t]
           new == WithTop(cs, r)
<1>1. StackOk(mode, Known, Where(t), t, cs) /\ cs # <<>>
  BY DEF BridgeInv, StacksOk
<1>2. /\ StackOk(mode, Known', Where(t), t, new)
      /\ HasSink(cs) => HasSink(new)
      /\ InEmit(cs) => InEmit(new)
      /\ AtPos(cs, t) => PhaseIs(new, t, r) /\ PhaseIs(cs, t, Last(cs))
      /\ ~AtPos(cs, t) => SamePhase(cs, new, t)
  <2>1. /\ StackOk(mode, Known', Where(t), t, cs) /\ r.fn = Last(cs).fn
        /\ CallOk(mode, Known', Where(t), t, Len(cs), r)
    BY <1>1, StackGrows DEF RegistryGrows, Top
  <2>2. new = WithTop(cs, r)
    OBVIOUS
  <2> HIDE DEF cs, new
  <2> QED
    BY ONLY <1>1, <2>1, <2>2, StackGoesOn
<1>3. calls' = [calls EXCEPT ![t] = new] /\ calls \in [AnyThread -> Seq(BridgeCall)]
  BY DEF BridgeInv, BridgeType
<1> HIDE DEF new
<1>4. calls'[t] = new /\ \A u \in AnyThread : u # t => calls'[u] = calls[u]
  BY <1>3
<1>5. StacksOk' /\ calls' \in [AnyThread -> Seq(BridgeCall)]
  BY <1>2, <1>3, SameWhere, StacksStep
<1>6. BridgeType'
  BY <1>5 DEF BridgeInv, BridgeType, RegistryGrows
<1>7. GuardsOk'
  BY <1>2, <1>4 DEF BridgeInv, GuardsOk
<1>8. BridgeInv'
  BY <1>5, <1>6, <1>7, QueueStep, SpansStep, SentStep DEF BridgeInv
<1>9. ASSUME Quiet(r), Quiet(Top(t)) PROVE PhasesKept
  BY <1>2, <1>4, <1>9 DEF PhasesKept, SamePhase, PhaseIs, Quiet, Top
<1>10. AtPos(calls[t], t) => PhaseIs(calls'[t], t, r) /\ PhaseIs(calls[t], t, Top(t))
  BY <1>2, <1>4 DEF Top
<1> QED
  BY <1>4, <1>8, <1>9, <1>10

(* The innermost call of a thread returns. *)
LEMMA StepReturns ==
    ASSUME BridgeInv, UNCHANGED <<mode, queue, registry, spanVars, sent, since, missed>>,
           NEW t \in AnyThread, calls[t] # <<>>, calls' = [calls EXCEPT ![t] = Front(calls[t])],
           \/ can_enter' = can_enter /\ Top(t).fn # "emit"
           \/ can_enter' = [can_enter EXCEPT ![t] = TRUE],
           \/ lock' = lock /\ Top(t).fn # "deliver"
           \/ lock' = IF lock = t THEN None ELSE lock
    PROVE  BridgeInv' /\ (Quiet(Top(t)) => PhasesKept)
<1> DEFINE cs == calls[t]
           new == Front(cs)
<1>1. StackOk(mode, Known, Where(t), t, cs) /\ cs # <<>>
  BY DEF BridgeInv, StacksOk
<1>2. /\ StackOk(mode, Known, Where(t), t, new)
      /\ HasSink(cs) /\ Last(cs).fn # "deliver" => HasSink(new)
      /\ InEmit(cs) /\ Last(cs).fn # "emit" => InEmit(new)
      /\ Quiet(Last(cs)) => SamePhase(cs, new, t)
  BY <1>1, StackReturns
<1>3. calls' = [calls EXCEPT ![t] = new] /\ calls \in [AnyThread -> Seq(BridgeCall)]
  BY DEF BridgeInv, BridgeType
<1> HIDE DEF new
<1>4. calls'[t] = new /\ \A u \in AnyThread : u # t => calls'[u] = calls[u]
  BY <1>3
<1>r. RegistryGrows /\ Known' = Known
  BY DEF RegistryGrows, Known, BridgeInv, BridgeType
<1>5. StacksOk' /\ calls' \in [AnyThread -> Seq(BridgeCall)]
  BY <1>2, <1>3, <1>r, SameWhere, StacksStep
<1>6. BridgeType'
  BY <1>5, <1>r DEF BridgeInv, BridgeType
<1>7. GuardsOk'
  <2>1. /\ can_enter \in [AnyThread -> BOOLEAN] /\ None \notin AnyThread
        /\ \A u \in AnyThread : (~can_enter[u] => InEmit(calls[u])) /\ (lock = u => HasSink(calls[u]))
    BY BridgeWords DEF BridgeInv, BridgeType, GuardsOk
  <2>2. \A u \in AnyThread : ~can_enter'[u] => ~can_enter[u] /\ (u = t => Last(cs).fn # "emit")
    BY <2>1 DEF Top
  <2>3. \A u \in AnyThread : lock' = u => lock = u /\ (u = t => Last(cs).fn # "deliver")
    BY <2>1 DEF Top
  <2> QED
    BY <1>2, <1>4, <2>1, <2>2, <2>3 DEF GuardsOk
<1>8. BridgeInv'
  BY <1>5, <1>6, <1>7, <1>r, QueueStep, SpansStep, SentStep DEF BridgeInv
<1>9. ASSUME Quiet(Top(t)) PROVE PhasesKept
  BY <1>2, <1>4, <1>9 DEF PhasesKept, SamePhase, PhaseIs, Quiet, Top
<1> QED
  BY <1>8, <1>9

(* A thread that was idle begins a call. *)
LEMMA StepBegins ==
    ASSUME BridgeInv, UNCHANGED <<mode, can_enter, lock, registry, sent, since, missed>>,
           QueueOk', SpansOk', SentOk', \A u \in AnyThread : Where(u)' = Where(u),
           NEW t \in AnyThread, calls[t] = <<>>, NEW r, CallOk(mode, Known, Where(t), t, 1, r),
           calls' = [calls EXCEPT ![t] = <<r>>]
    PROVE  BridgeInv' /\ (Quiet(r) => PhasesKept)
<1>1. /\ StackOk(mode, Known, Where(t), t, <<r>>)
      /\ ~HasSink(<<>>) /\ ~InEmit(<<>>) /\ Silent(<<>>, t)
      /\ Quiet(r) => Silent(<<r>>, t)
  BY StackBegins
<1>2. calls \in [AnyThread -> Seq(BridgeCall)]
  BY DEF BridgeInv, BridgeType
<1>3. calls'[t] = <<r>> /\ \A u \in AnyThread : u # t => calls'[u] = calls[u]
  BY <1>2
<1>r. RegistryGrows /\ Known' = Known
  BY DEF RegistryGrows, Known, BridgeInv, BridgeType
<1>4. StacksOk' /\ calls' \in [AnyThread -> Seq(BridgeCall)]
  BY <1>1, <1>r, StacksStep
<1>5. BridgeType'
  BY <1>4, <1>r DEF BridgeInv, BridgeType
<1>6. GuardsOk'
  BY <1>1, <1>3 DEF BridgeInv, GuardsOk
<1>7. BridgeInv'
  BY <1>4, <1>5, <1>6 DEF BridgeInv
<1>8. ASSUME Quiet(r) PROVE PhasesKept
  BY <1>1, <1>3, <1>8 DEF PhasesKept, SamePhase, Silent
<1> QED
  BY <1>7, <1>8

LEMMA GotoIs == \A cs, at : Goto(cs, at) = WithTop(cs, [Last(cs) EXCEPT !.at = at])
BY DEF Goto, WithTop, Last

(* As long as the spans of a thread are nested, the scope frame it is in   *)
(* is that of the span it entered last.                                    *)
LEMMA FrameIs ==
    ASSUME SpansOk, NEW t \in AnyThread
    PROVE  /\ frames[t] = <<>> <=> entered[t] = <<>>
           /\ frames[t] \in Seq(BridgeCtx) /\ Len(frames[t]) \in Nat
           /\ entered[t] # <<>> => /\ Last(entered[t]) \in DOMAIN ctx
                                   /\ Len(frames[t]) \in 1..Len(frames[t])
                                   /\ ~crossed[t] => frames[t][Len(frames[t])] = ctx[Last(entered[t])]
<1>1. /\ entered[t] \in Seq(DOMAIN ctx) /\ frames[t] \in Seq(BridgeCtx)
      /\ Len(frames[t]) = Len(entered[t])
      /\ ~crossed[t] => \A i \in 1..Len(entered[t]) : frames[t][i] = ctx[entered[t][i]]
  BY DEF SpansOk
<1>2. (frames[t] = <<>> <=> entered[t] = <<>>) /\ Len(frames[t]) \in Nat
  BY <1>1
<1>3. ASSUME entered[t] # <<>>
      PROVE  /\ Last(entered[t]) \in DOMAIN ctx /\ Last(entered[t]) = entered[t][Len(entered[t])]
             /\ Len(entered[t]) \in 1..Len(entered[t])
  BY <1>1, <1>3, SequenceEnds
<1> QED
  BY <1>1, <1>2, <1>3

(* The current span is one of those the thread has entered. *)
LEMMA CurrentIs ==
    ASSUME SpansOk, NEW t \in AnyThread
    PROVE  /\ entered[t] = <<>> => CurrentSpan(t) = None
           /\ entered[t] # <<>> => CurrentSpan(t) \in DOMAIN ctx
<1>1. entered[t] \in Seq(DOMAIN ctx)
  BY DEF SpansOk
<1>2. ASSUME entered[t] # <<>> PROVE CurrentSpan(t) \in DOMAIN ctx
  <2> DEFINE es == entered[t]
             n == Len(es)
             first == {i \in DOMAIN es : \A j \in DOMAIN es : j < i => es[j] # es[i]}
  <2>1. n \in Nat /\ DOMAIN es = 1..n /\ 1 \in 1..n /\ \A i \in 1..n : es[i] \in DOMAIN ctx
    BY <1>1, <1>2
  <2>2. first \subseteq 1..n
    BY <2>1
  <2>3. 1 \in first
    <3>1. \A j \in 1..n : ~(j < 1)
      BY ONLY <2>1
    <3> QED
      BY <2>1, <3>1
  <2>4. CurrentSpan(t) = es[Max(first)]
    BY <1>2 DEF CurrentSpan
  <2> HIDE DEF first, n
  <2>5. Max(first) \in first
    <3>1. first \in SUBSET (1..n) /\ first # {}
      BY <2>2, <2>3
    <3> QED
      BY ONLY <2>1, <3>1, MaxIsIn
  <2> QED
    BY <2>1, <2>2, <2>4, <2>5
<1> QED
  BY <1>2 DEF CurrentSpan

(* An event is emitted where the thread is. *)
IsHere(t, env) ==
    /\ env.kind = "event" => env.at = Where(t).at /\ env.ctx = Where(t).ctx
    /\ env.kind = "native" => /\ env.at = IF entered[t] = <<>> THEN None ELSE Last(entered[t])
                              /\ env.ctx = NoCtx /\ env.nested = ~crossed[t]

(* A field is the envelope's own, else that of the frame on top if it has  *)
(* one, else of some frame.                                                *)
LEMMA InheritedIs ==
    ASSUME NEW S, NEW own \in S, NEW n \in Nat, NEW v \in [1..n -> S]
    PROVE  /\ Inherited(own, v) \in S
           /\ own # None \/ n = 0 => Inherited(own, v) = own
           /\ own = None /\ n # 0 /\ v[n] # None => Inherited(own, v) = v[n]
<1> DEFINE has == {i \in DOMAIN v : v[i] # None}
<1>1. has \in SUBSET (1..n) /\ Inherited(own, v) = IF own # None \/ has = {} THEN own ELSE v[Max(has)]
  BY DEF Inherited
<1>2. \A i \in has : v[i] \in S /\ v[i] # None
  OBVIOUS
<1>3. v[n] # None /\ n # 0 => n \in has
  OBVIOUS
<1>4. n = 0 => 1..n = {}
  OBVIOUS
<1> HIDE DEF has
<1>5. has # {} => Max(has) \in has /\ \A i \in has : Max(has) >= i
  BY ONLY <1>1, n \in Nat, MaxIsIn
<1>6. has # {} /\ n \in has => Max(has) = n
  <2>1. \A i \in 1..n : i >= n => i = n
    BY ONLY n \in Nat
  <2> QED
    BY <1>1, <1>5, <2>1
<1> QED
  BY <1>1, <1>2, <1>3, <1>4, <1>5, <1>6

LEMMA FillIs ==
    ASSUME SpansOk, NEW t \in AnyThread, NEW m, NEW known, NEW env, EnvOk(m, known, env),
           IsHere(t, env)
    PROVE  /\ EnvOk(m, known, Fill(t, env)) /\ Correlated(Fill(t, env))
           /\ Fill(t, env).kind = env.kind /\ Fill(t, env).site = env.site /\ Fill(t, env).hops = env.hops
<1> DEFINE f == Fill(t, env)
           fs == frames[t]
           n == Len(fs)
           traces == [i \in DOMAIN fs |-> fs[i].trace]
           ids == [i \in DOMAIN fs |-> fs[i].id]
           parents == [i \in DOMAIN fs |-> fs[i].parent]
           c == [trace |-> Inherited(env.ctx.trace, traces), id |-> Inherited(env.ctx.id, ids),
                 parent |-> Inherited(env.ctx.parent, parents)]
<1>1. env \in Envelopes /\ env.ctx \in BridgeCtx
  BY DEF EnvOk, Envelopes
<1>2. n \in Nat /\ DOMAIN fs = 1..n /\ (n = 0 <=> entered[t] = <<>>) /\ \A i \in 1..n : fs[i] \in BridgeCtx
  BY FrameIs
<1>3. /\ traces \in [1..n -> Span \union {None, Given}] /\ env.ctx.trace \in Span \union {None, Given}
      /\ ids \in [1..n -> Span \union {None}] /\ env.ctx.id \in Span \union {None}
      /\ parents \in [1..n -> Span \union {None}] /\ env.ctx.parent \in Span \union {None}
  BY <1>1, <1>2 DEF BridgeCtx
<1>4. \A i \in 1..n : traces[i] = fs[i].trace /\ ids[i] = fs[i].id /\ parents[i] = fs[i].parent
  BY <1>2
<1>5. f = [env EXCEPT !.ctx = c]
  BY DEF Fill
<1>i. /\ c.trace = Inherited(env.ctx.trace, traces) /\ c.id = Inherited(env.ctx.id, ids)
      /\ c.parent = Inherited(env.ctx.parent, parents)
  OBVIOUS
<1>j. c = [trace |-> c.trace, id |-> c.id, parent |-> c.parent]
  OBVIOUS
<1> HIDE DEF f, n, traces, ids, parents, c
<1>6. /\ c.trace \in Span \union {None, Given}
      /\ env.ctx.trace # None \/ n = 0 => c.trace = env.ctx.trace
      /\ env.ctx.trace = None /\ n # 0 /\ traces[n] # None => c.trace = traces[n]
  <2>1. PICK S : S = Span \union {None, Given}
    OBVIOUS
  <2>2. PICK own : own = env.ctx.trace
    OBVIOUS
  <2>3. own \in S /\ n \in Nat /\ traces \in [1..n -> S]
    BY <1>2, <1>3, <2>1, <2>2
  <2>4. /\ Inherited(own, traces) \in S
        /\ own # None \/ n = 0 => Inherited(own, traces) = own
        /\ own = None /\ n # 0 /\ traces[n] # None => Inherited(own, traces) = traces[n]
    BY ONLY <2>3, InheritedIs
  <2> QED
    BY <1>i, <2>1, <2>2, <2>4
<1>7. /\ c.id \in Span \union {None}
      /\ env.ctx.id # None \/ n = 0 => c.id = env.ctx.id
      /\ env.ctx.id = None /\ n # 0 /\ ids[n] # None => c.id = ids[n]
  <2>1. PICK S : S = Span \union {None}
    OBVIOUS
  <2>2. PICK own : own = env.ctx.id
    OBVIOUS
  <2>3. own \in S /\ n \in Nat /\ ids \in [1..n -> S]
    BY <1>2, <1>3, <2>1, <2>2
  <2>4. /\ Inherited(own, ids) \in S
        /\ own # None \/ n = 0 => Inherited(own, ids) = own
        /\ own = None /\ n # 0 /\ ids[n] # None => Inherited(own, ids) = ids[n]
    BY ONLY <2>3, InheritedIs
  <2> QED
    BY <1>i, <2>1, <2>2, <2>4
<1>8. /\ c.parent \in Span \union {None}
      /\ env.ctx.parent # None \/ n = 0 => c.parent = env.ctx.parent
      /\ env.ctx.parent = None /\ n # 0 /\ parents[n] # None => c.parent = parents[n]
  <2>1. PICK S : S = Span \union {None}
    OBVIOUS
  <2>2. PICK own : own = env.ctx.parent
    OBVIOUS
  <2>3. own \in S /\ n \in Nat /\ parents \in [1..n -> S]
    BY <1>2, <1>3, <2>1, <2>2
  <2>4. /\ Inherited(own, parents) \in S
        /\ own # None \/ n = 0 => Inherited(own, parents) = own
        /\ own = None /\ n # 0 /\ parents[n] # None => Inherited(own, parents) = parents[n]
    BY ONLY <2>3, InheritedIs
  <2> QED
    BY <1>i, <2>1, <2>2, <2>4
<1>9. c \in BridgeCtx
  BY <1>6, <1>7, <1>8, <1>j DEF BridgeCtx
<1>c. n = 0 => c = env.ctx
  BY <1>1, <1>6, <1>7, <1>8, <1>j DEF BridgeCtx
<1>10. /\ f \in Envelopes /\ f.kind = env.kind /\ f.site = env.site /\ f.hops = env.hops /\ f.at = env.at
       /\ f.nested = env.nested /\ f.ctx = c
  BY <1>1, <1>5, <1>9 DEF Envelopes
<1>11. EnvOk(m, known, f)
  BY <1>10 DEF EnvOk
<1>12. ASSUME env.kind = "event"
       PROVE  IF f.at = None THEN f.ctx = NoCtx ELSE f.at \in DOMAIN ctx /\ Agrees(f.ctx, ctx[f.at])
  <2>1. f.at = CurrentSpan(t) /\ env.ctx = IF entered[t] = <<>> THEN NoCtx ELSE ctx[CurrentSpan(t)]
    BY <1>10, <1>12 DEF Where, SpanCtx, IsHere
  <2>2. CASE entered[t] = <<>>
    BY <1>2, <1>10, <1>c, <2>1, <2>2, CurrentIs
  <2>3. CASE entered[t] # <<>>
    <3>1. CurrentSpan(t) \in DOMAIN ctx
      BY <2>3, CurrentIs
    <3>2. /\ CurrentSpan(t) # None /\ ctx[CurrentSpan(t)].trace # None
          /\ ctx[CurrentSpan(t)].id # None
      BY <3>1, BridgeWords DEF SpansOk
    <3> QED
      BY <1>6, <1>7, <1>8, <1>10, <2>1, <2>3, <3>1, <3>2 DEF Agrees
  <2> QED
    BY <2>2, <2>3
<1>13. ASSUME env.kind = "native"
       PROVE  IF f.at = None THEN f.ctx = NoCtx
              ELSE f.at \in DOMAIN ctx /\ (f.nested => Agrees(f.ctx, ctx[f.at]))
  <2>1. /\ f.at = IF entered[t] = <<>> THEN None ELSE Last(entered[t])
        /\ env.ctx = NoCtx /\ f.nested = ~crossed[t]
    BY <1>10, <1>13 DEF IsHere
  <2>2. CASE entered[t] = <<>>
    BY <1>2, <1>10, <1>c, <2>1, <2>2
  <2>3. CASE entered[t] # <<>>
    <3>1. /\ Last(entered[t]) \in DOMAIN ctx /\ n # 0 /\ n \in 1..n
          /\ ~crossed[t] => fs[n] = ctx[Last(entered[t])]
      BY <1>2, <2>3, FrameIs DEF n
    <3>2. /\ Last(entered[t]) # None /\ ctx[Last(entered[t])].trace # None
          /\ ctx[Last(entered[t])].id # None
      BY <3>1, BridgeWords DEF SpansOk
    <3>3. traces[n] = fs[n].trace /\ ids[n] = fs[n].id /\ parents[n] = fs[n].parent
      BY <1>4, <3>1
    <3>4. env.ctx.trace = None /\ env.ctx.id = None /\ env.ctx.parent = None
      BY <2>1 DEF NoCtx
    <3>5. ~crossed[t] => Agrees(c, ctx[Last(entered[t])])
      BY <1>6, <1>7, <1>8, <3>1, <3>2, <3>3, <3>4 DEF Agrees
    <3> QED
      BY <1>10, <2>1, <2>3, <3>1, <3>2, <3>5
  <2> QED
    BY <2>2, <2>3
<1> QED
  BY <1>10, <1>11, <1>12, <1>13 DEF Correlated, f

(* What an emit does to what the consumers know of the callsites. *)
EmitCounts(t, env) ==
    \E out \in BOOLEAN :
        (out => can_enter[t]) /\ since' = Counted(env, out) /\ missed' = Missed(env, out)

LEMMA CountedIs ==
    ASSUME since \in [Site -> Nat], missed \in [Site -> Nat], NEW env, NEW out
    PROVE  Counted(env, out) \in [Site -> Nat] /\ Missed(env, out) \in [Site -> Nat]
<1>1. CASE IsRegistration(env)
  <2>1. env.kind # "event" \/ env.kind = "registered"
    BY <1>1 DEF IsRegistration
  <2>2. missed[env.site] \in Nat /\ missed[env.site] + 1 \in Nat
    BY <1>1 DEF IsRegistration
  <2>3. Counted(env, out) \in [Site -> Nat]
    BY <1>1, <2>1 DEF Counted, IsRegistration
  <2>4. PICK k \in Nat : Missed(env, out) = [missed EXCEPT ![env.site] = k]
    BY <1>1, <2>2 DEF Missed
  <2> QED
    BY <2>3, <2>4
<1>2. CASE ~IsRegistration(env) /\ env.kind = "event" /\ env.site # None
  <2>1. Counted(env, out) = [since EXCEPT ![env.site] = @ + 1] /\ Missed(env, out) = missed
    BY <1>2 DEF Counted, Missed
  <2>2. \A s \in Site : since[s] \in Nat /\ since[s] + 1 \in Nat
    OBVIOUS
  <2>3. [since EXCEPT ![env.site] = @ + 1] \in [Site -> Nat]
    BY <2>2
  <2> QED
    BY <2>1, <2>3
<1>3. CASE ~IsRegistration(env) /\ ~(env.kind = "event" /\ env.site # None)
  BY <1>3 DEF Counted, Missed
<1> QED
  BY <1>1, <1>2, <1>3

(* The stack after an emit: swallowed, or with workers, the call goes on;  *)
(* inline, the sink is called and the lock is taken.                       *)
LEMMA EmitIs ==
    ASSUME NEW t \in AnyThread, NEW env, NEW next, Emit(t, env, next)
    PROVE  LET f == Fill(t, env)
               cs == Goto(calls[t], next)
               sink == [fn |-> "deliver", at |-> "start", env |-> f]
           IN /\ \/ calls' = [calls EXCEPT ![t] = cs] /\ lock' = lock
                 \/ /\ calls' = [calls EXCEPT ![t] = Append(cs, sink)]
                    /\ lock' = t /\ lock = None /\ ~mode.queued
              /\ queue' = queue \/ (mode.queued /\ queue' = Append(queue, f))
              /\ sent' = sent \/ sent' = sent \union {f}
              /\ EmitCounts(t, env)
BY DEF Emit, Queued, DispatchedInline, Swallowed, EmitCounts

(* Only an emit of the thread itself moves its re-entry guard. *)
GuardStep(t) ==
    can_enter' = can_enter \/ (InEmit(calls[t]) /\ \E b \in BOOLEAN : can_enter' = [can_enter EXCEPT ![t] = b])

LEMMA StepSends ==
    ASSUME BridgeInv, RegistryGrows, UNCHANGED <<mode, spanVars>>,
           NEW t \in AnyThread, calls[t] # <<>>, NEW env, NEW next, Emit(t, env, next),
           EnvOk(mode, Known', env), env.kind # "unresolved",
           IsHere(t, env),
           NEW r, r = [Top(t) EXCEPT !.at = next], r.fn = Top(t).fn,
           CallOk(mode, Known', Where(t), t, Len(calls[t]), r),
           GuardStep(t)
    PROVE  /\ BridgeInv'
           /\ Quiet(r) /\ Quiet(Top(t)) => PhasesKept
           /\ AtPos(calls[t], t) => PhaseIs(calls'[t], t, r) /\ PhaseIs(calls[t], t, Top(t))
           /\ \A u \in AnyThread : u # t => calls'[u] = calls[u]
           /\ EmitCounts(t, env)
<1> DEFINE f == Fill(t, env)
           old1 == calls[t]
           mid == WithTop(old1, r)
           sink == [fn |-> "deliver", at |-> "start", env |-> f]
           new == Append(mid, sink)
<1>1. /\ EnvOk(mode, Known', f) /\ Correlated(f) /\ f.kind = env.kind /\ f.site = env.site /\ f.hops = env.hops
  BY FillIs DEF BridgeInv
<1>f. f \in Envelopes /\ (~mode.dynamic => f.hops = 0)
  BY <1>1 DEF EnvOk
<1>2. Goto(calls[t], next) = mid
  BY GotoIs DEF Top
<1>3. /\ \/ calls' = [calls EXCEPT ![t] = mid] /\ lock' = lock
         \/ calls' = [calls EXCEPT ![t] = new] /\ lock' = t /\ lock = None /\ ~mode.queued
      /\ queue' = queue \/ (mode.queued /\ queue' = Append(queue, f))
      /\ sent' = sent \/ sent' = sent \union {f}
      /\ EmitCounts(t, env)
  <2>1. /\ \/ calls' = [calls EXCEPT ![t] = Goto(calls[t], next)] /\ lock' = lock
           \/ /\ calls' = [calls EXCEPT ![t] = Append(Goto(calls[t], next), sink)]
              /\ lock' = t /\ lock = None /\ ~mode.queued
        /\ queue' = queue \/ (mode.queued /\ queue' = Append(queue, f))
        /\ sent' = sent \/ sent' = sent \union {f}
        /\ EmitCounts(t, env)
    BY EmitIs
  <2>2. new = Append(mid, sink)
    OBVIOUS
  <2> HIDE DEF f, mid, sink, new
  <2> QED
    BY <1>2, <2>1, <2>2
<1> HIDE DEF f
<1>4. StackOk(mode, Known', Where(t), t, old1) /\ old1 # <<>> /\ r.fn = Last(old1).fn
  <2>1. StackOk(mode, Known, Where(t), t, old1)
    BY DEF BridgeInv, StacksOk
  <2> QED
    BY <2>1, StackGrows DEF RegistryGrows, Top
<1>w. t = Worker => mode.queued
  BY DEF CallOk
<1>5. /\ StackOk(mode, Known', Where(t), t, mid) /\ mid # <<>> /\ Len(mid) = Len(old1)
      /\ HasSink(old1) => HasSink(mid)
      /\ InEmit(old1) => InEmit(mid)
      /\ AtPos(old1, t) => PhaseIs(mid, t, r) /\ PhaseIs(old1, t, Last(old1))
      /\ ~AtPos(old1, t) => SamePhase(old1, mid, t)
  <2>1. CallOk(mode, Known', Where(t), t, Len(old1), r)
    OBVIOUS
  <2>2. mid = WithTop(old1, r)
    OBVIOUS
  <2> HIDE DEF old1, mid
  <2> QED
    BY ONLY <1>4, <2>1, <2>2, StackGoesOn
<1>6. Quiet(sink)
  BY DEF Quiet, PhaseOf
<1>7. ~mode.queued => CallOk(mode, Known', Where(t), t, Len(mid) + 1, sink)
  BY <1>1, <1>f, <1>w DEF CallOk, SinkOk, SinkCall
<1>8. ~mode.queued =>
        /\ StackOk(mode, Known', Where(t), t, new)
        /\ HasSink(new)
        /\ InEmit(mid) => InEmit(new)
        /\ SamePhase(mid, new, t)
  <2>1. sink.fn = "deliver"
    OBVIOUS
  <2> HIDE DEF mid, sink
  <2> QED
    BY ONLY <1>5, <1>6, <1>7, <2>1, StackPushes DEF new
<1> HIDE DEF mid, new, sink
<1>9. calls \in [AnyThread -> Seq(BridgeCall)]
  BY DEF BridgeInv, BridgeType
<1>10. PICK cs : /\ calls' = [calls EXCEPT ![t] = cs]
                 /\ StackOk(mode, Known', Where(t), t, cs)
                 /\ HasSink(old1) => HasSink(cs)
                 /\ lock' = lock \/ (lock' = t /\ lock = None /\ HasSink(cs))
                 /\ InEmit(old1) => InEmit(cs)
                 /\ SamePhase(mid, cs, t)
  <2>1. SamePhase(mid, mid, t)
    BY DEF SamePhase
  <2> QED
    BY <1>3, <1>5, <1>8, <2>1
<1>11. calls'[t] = cs /\ \A u \in AnyThread : u # t => calls'[u] = calls[u]
  BY <1>9, <1>10
<1>12. StacksOk' /\ calls' \in [AnyThread -> Seq(BridgeCall)]
  BY <1>10, SameWhere, StacksStep
<1>13. since \in [Site -> Nat] /\ can_enter \in [AnyThread -> BOOLEAN]
  BY DEF BridgeInv, BridgeType
<1>14. EmitCounts(t, env)
  BY <1>3
<1>15. since' \in [Site -> Nat] /\ missed' \in [Site -> Nat]
  <2>1. missed \in [Site -> Nat]
    BY DEF BridgeInv, BridgeType
  <2> QED
    BY <1>13, <1>14, <2>1, CountedIs DEF EmitCounts
<1>16. can_enter' \in [AnyThread -> BOOLEAN]
  BY <1>13 DEF GuardStep
<1>17. BridgeType'
  BY <1>12, <1>15, <1>16 DEF BridgeInv, BridgeType, RegistryGrows
<1>18. GuardsOk'
  <2>1. \A u \in AnyThread : (~can_enter[u] => InEmit(calls[u])) /\ (lock = u => HasSink(calls[u]))
    BY DEF BridgeInv, GuardsOk
  <2>2. \A u \in AnyThread : ~can_enter'[u] => ~can_enter[u] \/ (u = t /\ InEmit(old1))
    BY <1>13 DEF GuardStep
  <2>3. \A u \in AnyThread : lock' = u => lock = u \/ (u = t /\ HasSink(cs))
    BY <1>10
  <2> QED
    BY <1>10, <1>11, <2>1, <2>2, <2>3 DEF GuardsOk
<1>19. QueueOk' /\ SpansOk' /\ SentOk'
  BY <1>1, <1>3, <1>f, QueueStep, SpansStep, SentStep
<1>20. BridgeInv'
  BY <1>12, <1>17, <1>18, <1>19 DEF BridgeInv
<1>21. ASSUME Quiet(r), Quiet(Top(t)) PROVE PhasesKept
  BY <1>5, <1>10, <1>11, <1>21 DEF PhasesKept, SamePhase, PhaseIs, Quiet, Top
<1>22. AtPos(calls[t], t) => PhaseIs(calls'[t], t, r) /\ PhaseIs(calls[t], t, Top(t))
  BY <1>5, <1>10, <1>11 DEF SamePhase, PhaseIs, Top
<1> QED
  BY <1>11, <1>14, <1>20, <1>21, <1>22

(* Nothing that the counts of a callsite depend on changes. *)
CountsSame ==
    /\ PhasesKept /\ UNCHANGED <<since, missed, old, mode>>
    /\ \A s \in Site : (s \in Known' <=> s \in Known) /\ (s \in Known => registry'[s] = registry[s])

LEMMA TopIs ==
    ASSUME BridgeInv, NEW t \in AnyThread, calls[t] # <<>>
    PROVE  /\ CallOk(mode, Known, Where(t), t, Len(calls[t]), Top(t))
           /\ Len(calls[t]) \in Nat \ {0}
           /\ InEmit(calls[t]) /\ Len(calls[t]) = 1 => Top(t).fn = "emit"
           /\ Top(t).fn = "emit" => EmitOk(t, Len(calls[t]), Top(t)) /\ InEmit(calls[t])
           /\ Top(t).fn = "deliver" => SinkOk(mode, Known, t, Len(calls[t]), Top(t))
           /\ Top(t).fn = "on_event" => LayerOk(mode, Known, Where(t), t, Len(calls[t]), Top(t))
<1>1. calls[t] \in Seq(BridgeCall) /\ \A i \in 1..Len(calls[t]) : CallOk(mode, Known, Where(t), t, i, calls[t][i])
  BY DEF BridgeInv, StacksOk, StackOk
<1>2. Len(calls[t]) \in 1..Len(calls[t]) /\ Top(t) = calls[t][Len(calls[t])] /\ Len(calls[t]) \in Nat \ {0}
  <2>1. Len(calls[t]) \in 1..Len(calls[t]) /\ Last(calls[t]) = calls[t][Len(calls[t])]
    BY <1>1, SequenceEnds
  <2>2. Len(calls[t]) \in Nat
    BY <1>1
  <2> QED
    BY ONLY <2>1, <2>2 DEF Top
<1>3. CallOk(mode, Known, Where(t), t, Len(calls[t]), Top(t))
  BY <1>1, <1>2
<1>4. /\ Top(t).fn = "emit" => EmitOk(t, Len(calls[t]), Top(t))
      /\ Top(t).fn = "deliver" => SinkOk(mode, Known, t, Len(calls[t]), Top(t))
      /\ Top(t).fn = "on_event" => LayerOk(mode, Known, Where(t), t, Len(calls[t]), Top(t))
  BY <1>3, CallKinds
<1>5. EmitOk(t, Len(calls[t]), Top(t)) => Len(calls[t]) = 1
  BY DEF EmitOk
<1> QED
  BY <1>2, <1>3, <1>4, <1>5 DEF InEmit

(* A step that goes on, in the form the model writes it. *)
LEMMA StepsTo ==
    ASSUME NEW t, NEW at, Stepped(t, at)
    PROVE  calls' = [calls EXCEPT ![t] = WithTop(calls[t], [Top(t) EXCEPT !.at = at])]
BY GotoIs DEF Stepped, Top

LEMMA WhereTyped ==
    ASSUME SpansOk, NEW t \in AnyThread
    PROVE  Where(t).at \in Span \union {None} /\ Where(t).ctx \in BridgeCtx
<1>1. /\ entered[t] # <<>> => CurrentSpan(t) \in Span /\ ctx[CurrentSpan(t)] \in BridgeCtx
      /\ entered[t] = <<>> => CurrentSpan(t) = None
  BY CurrentIs DEF SpansOk
<1> QED
  BY <1>1, BridgeWords DEF Where, SpanCtx

LEMMA EnvelopeIs ==
    ASSUME NEW kind \in Kinds, NEW hops \in Nat
    PROVE  /\ Envelope(kind, hops) \in Envelopes
           /\ Envelope(kind, hops).kind = kind /\ Envelope(kind, hops).hops = hops
           /\ Envelope(kind, hops).site = None
           /\ Envelope(kind, hops).at = None /\ Envelope(kind, hops).ctx = NoCtx
BY BridgeWords DEF Envelope, Envelopes

LEMMA SameRegistry ==
    ASSUME BridgeInv, registry' = registry
    PROVE  RegistryGrows /\ Known' = Known /\ \A s \in Site : (s \in Known' <=> s \in Known) /\ registry'[s] = registry[s]
BY DEF RegistryGrows, Known, BridgeInv, BridgeType

LEMMA OnEventInv ==
    ASSUME BridgeInv, NEW t \in AnyThread, OnEvent(t) PROVE BridgeInv' /\ CountsSame
<1> DEFINE c == Top(t)
<1>1. calls[t] # <<>> /\ c.fn = "on_event" /\ c.at = "start"
  BY DEF OnEvent, At
<1>2. LayerOk(mode, Known, Where(t), t, Len(calls[t]), c) /\ CallOk(mode, Known, Where(t), t, Len(calls[t]), c)
  BY <1>1, TopIs
<1>3. UNCHANGED <<mode, can_enter, lock, queue, registry, old, spanVars, sent, since, missed>>
  BY DEF OnEvent, tables, ledger
<1>4. Quiet(c)
  BY <1>1 DEF Quiet, PhaseOf
<1>5. CASE Skips(t, c)
  <2>1. calls' = [calls EXCEPT ![t] = Front(calls[t])]
    BY <1>5 DEF OnEvent, Returned
  <2>2. BridgeInv' /\ PhasesKept
    BY <1>1, <1>3, <1>4, <2>1, StepReturns
  <2> QED
    BY <1>3, <2>2, SameRegistry DEF CountsSame
<1>6. ASSUME ~Skips(t, c) PROVE BridgeInv' /\ CountsSame
  <2>1. PICK next : next \in {"warm", "record"} /\ Stepped(t, next)
    BY <1>6 DEF OnEvent
  <2> DEFINE r == [c EXCEPT !.at = next]
  <2>2. c.target # BridgeMetadata
    BY <1>6 DEF Skips, BridgeMetadata
  <2>3. c \in LayerCall
    BY <1>2 DEF LayerOk
  <2>4. r \in LayerCall /\ r.fn = c.fn /\ r.at = next /\ r.env = c.env /\ r.site = c.site /\ r.target = c.target
    BY <2>1, <2>3 DEF LayerCall
  <2> HIDE DEF r, c
  <2>5. LayerOk(mode, Known, Where(t), t, Len(calls[t]), r)
    BY <1>1, <1>2, <2>1, <2>2, <2>4 DEF LayerOk
  <2>6. CallOk(mode, Known', Where(t), t, Len(calls[t]), r)
    BY <1>2, <1>3, <2>5, SameRegistry DEF CallOk
  <2>7. Quiet(r)
    BY <2>1, <2>4 DEF Quiet, PhaseOf
  <2>8. calls' = [calls EXCEPT ![t] = WithTop(calls[t], r)]
    BY <2>1, StepsTo DEF r, c
  <2>9. BridgeInv' /\ PhasesKept
    <3>1. /\ RegistryGrows /\ calls[t] # <<>> /\ r.fn = Top(t).fn /\ Quiet(r) /\ Quiet(Top(t))
      BY <1>1, <1>3, <1>4, <2>4, <2>7, SameRegistry DEF c
    <3> QED
      BY ONLY BridgeInv, t \in AnyThread, <1>3, <2>6, <2>8, <3>1, StepGoesOn
  <2> QED
    BY <1>3, <2>9, SameRegistry DEF CountsSame
<1> QED
  BY <1>5, <1>6

LEMMA FilteredInv ==
    ASSUME BridgeInv, NEW t \in AnyThread, Filtered(t) \/ Leave(t) PROVE BridgeInv' /\ CountsSame
<1>1. /\ calls[t] # <<>> /\ Top(t).fn = "on_event" /\ Top(t).at \in {"start", "leave"}
      /\ calls' = [calls EXCEPT ![t] = Front(calls[t])]
      /\ UNCHANGED <<mode, can_enter, lock, queue, registry, old, spanVars, sent, since, missed>>
  BY DEF Filtered, Leave, At, Returned, tables, ledger
<1>2. Quiet(Top(t))
  BY <1>1 DEF Quiet, PhaseOf
<1>3. BridgeInv' /\ PhasesKept
  BY <1>1, <1>2, StepReturns
<1> QED
  BY <1>1, <1>3, SameRegistry DEF CountsSame

(* A call of the layer that goes on to record its event, and one that has  *)
(* started and under the reserved target is the application's.             *)
LEMMA Recording ==
    ASSUME NEW m, NEW known, NEW more, known \subseteq more, NEW here, NEW t, NEW i, NEW c,
           CallOk(m, known, here, t, i, c), LayerOk(m, known, here, t, i, c), c.at \in {"warm", "record"}
    PROVE  /\ [c EXCEPT !.at = "record"].fn = c.fn
           /\ CallOk(m, more, here, t, i, [c EXCEPT !.at = "record"])
           /\ Quiet(c) /\ Quiet([c EXCEPT !.at = "record"])
           /\ c.env \in Envelopes /\ (~m.dynamic => c.env.hops = 0)
<1> DEFINE r == [c EXCEPT !.at = "record"]
<1>1. c \in LayerCall /\ c.env.kind = "event" /\ c.env.site = None /\ c.site \in Site
  BY DEF LayerOk
<1>2. r \in LayerCall /\ r.fn = c.fn /\ r.at = "record" /\ r.env = c.env /\ r.site = c.site /\ r.target = c.target
  BY <1>1 DEF LayerCall
<1> HIDE DEF r
<1>3. LayerOk(m, more, here, t, i, r)
  BY <1>1, <1>2 DEF LayerOk, EnvOk
<1>4. CallOk(m, more, here, t, i, r)
  BY <1>3 DEF CallOk
<1>5. Quiet(c) /\ Quiet(r)
  BY <1>1, <1>2 DEF Quiet, PhaseOf
<1>6. c.env \in Envelopes
  BY <1>1 DEF LayerCall
<1>7. ~m.dynamic => c.env.hops = 0
  BY DEF LayerOk, EnvOk
<1> QED
  BY <1>2, <1>4, <1>5, <1>6, <1>7 DEF r

LEMMA PrewarmInv ==
    ASSUME BridgeInv, NEW t \in AnyThread, Prewarm(t) PROVE BridgeInv' /\ CountsSame
<1> DEFINE c == Top(t)
           r == [c EXCEPT !.at = "record"]
<1>1. calls[t] # <<>> /\ c.fn = "on_event" /\ c.at = "warm"
  BY DEF Prewarm, At
<1>2. CallOk(mode, Known, Where(t), t, Len(calls[t]), c) /\ LayerOk(mode, Known, Where(t), t, Len(calls[t]), c)
  BY <1>1, TopIs
<1>3. UNCHANGED <<mode, can_enter, old, spanVars>>
  BY DEF Prewarm
<1>4. CASE warmed
  <2>1. UNCHANGED <<mode, can_enter, lock, queue, registry, old, spanVars, sent, since, missed>> /\ Stepped(t, "record")
    BY <1>3, <1>4 DEF Prewarm, ledger
  <2>2. RegistryGrows /\ Known' = Known
    BY <2>1, SameRegistry
  <2>3. /\ r.fn = c.fn /\ CallOk(mode, Known', Where(t), t, Len(calls[t]), r) /\ Quiet(c) /\ Quiet(r)
    BY <1>1, <1>2, <2>2, Recording
  <2>4. calls' = [calls EXCEPT ![t] = WithTop(calls[t], r)]
    BY <2>1, StepsTo
  <2> HIDE DEF r
  <2>5. BridgeInv' /\ PhasesKept
    <3>1. r.fn = Top(t).fn /\ Quiet(Top(t)) /\ CallOk(mode, Known', Where(t), t, Len(calls[t]), r)
      BY <2>3
    <3> QED
      BY ONLY BridgeInv, t \in AnyThread, <1>1, <2>1, <2>2, <2>3, <2>4, <3>1, StepGoesOn
  <2> QED
    BY <2>1, <2>5, SameRegistry DEF CountsSame
<1>5. ASSUME ~warmed, NEW s \in PrewarmCallsites,
             registry' = [x \in DOMAIN registry \union PrewarmCallsites |-> IF x = s THEN 0 ELSE registry[x]],
             Emit(t, [Envelope("registered", Top(t).env.hops) EXCEPT !.site = s], "record")
      PROVE  BridgeInv' /\ CountsSame
  <2> DEFINE env == [Envelope("registered", c.env.hops) EXCEPT !.site = s]
  <2>1. RegistryGrows /\ Known' = Known \union PrewarmCallsites
        /\ \A x \in Site : (x \in Known' <=> x \in Known) /\ (x \in Known => registry'[x] = registry[x])
    <3>1. s = "prewarm" /\ PrewarmCallsites = {"prewarm"}
      BY DEF PrewarmCallsites
    <3> QED
      BY <1>5, <3>1, BridgeWords DEF RegistryGrows, Known, BridgeInv, BridgeType
  <2>2. /\ r.fn = c.fn /\ CallOk(mode, Known', Where(t), t, Len(calls[t]), r) /\ Quiet(c) /\ Quiet(r)
        /\ c.env \in Envelopes /\ (~mode.dynamic => c.env.hops = 0)
    <3>1. Known \subseteq Known'
      BY <2>1
    <3> QED
      BY <1>1, <1>2, <3>1, Recording
  <2>3. env \in Envelopes /\ env.kind = "registered" /\ env.site = s /\ env.hops = c.env.hops
    <3>1. c.env.hops \in Nat
      BY <2>2 DEF Envelopes
    <3>2. Envelope("registered", c.env.hops) \in Envelopes /\ Envelope("registered", c.env.hops).kind = "registered"
          /\ Envelope("registered", c.env.hops).hops = c.env.hops
      BY <3>1, EnvelopeIs DEF Kinds
    <3> QED
      BY <3>2 DEF Envelopes
  <2> HIDE DEF env
  <2>4. EnvOk(mode, Known', env)
    BY <2>1, <2>2, <2>3 DEF EnvOk
  <2>5. BridgeInv' /\ PhasesKept /\ EmitCounts(t, env)
    <3>1. /\ Emit(t, env, "record") /\ r = [Top(t) EXCEPT !.at = "record"] /\ r.fn = Top(t).fn
          /\ UNCHANGED <<mode, spanVars>> /\ GuardStep(t) /\ RegistryGrows
          /\ Quiet(r) /\ Quiet(Top(t)) /\ env.kind # "unresolved" /\ IsHere(t, env)
      BY <1>3, <1>5, <2>1, <2>2, <2>3 DEF env, IsHere, GuardStep
    <3> HIDE DEF r
    <3> QED
      BY ONLY BridgeInv, t \in AnyThread, <1>1, <2>2, <2>4, <3>1, StepSends
  <2>6. since' = since /\ missed' = missed
    BY <2>3, <2>5, BridgeWords DEF EmitCounts, Counted, Missed, IsRegistration
  <2> QED
    BY <1>3, <2>1, <2>5, <2>6 DEF CountsSame
<1> QED
  BY <1>4, <1>5 DEF Prewarm

(* A report from inside the layer: the call stays where it is. *)
LEMMA ReportInv ==
    ASSUME BridgeInv, NEW t \in AnyThread, Overflow(t) \/ Redact(t) PROVE BridgeInv' /\ CountsSame
<1> DEFINE c == Top(t)
           r == [c EXCEPT !.at = "record"]
<1>1. /\ calls[t] # <<>> /\ c.fn = "on_event" /\ c.at = "record"
      /\ UNCHANGED <<mode, can_enter, registry, old, spanVars>>
  BY DEF Overflow, Redact, At
<1>2. CallOk(mode, Known, Where(t), t, Len(calls[t]), c) /\ LayerOk(mode, Known, Where(t), t, Len(calls[t]), c)
  BY <1>1, TopIs
<1>3. RegistryGrows /\ Known' = Known
  BY <1>1, SameRegistry
<1>4. /\ r.fn = c.fn /\ CallOk(mode, Known', Where(t), t, Len(calls[t]), r) /\ Quiet(c) /\ Quiet(r)
  BY <1>1, <1>2, <1>3, Recording
<1>5. PICK kind \in {"cardinality_high", "pii_suspected"} : Emit(t, Envelope(kind, 0), "record")
  BY DEF Overflow, Redact
<1> DEFINE env == Envelope(kind, 0)
<1>6. env \in Envelopes /\ env.kind = kind /\ env.site = None /\ env.hops = 0
  BY EnvelopeIs DEF Kinds
<1> HIDE DEF env
<1>7. EnvOk(mode, Known', env)
  BY <1>6 DEF EnvOk
<1>8. BridgeInv' /\ PhasesKept /\ EmitCounts(t, env)
  <2>1. /\ Emit(t, env, "record") /\ r = [Top(t) EXCEPT !.at = "record"] /\ r.fn = Top(t).fn
        /\ UNCHANGED <<mode, spanVars>> /\ GuardStep(t) /\ RegistryGrows
        /\ Quiet(r) /\ Quiet(Top(t)) /\ env.kind # "unresolved" /\ IsHere(t, env)
    BY <1>1, <1>3, <1>4, <1>5, <1>6 DEF env, IsHere, GuardStep
  <2> HIDE DEF r
  <2> QED
    BY ONLY BridgeInv, t \in AnyThread, <1>1, <1>4, <1>7, <2>1, StepSends
<1>9. since' = since /\ missed' = missed
  BY <1>6, <1>8 DEF EmitCounts, Counted, Missed, IsRegistration
<1> QED
  BY <1>1, <1>8, <1>9, SameRegistry DEF CountsSame

LEMMA RecordInv ==
    ASSUME BridgeInv, NEW t \in AnyThread, NEW typed, Record(t, typed) PROVE BridgeInv' /\ CountsSame
<1> DEFINE c == Top(t)
           env == [c.env EXCEPT !.ctx = SpanCtx(t),
                       !.at = CurrentSpan(t),
                       !.label = IF ~typed /\ c.value # None /\ Admitted(c.value) THEN c.value ELSE None]
           next == IF mode.interning /\ ~typed THEN "intern" ELSE "emit"
           r == [c EXCEPT !.env = env, !.at = next]
<1>1. /\ calls[t] # <<>> /\ c.fn = "on_event" /\ c.at = "record"
      /\ UNCHANGED <<mode, can_enter, lock, queue, registry, old, spanVars, sent, since, missed>>
      /\ calls' = [calls EXCEPT ![t][Len(calls[t])] = [@ EXCEPT !.env = env, !.at = next]]
  BY DEF Record, At, ledger
<1>2. CallOk(mode, Known, Where(t), t, Len(calls[t]), c) /\ LayerOk(mode, Known, Where(t), t, Len(calls[t]), c)
  BY <1>1, TopIs
<1>3. RegistryGrows /\ Known' = Known
  BY <1>1, SameRegistry
<1>4. c \in LayerCall /\ c.env.kind = "event" /\ c.env.site = None /\ c.site \in Site
  BY <1>1, <1>2 DEF LayerOk
<1>5. c.env \in Envelopes /\ c.value \in Value \union {None}
  BY <1>4 DEF LayerCall
<1>6. Where(t).at \in Span \union {None} /\ Where(t).ctx \in BridgeCtx
  BY WhereTyped DEF BridgeInv
<1>7. /\ env \in Envelopes /\ env.kind = "event" /\ env.site = None /\ env.hops = c.env.hops
      /\ env.ctx = Where(t).ctx /\ env.at = Where(t).at
  BY <1>4, <1>5, <1>6 DEF Envelopes, Where
<1>8. next \in {"intern", "emit"}
  OBVIOUS
<1> HIDE DEF env, next
<1>9. /\ r \in LayerCall /\ r.fn = c.fn /\ r.at = next /\ r.env = env /\ r.site = c.site /\ r.target = c.target
  BY <1>4, <1>7, <1>8 DEF LayerCall
<1>10. calls' = [calls EXCEPT ![t] = WithTop(calls[t], r)]
  BY <1>1 DEF WithTop, Top, Last
<1> HIDE DEF r, c
<1>11. LayerOk(mode, Known, Where(t), t, Len(calls[t]), r)
  BY <1>1, <1>2, <1>4, <1>7, <1>8, <1>9 DEF LayerOk, EnvOk
<1>12. CallOk(mode, Known', Where(t), t, Len(calls[t]), r)
  BY <1>2, <1>3, <1>11 DEF CallOk
<1>13. Quiet(c) /\ Quiet(r)
  BY <1>1, <1>4, <1>7, <1>9, BridgeWords DEF Quiet, PhaseOf
<1>14. BridgeInv' /\ PhasesKept
  <2>1. r.fn = Top(t).fn /\ Quiet(Top(t)) /\ Quiet(r)
    BY <1>9, <1>13 DEF c
  <2> QED
    BY ONLY BridgeInv, t \in AnyThread, <1>1, <1>3, <1>10, <1>12, <2>1, StepGoesOn
<1> QED
  BY <1>1, <1>14, SameRegistry DEF CountsSame

(* The lift of an event of one callsite goes from one phase to another. *)
MovesOn(t, s0, from, to) ==
    /\ \A u \in AnyThread : u # t => calls'[u] = calls[u]
    /\ AtPos(calls[t], t) =>
          \A s \in Site : /\ Phase(calls[t], t, s) = IF s = s0 THEN from ELSE "none"
                          /\ Phase(calls'[t], t, s) = IF s = s0 THEN to ELSE "none"

(* Where the counts are bounded, a thread past the start of a lift is at   *)
(* its place for lifting, and is one of those that lift.                   *)
LEMMA LiftAt ==
    ASSUME BridgeInv, mode.queued \/ ~mode.dynamic, NEW t \in AnyThread,
           calls[t] # <<>>, Top(t).fn = "on_event", Top(t).at # "start"
    PROVE  AtPos(calls[t], t) /\ t \in Lifting
<1> DEFINE i == Len(calls[t])
<1>1. /\ LayerOk(mode, Known, Where(t), t, i, Top(t)) /\ CallOk(mode, Known, Where(t), t, i, Top(t))
      /\ i \in Nat \ {0} /\ (InEmit(calls[t]) /\ i = 1 => Top(t).fn = "emit")
  BY TopIs
<1>2. i = Pos(t) /\ (i # 1 => mode.queued /\ mode.dynamic)
  BY <1>1 DEF LayerOk, CallOk, Pos
<1>3. t \in Lifting
  BY <1>1, <1>2 DEF LayerOk, Lifting, AnyThread
<1> QED
  BY <1>2, <1>3 DEF AtPos

LEMMA MovesIs ==
    ASSUME NEW t, NEW c, NEW r, NEW s0, NEW from, NEW to, \A u \in AnyThread : u # t => calls'[u] = calls[u],
           AtPos(calls[t], t) => PhaseIs(calls'[t], t, r) /\ PhaseIs(calls[t], t, c),
           \A s \in Site : /\ PhaseOf(c, s) = IF s = s0 THEN from ELSE "none"
                           /\ PhaseOf(r, s) = IF s = s0 THEN to ELSE "none"
    PROVE  MovesOn(t, s0, from, to)
BY DEF MovesOn, PhaseIs

LEMMA InternInv ==
    ASSUME BridgeInv, NEW t \in AnyThread, Intern(t)
    PROVE  LET s0 == Top(t).site
               count == IF s0 \in Known THEN registry[s0] + 1 ELSE 0
               due == s0 \notin Known \/ Refreshes(s0, count)
           IN /\ BridgeInv' /\ s0 \in Site /\ UNCHANGED <<mode, old, since, missed>>
              /\ registry' = [x \in Known \union {s0} |-> IF x = s0 THEN count ELSE registry[x]]
              /\ MovesOn(t, s0, "none", IF due THEN (IF s0 \in Known THEN "register" ELSE "first") ELSE "emit")
<1> DEFINE c == Top(t)
           s0 == c.site
           known == s0 \in Known
           count == IF known THEN registry[s0] + 1 ELSE 0
           due == ~known \/ Refreshes(s0, count)
           next == IF due THEN "register" ELSE "emit"
           r == [c EXCEPT !.env.site = s0, !.stale = known, !.at = next]
<1>1. /\ calls[t] # <<>> /\ c.fn = "on_event" /\ c.at = "intern"
      /\ UNCHANGED <<mode, can_enter, lock, queue, old, spanVars, sent, since, missed>>
      /\ registry' = [x \in Known \union {s0} |-> IF x = s0 THEN count ELSE registry[x]]
      /\ calls' = [calls EXCEPT ![t][Len(calls[t])] = [@ EXCEPT !.env.site = s0, !.stale = known, !.at = next]]
  BY DEF Intern, At, Known, ledger
<1>2. CallOk(mode, Known, Where(t), t, Len(calls[t]), c) /\ LayerOk(mode, Known, Where(t), t, Len(calls[t]), c)
  BY <1>1, TopIs
<1>3. c \in LayerCall /\ c.env.kind = "event" /\ c.env.site = None /\ s0 \in Site
  BY <1>1, <1>2 DEF LayerOk
<1>4. RegistryGrows /\ Known' = Known \union {s0}
  <2>1. registry \in [Known -> Nat] /\ Known \subseteq Site \union PrewarmCallsites
    BY DEF BridgeInv, BridgeType
  <2>2. count \in Nat
    BY <2>1
  <2> HIDE DEF count
  <2>3. Known' = Known \union {s0}
    BY <1>1 DEF Known
  <2> QED
    BY <1>1, <1>3, <2>1, <2>2, <2>3 DEF RegistryGrows
<1>5. next \in {"register", "emit"} /\ known \in BOOLEAN
  OBVIOUS
<1>6. /\ r \in LayerCall /\ r.fn = c.fn /\ r.at = next /\ r.stale = known /\ r.site = s0 /\ r.target = c.target
      /\ r.env.site = s0 /\ r.env.kind = "event" /\ r.env.hops = c.env.hops
      /\ r.env.at = c.env.at /\ r.env.ctx = c.env.ctx /\ r.env \in Envelopes
  <2>1. c.env \in Envelopes
    BY <1>3 DEF LayerCall
  <2>2. /\ [c.env EXCEPT !.site = s0] \in Envelopes /\ [c.env EXCEPT !.site = s0].site = s0
        /\ [c.env EXCEPT !.site = s0].kind = c.env.kind /\ [c.env EXCEPT !.site = s0].hops = c.env.hops
        /\ [c.env EXCEPT !.site = s0].at = c.env.at /\ [c.env EXCEPT !.site = s0].ctx = c.env.ctx
    BY <1>3, <2>1 DEF Envelopes
  <2>3. r = [c EXCEPT !.env = [c.env EXCEPT !.site = s0], !.stale = known, !.at = next]
    BY <1>3 DEF LayerCall
  <2> HIDE DEF c, r, next, known
  <2> QED
    BY <1>3, <1>5, <2>2, <2>3 DEF LayerCall
<1>7. calls' = [calls EXCEPT ![t] = WithTop(calls[t], r)]
  BY <1>1 DEF WithTop, Top, Last
<1> HIDE DEF r, next
<1>8. LayerOk(mode, Known', Where(t), t, Len(calls[t]), r)
  BY <1>1, <1>2, <1>3, <1>4, <1>5, <1>6 DEF LayerOk, EnvOk
<1>9. CallOk(mode, Known', Where(t), t, Len(calls[t]), r)
  BY <1>2, <1>8 DEF CallOk
<1>10. /\ BridgeInv'
       /\ AtPos(calls[t], t) => PhaseIs(calls'[t], t, r) /\ PhaseIs(calls[t], t, c)
       /\ \A u \in AnyThread : u # t => calls'[u] = calls[u]
  <2>1. r.fn = Top(t).fn
    BY <1>6
  <2> HIDE DEF known, count, due
  <2> QED
    BY ONLY BridgeInv, t \in AnyThread, <1>1, <1>4, <1>7, <1>9, <2>1, StepGoesOn
<1>11. \A s \in Site : /\ PhaseOf(c, s) = "none"
                       /\ PhaseOf(r, s) = IF s = s0 THEN IF next = "register" /\ ~known THEN "first" ELSE next ELSE "none"
  BY <1>1, <1>3, <1>5, <1>6, BridgeWords DEF PhaseOf
<1> DEFINE to == IF due THEN (IF known THEN "register" ELSE "first") ELSE "emit"
<1>12. (IF next = "register" /\ ~known THEN "first" ELSE next) = to
  BY DEF next
<1>13. MovesOn(t, s0, "none", to)
  <2> HIDE DEF to, known, due, count
  <2> QED
    BY <1>10, <1>11, <1>12, MovesIs
<1> QED
  BY <1>1, <1>3, <1>10, <1>13

LEMMA RegisterInv ==
    ASSUME BridgeInv, NEW t \in AnyThread, Register(t)
    PROVE  LET s0 == Top(t).site
           IN /\ BridgeInv' /\ s0 \in Site /\ s0 \in Known /\ UNCHANGED <<mode, old, registry>>
              /\ MovesOn(t, s0, IF Top(t).stale THEN "register" ELSE "first",
                              IF Top(t).stale THEN "reset" ELSE "emit")
              /\ \/ since' = [since EXCEPT ![s0] = 0] /\ missed' = [missed EXCEPT ![s0] = 0]
                 \/ since' = since /\ missed' = [missed EXCEPT ![s0] = @ + 1]
<1> DEFINE c == Top(t)
           s0 == c.site
           next == IF c.stale THEN "reset" ELSE "emit"
           from == IF c.stale THEN "register" ELSE "first"
           r == [c EXCEPT !.at = next]
           env == [Envelope("registered", c.env.hops) EXCEPT !.site = s0]
<1>1. /\ calls[t] # <<>> /\ c.fn = "on_event" /\ c.at = "register" /\ Emit(t, env, next)
      /\ UNCHANGED <<mode, can_enter, registry, old, spanVars>>
  BY DEF Register, At, tables, ledger
<1>2. CallOk(mode, Known, Where(t), t, Len(calls[t]), c) /\ LayerOk(mode, Known, Where(t), t, Len(calls[t]), c)
  BY <1>1, TopIs
<1>3. c \in LayerCall /\ c.env.kind = "event" /\ c.env.site = s0 /\ s0 \in Site /\ s0 # None /\ s0 \in Known
  BY <1>1, <1>2, BridgeWords DEF LayerOk
<1>4. RegistryGrows /\ Known' = Known
  BY <1>1, SameRegistry
<1>5. next \in {"reset", "emit"} /\ c.stale \in BOOLEAN
  BY <1>3 DEF LayerCall
<1>6. /\ r \in LayerCall /\ r.fn = c.fn /\ r.at = next /\ r.env = c.env /\ r.site = c.site /\ r.target = c.target
      /\ r.stale = c.stale
  BY <1>3, <1>5 DEF LayerCall
<1>7. /\ env \in Envelopes /\ env.kind = "registered" /\ env.site = s0 /\ env.hops = c.env.hops
      /\ (~mode.dynamic => env.hops = 0)
  <2>1. c.env.hops \in Nat
    BY <1>3 DEF LayerCall, Envelopes
  <2>2. Envelope("registered", c.env.hops) \in Envelopes /\ Envelope("registered", c.env.hops).kind = "registered"
        /\ Envelope("registered", c.env.hops).hops = c.env.hops
    BY <2>1, EnvelopeIs DEF Kinds
  <2>3. ~mode.dynamic => c.env.hops = 0
    BY <1>1, <1>2 DEF LayerOk, EnvOk
  <2> QED
    BY <1>3, <2>2, <2>3 DEF Envelopes
<1> HIDE DEF env, r, next
<1>8. EnvOk(mode, Known', env)
  BY <1>3, <1>4, <1>7 DEF EnvOk
<1>9. LayerOk(mode, Known', Where(t), t, Len(calls[t]), r)
  BY <1>1, <1>2, <1>3, <1>4, <1>5, <1>6 DEF LayerOk
<1>10. CallOk(mode, Known', Where(t), t, Len(calls[t]), r)
  BY <1>2, <1>9 DEF CallOk
<1>11. /\ BridgeInv'
       /\ AtPos(calls[t], t) => PhaseIs(calls'[t], t, r) /\ PhaseIs(calls[t], t, c)
       /\ \A u \in AnyThread : u # t => calls'[u] = calls[u]
       /\ EmitCounts(t, env)
  <2>1. /\ r = [Top(t) EXCEPT !.at = next] /\ r.fn = Top(t).fn /\ GuardStep(t)
        /\ env.kind # "unresolved" /\ IsHere(t, env)
        /\ UNCHANGED <<mode, spanVars>>
    BY <1>1, <1>6, <1>7 DEF r, IsHere, GuardStep
  <2> QED
    BY ONLY BridgeInv, t \in AnyThread, <1>1, <1>4, <1>8, <1>10, <2>1, StepSends
<1>12. \/ since' = [since EXCEPT ![s0] = 0] /\ missed' = [missed EXCEPT ![s0] = 0]
       \/ since' = since /\ missed' = [missed EXCEPT ![s0] = @ + 1]
  <2>1. PICK out \in BOOLEAN : since' = Counted(env, out) /\ missed' = Missed(env, out)
    BY <1>11 DEF EmitCounts
  <2>2. IsRegistration(env) /\ env.site = s0 /\ env.kind # "event"
    BY <1>3, <1>7 DEF IsRegistration
  <2>3. CASE out
    <3>1. Counted(env, out) = [since EXCEPT ![s0] = 0] /\ Missed(env, out) = [missed EXCEPT ![s0] = 0]
      BY <2>2, <2>3 DEF Counted, Missed
    <3> QED
      BY <2>1, <3>1
  <2>4. CASE ~out
    <3>1. Counted(env, out) = since /\ Missed(env, out) = [missed EXCEPT ![s0] = @ + 1]
      BY <2>2, <2>4 DEF Counted, Missed
    <3> QED
      BY <2>1, <3>1
  <2> QED
    BY <2>3, <2>4
<1>13. \A s \in Site : /\ PhaseOf(c, s) = IF s = s0 THEN from ELSE "none"
                       /\ PhaseOf(r, s) = IF s = s0 THEN next ELSE "none"
  BY <1>1, <1>3, <1>5, <1>6 DEF PhaseOf, next
<1>14. MovesOn(t, s0, from, next)
  <2> HIDE DEF from
  <2> QED
    BY <1>11, <1>13, MovesIs
<1> QED
  BY <1>1, <1>3, <1>11, <1>12, <1>14 DEF next

LEMMA ResetInv ==
    ASSUME BridgeInv, NEW t \in AnyThread, ResetCount(t)
    PROVE  LET s0 == Top(t).site
           IN /\ BridgeInv' /\ s0 \in Site /\ s0 \in Known /\ UNCHANGED <<mode, old, since, missed>>
              /\ registry' = [registry EXCEPT ![s0] = 0]
              /\ MovesOn(t, s0, "reset", "emit")
<1> DEFINE c == Top(t)
           s0 == c.site
           r == [c EXCEPT !.at = "emit"]
<1>1. /\ calls[t] # <<>> /\ c.fn = "on_event" /\ c.at = "reset" /\ Stepped(t, "emit")
      /\ UNCHANGED <<mode, can_enter, lock, queue, old, spanVars, sent, since, missed>>
      /\ registry' = [registry EXCEPT ![s0] = 0]
  BY DEF ResetCount, At, ledger
<1>2. CallOk(mode, Known, Where(t), t, Len(calls[t]), c) /\ LayerOk(mode, Known, Where(t), t, Len(calls[t]), c)
  BY <1>1, TopIs
<1>3. c \in LayerCall /\ c.env.kind = "event" /\ c.env.site = s0 /\ s0 \in Site /\ s0 # None /\ s0 \in Known
  BY <1>1, <1>2, BridgeWords DEF LayerOk
<1>4. RegistryGrows /\ Known' = Known
  <2>1. registry \in [Known -> Nat] /\ Known \subseteq Site \union PrewarmCallsites
    BY DEF BridgeInv, BridgeType
  <2>2. registry' \in [Known -> Nat] /\ Known' = Known
    BY <1>1, <2>1 DEF Known
  <2> QED
    BY <2>1, <2>2 DEF RegistryGrows
<1>6. /\ r \in LayerCall /\ r.fn = c.fn /\ r.at = "emit" /\ r.env = c.env /\ r.site = c.site /\ r.target = c.target
  BY <1>3 DEF LayerCall
<1>7. calls' = [calls EXCEPT ![t] = WithTop(calls[t], r)]
  BY <1>1, StepsTo
<1> HIDE DEF r
<1>9. LayerOk(mode, Known', Where(t), t, Len(calls[t]), r)
  BY <1>1, <1>2, <1>3, <1>4, <1>6 DEF LayerOk
<1>10. CallOk(mode, Known', Where(t), t, Len(calls[t]), r)
  BY <1>2, <1>9 DEF CallOk
<1>11. /\ BridgeInv'
       /\ AtPos(calls[t], t) => PhaseIs(calls'[t], t, r) /\ PhaseIs(calls[t], t, c)
       /\ \A u \in AnyThread : u # t => calls'[u] = calls[u]
  <2>1. r.fn = Top(t).fn
    BY <1>6
  <2> QED
    BY ONLY BridgeInv, t \in AnyThread, <1>1, <1>4, <1>7, <1>10, <2>1, StepGoesOn
<1>13. \A s \in Site : /\ PhaseOf(c, s) = IF s = s0 THEN "reset" ELSE "none"
                       /\ PhaseOf(r, s) = IF s = s0 THEN "emit" ELSE "none"
  BY <1>1, <1>3, <1>6 DEF PhaseOf
<1>14. MovesOn(t, s0, "reset", "emit")
  BY <1>11, <1>13, MovesIs
<1> QED
  BY <1>1, <1>3, <1>11, <1>14

LEMMA EmitBridgedInv ==
    ASSUME BridgeInv, NEW t \in AnyThread, EmitBridged(t)
    PROVE  LET e == Top(t).env
           IN /\ BridgeInv' /\ UNCHANGED <<mode, old, registry>>
              /\ missed' = missed
              /\ e.kind = "event" /\ e.site \in Site => MovesOn(t, e.site, "emit", "none") /\ e.site \in Known
                                                            /\ since' = [since EXCEPT ![e.site] = @ + 1]
              /\ ~(e.kind = "event" /\ e.site \in Site) => PhasesKept /\ \A s \in Site : since'[s] = since[s]
<1> DEFINE c == Top(t)
           env == c.env
           r == [c EXCEPT !.at = "leave"]
<1>1. /\ calls[t] # <<>> /\ c.fn = "on_event" /\ c.at = "emit" /\ Emit(t, env, "leave")
      /\ UNCHANGED <<mode, can_enter, registry, old, spanVars>>
  BY DEF EmitBridged, At, tables, ledger
<1>2. CallOk(mode, Known, Where(t), t, Len(calls[t]), c) /\ LayerOk(mode, Known, Where(t), t, Len(calls[t]), c)
  BY <1>1, TopIs
<1>3. c \in LayerCall
  BY <1>2 DEF LayerOk
<1>4. RegistryGrows /\ Known' = Known
  BY <1>1, SameRegistry
<1>6. /\ r \in LayerCall /\ r.fn = c.fn /\ r.at = "leave" /\ r.env = c.env /\ r.site = c.site /\ r.target = c.target
  BY <1>3 DEF LayerCall
<1>7. env \in Envelopes
  BY <1>3 DEF LayerCall
<1> HIDE DEF r
<1>8. EnvOk(mode, Known', env)
  BY <1>1, <1>2, <1>4, <1>7 DEF LayerOk, EnvOk
<1>9. LayerOk(mode, Known', Where(t), t, Len(calls[t]), r)
  BY <1>1, <1>2, <1>3, <1>4, <1>6 DEF LayerOk
<1>10. CallOk(mode, Known', Where(t), t, Len(calls[t]), r)
  BY <1>2, <1>9 DEF CallOk
<1>k. env.kind # "unresolved" /\ env.kind # "native"
  BY <1>2 DEF LayerOk
<1>11. /\ BridgeInv'
       /\ Quiet(r) /\ Quiet(Top(t)) => PhasesKept
       /\ AtPos(calls[t], t) => PhaseIs(calls'[t], t, r) /\ PhaseIs(calls[t], t, c)
       /\ \A u \in AnyThread : u # t => calls'[u] = calls[u]
       /\ EmitCounts(t, env)
  <2>1. /\ r = [Top(t) EXCEPT !.at = "leave"] /\ r.fn = Top(t).fn /\ GuardStep(t)
        /\ UNCHANGED <<mode, spanVars>>
    BY <1>1, <1>6 DEF r, GuardStep
  <2>2. IsHere(t, env)
    BY <1>1, <1>2, <1>k DEF LayerOk, IsHere
  <2> HIDE DEF env
  <2> QED
    BY ONLY BridgeInv, t \in AnyThread, <1>1, <1>4, <1>8, <1>10, <1>k, <2>1, <2>2, StepSends
<1>12. \A s \in Site : PhaseOf(r, s) = "none"
  BY <1>6 DEF PhaseOf
<1>o. missed' = missed /\ \E out \in BOOLEAN : since' = Counted(env, out)
  <2>1. PICK out \in BOOLEAN : since' = Counted(env, out) /\ missed' = Missed(env, out)
    BY <1>11 DEF EmitCounts
  <2>2. ~IsRegistration(env)
    BY <1>2 DEF LayerOk, IsRegistration
  <2> HIDE DEF env
  <2> QED
    BY <2>1, <2>2 DEF Missed
<1>p. ~IsRegistration(env)
  BY <1>2 DEF LayerOk, IsRegistration
<1>13. ASSUME env.kind = "event", env.site \in Site
       PROVE  MovesOn(t, env.site, "emit", "none") /\ env.site \in Known /\ since' = [since EXCEPT ![env.site] = @ + 1]
  <2>1. \A s \in Site : PhaseOf(c, s) = IF s = env.site THEN "emit" ELSE "none"
    BY <1>1, <1>13 DEF PhaseOf
  <2>2. env.site \in Known
    BY <1>2, <1>13, BridgeWords DEF LayerOk
  <2>3. \A s \in Site : /\ PhaseOf(c, s) = IF s = env.site THEN "emit" ELSE "none"
                        /\ PhaseOf(r, s) = IF s = env.site THEN "none" ELSE "none"
    BY <1>12, <2>1
  <2>4. since' = [since EXCEPT ![env.site] = @ + 1]
    <3> HIDE DEF env
    <3> QED
      BY <1>13, <1>o, <1>p, BridgeWords DEF Counted
  <2> QED
    BY <1>11, <2>2, <2>3, <2>4, MovesIs
<1>14. ASSUME ~(env.kind = "event" /\ env.site \in Site)
       PROVE  PhasesKept /\ \A s \in Site : since'[s] = since[s]
  <2>1. Quiet(c) /\ Quiet(r)
    BY <1>12, <1>14 DEF Quiet, PhaseOf
  <2>2. \A s \in Site : since'[s] = since[s]
    <3>1. env.kind \in {"event", "span_entered", "span_completed"}
      BY <1>2 DEF LayerOk
    <3>2. since \in [Site -> Nat]
      BY DEF BridgeInv, BridgeType
    <3> HIDE DEF env
    <3> QED
      BY <1>14, <1>o, <1>p, <3>1, <3>2 DEF Counted
  <2> QED
    BY <1>11, <2>1, <2>2
<1> QED
  BY <1>1, <1>11, <1>13, <1>14, <1>o

LEMMA StartEmitInv ==
    ASSUME BridgeInv, NEW t \in AnyThread, StartEmit(t) PROVE BridgeInv' /\ CountsSame
<1> DEFINE c == Top(t)
           env == [Envelope("native", 0) EXCEPT !.at = IF entered[t] = <<>> THEN None ELSE Last(entered[t]),
                                              !.nested = ~crossed[t]]
           next == IF c.guarded THEN "guarded" ELSE "end"
           r == [c EXCEPT !.at = next]
<1>1. /\ calls[t] # <<>> /\ c.fn = "emit" /\ c.at = "start" /\ Emit(t, env, next)
      /\ can_enter' = [can_enter EXCEPT ![t] = ~c.guarded]
      /\ UNCHANGED <<mode, registry, old, spanVars>>
  BY DEF StartEmit, At, tables, ledger
<1>2. /\ CallOk(mode, Known, Where(t), t, Len(calls[t]), c) /\ EmitOk(t, Len(calls[t]), c)
      /\ InEmit(calls[t])
  BY <1>1, TopIs
<1>3. c \in EmitCall /\ c.guarded \in BOOLEAN
  BY <1>2 DEF EmitOk, EmitCall
<1>4. RegistryGrows /\ Known' = Known
  BY <1>1, SameRegistry
<1>5. next \in {"guarded", "end"} /\ (~c.guarded) \in BOOLEAN
  BY <1>3
<1>6. r \in EmitCall /\ r.fn = c.fn /\ r.fn = "emit"
  BY <1>1, <1>3, <1>5 DEF EmitCall
<1>7. /\ env \in Envelopes /\ env.kind = "native" /\ env.site = None /\ env.hops = 0
      /\ env.at = IF entered[t] = <<>> THEN None ELSE Last(entered[t])
      /\ env.ctx = NoCtx /\ env.nested = ~crossed[t]
  <2>1. /\ entered[t] # <<>> => Last(entered[t]) \in Span
        /\ crossed[t] \in BOOLEAN
    BY FrameIs DEF BridgeInv, SpansOk
  <2>2. /\ Envelope("native", 0) \in Envelopes /\ Envelope("native", 0).kind = "native"
        /\ Envelope("native", 0).hops = 0 /\ Envelope("native", 0).site = None
        /\ Envelope("native", 0).ctx = NoCtx
    BY EnvelopeIs DEF Kinds
  <2> QED
    BY <2>1, <2>2 DEF Envelopes
<1> HIDE DEF env, r, next
<1>8. EnvOk(mode, Known', env) /\ IsHere(t, env)
  BY <1>7 DEF EnvOk, IsHere
<1>9. CallOk(mode, Known', Where(t), t, Len(calls[t]), r)
  BY <1>2, <1>6 DEF CallOk, EmitOk
<1>10. Quiet(c) /\ Quiet(r)
  BY <1>1, <1>6 DEF Quiet, PhaseOf
<1>11. BridgeInv' /\ PhasesKept /\ EmitCounts(t, env)
  <2>1. /\ r = [Top(t) EXCEPT !.at = next] /\ r.fn = Top(t).fn /\ env.kind # "unresolved"
        /\ UNCHANGED <<mode, spanVars>>
        /\ Quiet(r) /\ Quiet(Top(t))
        /\ GuardStep(t)
    BY <1>1, <1>2, <1>5, <1>6, <1>7, <1>10 DEF r, GuardStep
  <2> QED
    BY ONLY BridgeInv, t \in AnyThread, <1>1, <1>4, <1>8, <1>9, <2>1, StepSends
<1>12. since' = since /\ missed' = missed
  BY <1>7, <1>11 DEF EmitCounts, Counted, Missed, IsRegistration
<1> QED
  BY <1>1, <1>11, <1>12, SameRegistry DEF CountsSame

(* An emit returns, a sink's deliver returns. *)
LEMMA EndInv ==
    ASSUME BridgeInv, NEW t \in AnyThread, EndEmit(t) \/ EndDeliver(t) PROVE BridgeInv' /\ CountsSame
<1>1. /\ calls[t] # <<>> /\ calls' = [calls EXCEPT ![t] = Front(calls[t])]
      /\ UNCHANGED <<mode, queue, registry, old, spanVars, sent, since, missed>>
  BY DEF EndEmit, EndDeliver, At, Returned, tables, ledger
<1>2. /\ \/ can_enter' = can_enter /\ Top(t).fn # "emit"
         \/ can_enter' = [can_enter EXCEPT ![t] = TRUE]
      /\ \/ lock' = lock /\ Top(t).fn # "deliver"
         \/ lock' = IF lock = t THEN None ELSE lock
      /\ Top(t).fn \in {"emit", "deliver"}
  BY DEF EndEmit, EndDeliver, At
<1>3. Quiet(Top(t))
  BY <1>2 DEF Quiet, PhaseOf
<1>4. BridgeInv' /\ PhasesKept
  BY <1>1, <1>2, <1>3, StepReturns
<1> QED
  BY <1>1, <1>4, SameRegistry DEF CountsSame

(* A sink's deliver goes on: every callsite it is handed is known. *)
LEMMA DeliverInv ==
    ASSUME BridgeInv, NEW t \in AnyThread, Deliver(t) \/ Resolve(t) \/ NotEnabled(t)
    PROVE  BridgeInv' /\ CountsSame
<1> DEFINE c == Top(t)
<1>1. calls[t] # <<>> /\ c.fn = "deliver"
  BY DEF Deliver, Resolve, NotEnabled, At
<1>2. /\ CallOk(mode, Known, Where(t), t, Len(calls[t]), c) /\ SinkOk(mode, Known, t, Len(calls[t]), c)
  BY <1>1, TopIs
<1>3. ~Unresolved(c.env)
  BY <1>2 DEF SinkOk, EnvOk, Unresolved, Known
<1>4. PICK next \in {"resolve", "dispatch", "end"} : Stepped(t, next)
  BY <1>3 DEF Deliver, Resolve, NotEnabled
<1>5. UNCHANGED <<mode, can_enter, lock, queue, registry, old, spanVars, sent, since, missed>>
  BY <1>3 DEF Deliver, Resolve, NotEnabled, tables, ledger
<1> DEFINE r == [c EXCEPT !.at = next]
<1>6. r \in SinkCall /\ r.fn = c.fn /\ r.fn = "deliver" /\ r.env = c.env
  BY <1>1, <1>2 DEF SinkOk, SinkCall
<1>7. RegistryGrows /\ Known' = Known
  BY <1>5, SameRegistry
<1>8. calls' = [calls EXCEPT ![t] = WithTop(calls[t], r)]
  BY <1>4, StepsTo
<1> HIDE DEF r
<1>9. CallOk(mode, Known', Where(t), t, Len(calls[t]), r)
  BY <1>2, <1>6, <1>7 DEF CallOk, SinkOk
<1>10. Quiet(c) /\ Quiet(r)
  BY <1>1, <1>6 DEF Quiet, PhaseOf
<1>11. BridgeInv' /\ PhasesKept
  <2>1. r.fn = Top(t).fn /\ Quiet(Top(t)) /\ Quiet(r)
    BY <1>6, <1>10
  <2> QED
    BY ONLY BridgeInv, t \in AnyThread, <1>1, <1>5, <1>7, <1>8, <1>9, <2>1, StepGoesOn
<1> QED
  BY <1>5, <1>11, SameRegistry DEF CountsSame

LEMMA DispatchInv ==
    ASSUME BridgeInv, NEW t \in AnyThread, Dispatch(t) PROVE BridgeInv' /\ CountsSame
<1> DEFINE c == Top(t)
           r == [c EXCEPT !.at = "end"]
           s0 == CHOOSE s \in Site : TRUE
           call == EventCall(s0, None, DispatchTarget, c.env.hops + 1)
           old1 == calls[t]
           mid == WithTop(old1, r)
           new == Append(mid, call)
<1>1. /\ old1 # <<>> /\ c.fn = "deliver"
      /\ UNCHANGED <<mode, can_enter, lock, queue, registry, old, spanVars, sent, since, missed>>
  BY DEF Dispatch, At, tables, ledger
<1>2. calls' = [calls EXCEPT ![t] = new]
  BY GotoIs DEF Dispatch, Top
<1>3. /\ CallOk(mode, Known, Where(t), t, Len(old1), c) /\ SinkOk(mode, Known, t, Len(old1), c)
      /\ Len(old1) \in Nat \ {0}
  BY <1>1, TopIs
<1>4. r \in SinkCall /\ r.fn = c.fn /\ r.fn = "deliver" /\ r.env = c.env
  BY <1>1, <1>3 DEF SinkOk, SinkCall
<1>5. c.env \in Envelopes
  BY <1>3 DEF SinkOk, SinkCall
<1>6. RegistryGrows /\ Known' = Known
  BY <1>1, SameRegistry
<1>7. StackOk(mode, Known, Where(t), t, old1)
  BY DEF BridgeInv, StacksOk
<1> HIDE DEF r
<1>8. CallOk(mode, Known, Where(t), t, Len(old1), r)
  BY <1>3, <1>4 DEF CallOk, SinkOk
<1>9. Quiet(c) /\ Quiet(r)
  BY <1>1, <1>4 DEF Quiet, PhaseOf
<1>10. /\ StackOk(mode, Known, Where(t), t, mid) /\ Len(mid) = Len(old1)
       /\ HasSink(old1) => HasSink(mid)
       /\ InEmit(old1) => InEmit(mid)
       /\ AtPos(old1, t) => PhaseIs(mid, t, r) /\ PhaseIs(old1, t, Last(old1))
       /\ ~AtPos(old1, t) => SamePhase(old1, mid, t)
  <2>1. r.fn = Last(old1).fn /\ mid = WithTop(old1, r)
    BY <1>4 DEF Top
  <2> HIDE DEF old1, mid
  <2> QED
    BY ONLY <1>1, <1>7, <1>8, <2>1, StackGoesOn
<1>11. /\ call \in LayerCall /\ call.fn = "on_event" /\ call.at = "start" /\ call.site \in Site
       /\ call.env.kind = "event" /\ call.env.site = None
       /\ call.target = DispatchTarget
  <2>1. c.env.hops + 1 \in Nat
    BY <1>5 DEF Envelopes
  <2>2. /\ Envelope("event", c.env.hops + 1) \in Envelopes
        /\ Envelope("event", c.env.hops + 1).kind = "event"
        /\ Envelope("event", c.env.hops + 1).site = None
    BY <2>1, EnvelopeIs DEF Kinds
  <2>3. s0 \in Site
    BY BridgeWords
  <2> HIDE DEF s0
  <2> QED
    BY <2>2, <2>3 DEF EventCall, LayerCall, DispatchTarget
<1> HIDE DEF call
<1>12. LayerOk(mode, Known, Where(t), t, Len(old1) + 1, call)
  <2>1. /\ Len(old1) + 1 # 1 /\ (mode.queued => Len(old1) + 1 = Pos(t))
    <3>1. mode.queued => t = Worker /\ Len(old1) = 1
      BY <1>3 DEF SinkOk
    <3>2. Len(old1) \in Nat \ {0}
      BY <1>3
    <3> DEFINE n == Len(old1)
    <3> HIDE DEF n
    <3>3. (mode.queued => t = Worker /\ n = 1) /\ n \in Nat \ {0}
      BY <3>1, <3>2 DEF n
    <3>4. n + 1 # 1 /\ (mode.queued => n + 1 = Pos(t))
      BY ONLY <3>3 DEF Pos
    <3> QED
      BY <3>4 DEF n
  <2>2. ~mode.dynamic => call.target = BridgeMetadata
    BY <1>11 DEF DispatchTarget
  <2> QED
    BY <1>11, <2>1, <2>2 DEF LayerOk
<1>13. CallOk(mode, Known, Where(t), t, Len(mid) + 1, call)
  BY <1>3, <1>10, <1>12 DEF CallOk
<1>14. Quiet(call)
  BY <1>11 DEF Quiet, PhaseOf
<1>15. /\ StackOk(mode, Known, Where(t), t, new)
       /\ HasSink(mid) => HasSink(new)
       /\ InEmit(mid) => InEmit(new)
       /\ SamePhase(mid, new, t)
  <2> HIDE DEF mid
  <2> QED
    BY ONLY <1>10, <1>13, <1>14, StackPushes DEF new
<1> HIDE DEF new, mid
<1>16. calls \in [AnyThread -> Seq(BridgeCall)]
  BY DEF BridgeInv, BridgeType
<1>17. calls'[t] = new /\ \A u \in AnyThread : u # t => calls'[u] = calls[u]
  BY <1>2, <1>16
<1>18. StacksOk' /\ calls' \in [AnyThread -> Seq(BridgeCall)]
  BY <1>1, <1>2, <1>6, <1>15, SameWhere, StacksStep
<1>19. BridgeType'
  BY <1>1, <1>6, <1>18 DEF BridgeInv, BridgeType
<1>20. GuardsOk'
  BY <1>1, <1>10, <1>15, <1>17 DEF BridgeInv, GuardsOk
<1>21. QueueOk' /\ SpansOk' /\ SentOk'
  BY <1>1, <1>6, QueueStep, SpansStep, SentStep
<1>22. PhasesKept
  BY <1>9, <1>10, <1>15, <1>17 DEF PhasesKept, SamePhase, PhaseIs, Quiet, Top
<1> QED
  BY <1>1, <1>18, <1>19, <1>20, <1>21, <1>22, SameRegistry DEF CountsSame, BridgeInv

LEMMA WorkerReceivesInv ==
    ASSUME BridgeInv, WorkerReceives PROVE BridgeInv' /\ CountsSame
<1> DEFINE r == [fn |-> "deliver", at |-> "start", env |-> Head(queue)]
<1>1. /\ calls[Worker] = <<>> /\ queue # <<>> /\ queue' = Tail(queue)
      /\ calls' = [calls EXCEPT ![Worker] = <<r>>]
      /\ UNCHANGED <<mode, can_enter, lock, registry, old, spanVars, sent, since, missed>>
  BY DEF WorkerReceives, tables, ledger
<1>2. /\ queue \in Seq(Envelopes) /\ mode.queued
      /\ \A i \in 1..Len(queue) : EnvOk(mode, Known, queue[i])
  BY <1>1 DEF BridgeInv, QueueOk
<1>3. /\ Tail(queue) \in Seq(Envelopes) /\ Len(Tail(queue)) = Len(queue) - 1 /\ Head(queue) = queue[1]
      /\ 1 \in 1..Len(queue)
      /\ \A i \in 1..(Len(queue) - 1) : Tail(queue)[i] = queue[i + 1] /\ i + 1 \in 1..Len(queue)
  BY <1>1, <1>2
<1>4. Known' = Known /\ mode' = mode
  BY <1>1 DEF Known
<1>5. QueueOk'
  BY <1>1, <1>2, <1>3, <1>4 DEF QueueOk
<1>6. EnvOk(mode, Known, Head(queue))
  BY <1>2, <1>3
<1>7. r \in SinkCall /\ r.env = Head(queue) /\ r.fn = "deliver"
  BY <1>6 DEF SinkCall, EnvOk
<1>8. SpansOk' /\ SentOk' /\ \A u \in AnyThread : Where(u)' = Where(u)
  BY <1>1, SpansStep, SentStep, SameWhere
<1> HIDE DEF r
<1>9. CallOk(mode, Known, Where(Worker), Worker, 1, r)
  BY <1>2, <1>6, <1>7 DEF CallOk, SinkOk
<1>10. Quiet(r) /\ Worker \in AnyThread
  BY <1>7 DEF Quiet, PhaseOf, AnyThread
<1>11. BridgeInv' /\ PhasesKept
  BY ONLY BridgeInv, <1>1, <1>5, <1>8, <1>9, <1>10, StepBegins
<1> QED
  BY <1>1, <1>11, SameRegistry DEF CountsSame

(* An application's call: a native event, a tracing event, or the end of a *)
(* span.                                                                   *)
LEMMA ApplicationInv ==
    ASSUME BridgeInv, NEW t \in Thread,
           \/ \E g \in BOOLEAN : Native(t, g)
           \/ \E s \in Site, v \in IF "promote" \in mode.does THEN Value ELSE {None} : Trace(t, s, v)
           \/ \E sp \in Span : OnClose(t, sp)
    PROVE  BridgeInv' /\ CountsSame
<1>1. /\ calls[t] = <<>> /\ UNCHANGED <<mode, can_enter, lock, queue, registry, old, ctx, entered, frames, crossed>>
      /\ UNCHANGED <<sent, since, missed>>
      /\ t \in AnyThread /\ t # Worker
  BY BridgeAssumption DEF Native, Trace, OnClose, Free, tables, ledger, spanVars, AnyThread
<1>s. SpansOk' /\ SentOk' /\ \A u \in AnyThread : Where(u)' = Where(u)
  BY <1>1 DEF BridgeInv, SpansOk, SentOk, Correlated, Where, SpanCtx, CurrentSpan
<1>q. QueueOk' /\ Known' = Known
  BY <1>1, QueueStep, SameRegistry
<1>2. ASSUME NEW r, CallOk(mode, Known, Where(t), t, 1, r), Quiet(r), calls' = [calls EXCEPT ![t] = <<r>>]
      PROVE  BridgeInv' /\ CountsSame
  <2>2. QueueOk' /\ SpansOk' /\ SentOk' /\ \A u \in AnyThread : Where(u)' = Where(u)
    BY <1>s, <1>q
  <2>3. BridgeInv' /\ PhasesKept
    BY ONLY BridgeInv, <1>1, <1>2, <2>2, StepBegins
  <2> QED
    BY <1>1, <2>3, SameRegistry DEF CountsSame
<1>3. ASSUME NEW g \in BOOLEAN, Native(t, g) PROVE BridgeInv' /\ CountsSame
  <2> DEFINE r == [fn |-> "emit", at |-> "start", guarded |-> g]
  <2>1. calls' = [calls EXCEPT ![t] = <<r>>]
    BY <1>3 DEF Native
  <2>2. r \in EmitCall /\ Quiet(r)
    BY DEF EmitCall, Quiet, PhaseOf
  <2> HIDE DEF r
  <2>3. CallOk(mode, Known, Where(t), t, 1, r)
    BY <1>1, <2>2 DEF CallOk, EmitOk
  <2> QED
    BY <1>2, <2>1, <2>2, <2>3
<1>4. ASSUME NEW s \in Site, NEW v \in IF "promote" \in mode.does THEN Value ELSE {None}, Trace(t, s, v)
      PROVE  BridgeInv' /\ CountsSame
  <2> DEFINE r == EventCall(s, v, "app", 0)
  <2>1. calls' = [calls EXCEPT ![t] = <<r>>]
    BY <1>4 DEF Trace
  <2>2. /\ Envelope("event", 0) \in Envelopes /\ Envelope("event", 0).kind = "event"
        /\ Envelope("event", 0).site = None /\ Envelope("event", 0).hops = 0
    BY EnvelopeIs DEF Kinds
  <2>3. v \in Value \union {None}
    OBVIOUS
  <2>4. /\ r \in LayerCall /\ r.fn = "on_event" /\ r.at = "start" /\ r.target = "app" /\ r.site = s
        /\ r.env = Envelope("event", 0)
    BY <2>2, <2>3 DEF EventCall, LayerCall
  <2> HIDE DEF r
  <2>5. CallOk(mode, Known, Where(t), t, 1, r) /\ Quiet(r)
    BY <1>1, <2>2, <2>4 DEF CallOk, LayerOk, EnvOk, Pos, Quiet, PhaseOf
  <2> QED
    BY <1>2, <2>1, <2>5
<1>5. ASSUME NEW sp \in Span, OnClose(t, sp), mode.spans = "Suppressed" PROVE BridgeInv' /\ CountsSame
  <2>1. calls' = calls
    BY <1>5 DEF OnClose
  <2>2. StacksOk'
    BY <1>1, <1>s, <1>q, <2>1 DEF BridgeInv, StacksOk
  <2>3. BridgeType' /\ GuardsOk'
    BY <1>1, <1>q, <2>1 DEF BridgeInv, BridgeType, GuardsOk
  <2>4. PhasesKept
    BY <2>1 DEF PhasesKept, SamePhase
  <2> QED
    BY <1>1, <1>s, <1>q, <2>2, <2>3, <2>4, SameRegistry DEF CountsSame, BridgeInv
<1>6. ASSUME NEW sp \in Span, OnClose(t, sp), mode.spans # "Suppressed" PROVE BridgeInv' /\ CountsSame
  <2> DEFINE env == [Envelope("span_completed", 0) EXCEPT !.ctx = ctx[sp], !.at = sp]
             r == [fn |-> "on_event", at |-> "emit", site |-> None, value |-> None, target |-> "app",
                   stale |-> FALSE, env |-> env]
  <2>1. calls' = [calls EXCEPT ![t] = <<r>>] /\ ctx[sp] \in BridgeCtx
    <3>1. calls' = [calls EXCEPT ![t] = SpanCall(sp, "span_completed", ctx[sp])] /\ sp \in DOMAIN ctx
      BY <1>6 DEF OnClose
    <3>2. ctx[sp] \in BridgeCtx
      BY <3>1 DEF BridgeInv, SpansOk
    <3> QED
      BY <3>1, <3>2 DEF SpanCall
  <2>2. /\ env \in Envelopes /\ env.kind = "span_completed" /\ env.site = None /\ env.hops = 0
    <3>1. /\ Envelope("span_completed", 0) \in Envelopes /\ Envelope("span_completed", 0).kind = "span_completed"
          /\ Envelope("span_completed", 0).site = None /\ Envelope("span_completed", 0).hops = 0
      BY EnvelopeIs DEF Kinds
    <3> QED
      BY <2>1, <3>1 DEF Envelopes
  <2> HIDE DEF env
  <2>3. /\ r \in LayerCall /\ r.fn = "on_event" /\ r.at = "emit" /\ r.target = "app" /\ r.env = env
    BY <2>2 DEF LayerCall
  <2> HIDE DEF r
  <2>4. CallOk(mode, Known, Where(t), t, 1, r) /\ Quiet(r)
    BY <1>1, <2>2, <2>3 DEF CallOk, LayerOk, EnvOk, Pos, Quiet, PhaseOf
  <2> QED
    BY <1>2, <2>1, <2>4
<1> QED
  BY <1>3, <1>4, <1>5, <1>6

(* A thread enters a span, or leaves one: with the frame on top goes that  *)
(* of the span entered last.                                               *)
LEMMA EnterExitInv ==
    ASSUME BridgeInv, NEW t \in Thread,
           (\E i \in DOMAIN entered[t] : OnExit(t, i)) \/ \E sp \in Span : OnEnter(t, sp)
    PROVE  BridgeInv' /\ CountsSame
<1>1. /\ calls[t] = <<>>
      /\ UNCHANGED <<mode, calls, can_enter, lock, queue, registry, old, ctx, sent, since, missed>>
      /\ t \in AnyThread
  BY DEF OnEnter, OnExit, Free, tables, ledger, AnyThread
<1>2. /\ entered \in [AnyThread -> Seq(DOMAIN ctx)] /\ frames \in [AnyThread -> Seq(BridgeCtx)]
      /\ Len(frames[t]) = Len(entered[t]) /\ crossed \in [AnyThread -> BOOLEAN]
      /\ ~crossed[t] => \A i \in 1..Len(entered[t]) : frames[t][i] = ctx[entered[t][i]]
  BY <1>1 DEF BridgeInv, SpansOk
<1> DEFINE Moved(e, f, x) ==
             /\ entered' = [entered EXCEPT ![t] = e] /\ frames' = [frames EXCEPT ![t] = f]
             /\ crossed' = [crossed EXCEPT ![t] = x] /\ x \in BOOLEAN
             /\ e \in Seq(DOMAIN ctx) /\ f \in Seq(BridgeCtx) /\ Len(f) = Len(e)
             /\ ~x => \A i \in 1..Len(e) : f[i] = ctx[e[i]]
<1>3a. entered[t] \in Seq(DOMAIN ctx) /\ frames[t] \in Seq(BridgeCtx)
  BY <1>1, <1>2
<1>3b. ASSUME NEW k \in DOMAIN entered[t], OnExit(t, k) PROVE \E e, f, x : Moved(e, f, x)
  <2> DEFINE es == entered[t]
             fs == frames[t]
             n == Len(es)
             e == RemoveAt(es, k)
             f == Front(fs)
             x == n # 1 /\ (crossed[t] \/ k # n)
  <2>1. /\ entered' = [entered EXCEPT ![t] = e] /\ frames' = [frames EXCEPT ![t] = f]
        /\ crossed' = [crossed EXCEPT ![t] = x] /\ x \in BOOLEAN
    BY <1>2, <1>3b DEF OnExit, PopFrame
  <2>2. /\ es \in Seq(DOMAIN ctx) /\ fs \in Seq(BridgeCtx) /\ n \in Nat /\ k \in 1..n /\ Len(fs) = n
        /\ (~crossed[t] => \A i \in 1..n : fs[i] = ctx[es[i]])
    BY <1>2, <1>3a
  <2>3. fs # <<>> /\ es # <<>>
    BY <2>2
  <2> HIDE DEF es, fs, n
  <2>4. /\ f \in Seq(BridgeCtx) /\ Len(f) = n - 1 /\ \A i \in 1..(n - 1) : i \in 1..n /\ f[i] = fs[i]
    <3>1. fs \in Seq(BridgeCtx) /\ fs # <<>> /\ Len(fs) = n
      BY <2>2, <2>3
    <3>2. /\ Front(fs) \in Seq(BridgeCtx) /\ Len(Front(fs)) = Len(fs) - 1
          /\ \A i \in 1..(Len(fs) - 1) : i \in 1..Len(fs) /\ Front(fs)[i] = fs[i]
      BY ONLY <3>1, SequenceEnds
    <3> QED
      BY ONLY <3>1, <3>2
  <2>5. e \in Seq(DOMAIN ctx) /\ Len(e) = n - 1
    BY <2>2, RemoveAtKeeps DEF n
  <2>6. ASSUME ~x PROVE \A i \in 1..Len(e) : f[i] = ctx[e[i]]
    <3>1. CASE n = 1
      BY <2>5, <3>1
    <3>2. CASE n # 1
      <4>1. ~crossed[t] /\ k = n
        BY <2>6, <3>2
      <4>2. \A i \in 1..(n - 1) : e[i] = es[i]
        <5>1. \A i \in 1..(n - 1) : e[i] = es[IF i < k THEN i ELSE i + 1]
          BY <2>2, RemoveAtKeeps DEF n
        <5> QED
          BY <2>2, <4>1, <5>1
      <4> QED
        BY <2>2, <2>4, <2>5, <4>1, <4>2
    <3> QED
      BY <3>1, <3>2
  <2> HIDE DEF e, f, x
  <2>7. Moved(e, f, x)
    BY <2>1, <2>4, <2>5, <2>6
  <2> HIDE DEF Moved
  <2> QED
    BY <2>7
<1>3c. ASSUME NEW sp \in Span, OnEnter(t, sp) PROVE \E e, f, x : Moved(e, f, x)
  <2> DEFINE e == Append(entered[t], sp)
             f == Append(frames[t], ctx[sp])
             n == Len(entered[t])
  <2>1. /\ sp \in DOMAIN ctx /\ ctx[sp] \in BridgeCtx
        /\ entered' = [entered EXCEPT ![t] = e] /\ frames' = [frames EXCEPT ![t] = f]
    BY <1>3c DEF OnEnter, BridgeInv, SpansOk
  <2>c. crossed' = [crossed EXCEPT ![t] = crossed[t]] /\ crossed[t] \in BOOLEAN
    <3>1. crossed' = crossed
      BY <1>3c DEF OnEnter
    <3> QED
      BY <1>1, <1>2, <3>1
  <2>2. /\ e \in Seq(DOMAIN ctx) /\ Len(e) = n + 1 /\ e[n + 1] = sp
        /\ \A i \in 1..n : e[i] = entered[t][i]
        /\ \A i \in 1..(n + 1) : i = n + 1 \/ i \in 1..n
    <3>1. PICK s : s = entered[t]
      OBVIOUS
    <3>2. PICK D : D = DOMAIN ctx
      OBVIOUS
    <3>3. s \in Seq(D) /\ sp \in D
      BY <1>3a, <2>1, <3>1, <3>2
    <3>4. /\ Append(s, sp) \in Seq(D) /\ Len(Append(s, sp)) = Len(s) + 1 /\ Append(s, sp)[Len(s) + 1] = sp
          /\ \A i \in 1..Len(s) : Append(s, sp)[i] = s[i]
          /\ \A i \in 1..(Len(s) + 1) : i = Len(s) + 1 \/ i \in 1..Len(s)
      BY ONLY <3>3
    <3> QED
      BY <3>1, <3>2, <3>4
  <2>3. /\ f \in Seq(BridgeCtx) /\ Len(f) = Len(frames[t]) + 1 /\ f[Len(frames[t]) + 1] = ctx[sp]
        /\ \A i \in 1..Len(frames[t]) : f[i] = frames[t][i]
    BY <1>3a, <2>1
  <2> HIDE DEF e, f, n
  <2>4. n = Len(entered[t])
    BY DEF n
  <2>5. Len(f) = Len(e) /\ (~crossed[t] => \A i \in 1..Len(e) : f[i] = ctx[e[i]])
    BY ONLY <1>2, <2>2, <2>3, <2>4
  <2>6. Moved(e, f, crossed[t])
    BY <2>1, <2>c, <2>2, <2>3, <2>5
  <2> HIDE DEF Moved
  <2> QED
    BY <2>6
<1>3. PICK e, f, x : Moved(e, f, x)
  <2> HIDE DEF Moved
  <2> QED
    BY <1>3b, <1>3c
<1>4. /\ entered'[t] = e /\ frames'[t] = f /\ crossed'[t] = x /\ crossed' \in [AnyThread -> BOOLEAN]
      /\ \A u \in AnyThread : u # t => entered'[u] = entered[u] /\ frames'[u] = frames[u] /\ crossed'[u] = crossed[u]
      /\ entered' \in [AnyThread -> Seq(DOMAIN ctx)] /\ frames' \in [AnyThread -> Seq(BridgeCtx)]
  BY <1>1, <1>2, <1>3
<1>5. SpansOk'
  <2>1. \A u \in AnyThread :
           /\ Len(frames'[u]) = Len(entered'[u])
           /\ ~crossed'[u] => \A i \in 1..Len(entered'[u]) : frames'[u][i] = ctx[entered'[u][i]]
    BY <1>3, <1>4 DEF BridgeInv, SpansOk
  <2> QED
    BY <1>1, <1>4, <2>1 DEF BridgeInv, SpansOk
<1>6. ASSUME NEW u \in AnyThread, u # t PROVE Where(u)' = Where(u)
  <2>1. entered'[u] = entered[u]
    BY <1>4, <1>6
  <2>2. CurrentSpan(u)' = CurrentSpan(u)
    BY <2>1 DEF CurrentSpan
  <2> QED
    BY <1>1, <2>1, <2>2 DEF Where, SpanCtx
<1>7. Known' = Known
  BY <1>1 DEF Known
<1>8. StacksOk'
  <2> SUFFICES ASSUME NEW u \in AnyThread PROVE StackOk(mode, Known, Where(u)', u, calls[u])
    BY <1>1, <1>7 DEF StacksOk
  <2>1. StackOk(mode, Known, Where(u), u, calls[u])
    BY DEF BridgeInv, StacksOk
  <2>2. CASE u = t
    <3>1. calls[u] = <<>>
      BY <1>1, <2>2
    <3>2. \A h : StackOk(mode, Known, h, u, <<>>)
      BY DEF StackOk
    <3> QED
      BY <3>1, <3>2
  <2>3. CASE u # t
    BY <1>6, <2>1, <2>3
  <2> QED
    BY <2>2, <2>3
<1>9. QueueOk' /\ GuardsOk' /\ BridgeType'
  BY <1>1, <1>7 DEF BridgeInv, QueueOk, GuardsOk, BridgeType
<1>10. SentOk'
  BY <1>1 DEF BridgeInv, SentOk, Correlated
<1>11. PhasesKept
  BY <1>1 DEF PhasesKept, SamePhase
<1> QED
  BY <1>1, <1>5, <1>8, <1>9, <1>10, <1>11, SameRegistry DEF CountsSame, BridgeInv

(* A new span's identity: its own, under that of the span the thread is in,*)
(* in the trace of that span unless it is given one.                       *)
LEMMA OnNewSpanInv ==
    ASSUME BridgeInv, NEW t \in Thread, NEW sp \in Span, NEW given \in BOOLEAN, OnNewSpan(t, sp, given)
    PROVE  BridgeInv' /\ CountsSame
<1> DEFINE parent == IF entered[t] = <<>> THEN None ELSE ctx[CurrentSpan(t)].id
           c == [trace |-> IF given THEN Given ELSE TraceOf(t, sp), id |-> sp, parent |-> parent]
<1>1. /\ calls[t] = <<>> /\ sp \notin DOMAIN ctx
      /\ ctx' = [x \in DOMAIN ctx \union {sp} |-> IF x = sp THEN c ELSE ctx[x]]
      /\ \/ calls' = [calls EXCEPT ![t] = SpanCall(sp, "span_entered", c)]
         \/ calls' = calls
      /\ UNCHANGED <<mode, can_enter, lock, queue, registry, old, entered, frames, crossed, sent, since, missed>>
      /\ t \in AnyThread /\ t # Worker
  BY BridgeAssumption DEF OnNewSpan, Free, tables, ledger, AnyThread
<1>2. /\ DOMAIN ctx \subseteq Span /\ ctx \in [DOMAIN ctx -> BridgeCtx]
      /\ \A x \in DOMAIN ctx :
            /\ ctx[x].id = x /\ ctx[x].trace # None
            /\ ctx[x].parent # None =>
                  ctx[x].parent \in DOMAIN ctx /\ ctx[x].trace \in {Given, ctx[ctx[x].parent].trace}
      /\ entered \in [AnyThread -> Seq(DOMAIN ctx)] /\ frames \in [AnyThread -> Seq(BridgeCtx)]
      /\ crossed \in [AnyThread -> BOOLEAN]
      /\ \A u \in AnyThread :
            /\ Len(frames[u]) = Len(entered[u])
            /\ ~crossed[u] => \A i \in 1..Len(entered[u]) : frames[u][i] = ctx[entered[u][i]]
  BY DEF BridgeInv, SpansOk
<1>3. entered[t] # <<>> => CurrentSpan(t) \in DOMAIN ctx /\ ctx[CurrentSpan(t)] \in BridgeCtx
  BY <1>1, <1>2, CurrentIs DEF BridgeInv
<1>4. /\ c \in BridgeCtx /\ c.id = sp /\ c.trace # None
      /\ c.parent # None => c.parent \in DOMAIN ctx /\ c.trace \in {Given, ctx[c.parent].trace}
  <2>1. parent \in Span \union {None} /\ (parent # None => parent \in DOMAIN ctx /\ TraceOf(t, sp) = ctx[parent].trace)
    BY <1>2, <1>3 DEF TraceOf
  <2>2. TraceOf(t, sp) \in Span \union {None, Given} /\ TraceOf(t, sp) # None
    BY <1>2, <1>3, BridgeWords DEF TraceOf, BridgeCtx
  <2>3. Given # None
    BY DEF Given, None
  <2> HIDE DEF parent
  <2> QED
    BY <2>1, <2>2, <2>3 DEF BridgeCtx
<1> HIDE DEF c
<1>5. /\ DOMAIN ctx' = DOMAIN ctx \union {sp} /\ ctx'[sp] = c
      /\ \A x \in DOMAIN ctx : ctx'[x] = ctx[x] /\ x # sp
  BY <1>1
<1>6. \A u \in AnyThread : entered[u] \in Seq(DOMAIN ctx') /\ \A i \in 1..Len(entered[u]) : entered[u][i] \in DOMAIN ctx
  BY <1>2, <1>5
<1>7. SpansOk'
  <2>1. ctx' \in [DOMAIN ctx' -> BridgeCtx] /\ DOMAIN ctx' \subseteq Span
    BY <1>1, <1>2, <1>4, <1>5
  <2>2. \A x \in DOMAIN ctx' :
            /\ ctx'[x].id = x /\ ctx'[x].trace # None
            /\ ctx'[x].parent # None =>
                  ctx'[x].parent \in DOMAIN ctx' /\ ctx'[x].trace \in {Given, ctx'[ctx'[x].parent].trace}
    BY <1>2, <1>4, <1>5
  <2>3. entered' \in [AnyThread -> Seq(DOMAIN ctx')] /\ frames' \in [AnyThread -> Seq(BridgeCtx)]
    BY <1>1, <1>2, <1>6
  <2>4. \A u \in AnyThread :
            /\ Len(frames'[u]) = Len(entered'[u])
            /\ ~crossed'[u] => \A i \in 1..Len(entered'[u]) : frames'[u][i] = ctx'[entered'[u][i]]
    BY <1>1, <1>2, <1>5, <1>6
  <2> QED
    BY <1>1, <1>2, <2>1, <2>2, <2>3, <2>4 DEF SpansOk
<1>8. \A u \in AnyThread : Where(u)' = Where(u)
  <2> SUFFICES ASSUME NEW u \in AnyThread PROVE Where(u)' = Where(u)
    OBVIOUS
  <2>1. entered[u] # <<>> => CurrentSpan(u) \in DOMAIN ctx
    BY CurrentIs DEF BridgeInv
  <2>2. CurrentSpan(u)' = CurrentSpan(u)
    BY <1>1 DEF CurrentSpan
  <2> QED
    BY <1>1, <1>5, <2>1, <2>2 DEF Where, SpanCtx
<1>9. SentOk'
  BY <1>1, <1>5 DEF BridgeInv, SentOk, Correlated
<1>10. Known' = Known
  BY <1>1 DEF Known
<1>11. QueueOk'
  BY <1>1, QueueStep, SameRegistry
<1>12. CASE calls' = calls
  <2>1. StacksOk'
    BY <1>1, <1>8, <1>10, <1>12 DEF BridgeInv, StacksOk
  <2>2. BridgeType' /\ GuardsOk'
    BY <1>1, <1>10, <1>12 DEF BridgeInv, BridgeType, GuardsOk
  <2>3. PhasesKept
    BY <1>12 DEF PhasesKept, SamePhase
  <2> QED
    BY <1>1, <1>7, <1>9, <1>11, <2>1, <2>2, <2>3, SameRegistry DEF CountsSame, BridgeInv
<1>13. CASE calls' = [calls EXCEPT ![t] = SpanCall(sp, "span_entered", c)]
  <2> DEFINE env == [Envelope("span_entered", 0) EXCEPT !.ctx = c, !.at = sp]
             r == [fn |-> "on_event", at |-> "emit", site |-> None, value |-> None, target |-> "app",
                   stale |-> FALSE, env |-> env]
  <2>1. calls' = [calls EXCEPT ![t] = <<r>>]
    BY <1>13 DEF SpanCall
  <2>2. /\ env \in Envelopes /\ env.kind = "span_entered" /\ env.site = None /\ env.hops = 0
    <3>1. /\ Envelope("span_entered", 0) \in Envelopes /\ Envelope("span_entered", 0).kind = "span_entered"
          /\ Envelope("span_entered", 0).site = None /\ Envelope("span_entered", 0).hops = 0
      BY EnvelopeIs DEF Kinds
    <3> QED
      BY <1>4, <3>1 DEF Envelopes
  <2> HIDE DEF env
  <2>3. /\ r \in LayerCall /\ r.fn = "on_event" /\ r.at = "emit" /\ r.target = "app" /\ r.env = env
    BY <2>2 DEF LayerCall
  <2> HIDE DEF r
  <2>4. CallOk(mode, Known, Where(t), t, 1, r) /\ Quiet(r)
    BY <1>1, <2>2, <2>3 DEF CallOk, LayerOk, EnvOk, Pos, Quiet, PhaseOf
  <2>5. BridgeInv' /\ PhasesKept
    BY ONLY BridgeInv, <1>1, <1>7, <1>8, <1>9, <1>11, <2>1, <2>4, StepBegins
  <2> QED
    BY <1>1, <2>5, SameRegistry DEF CountsSame
<1> QED
  BY <1>1, <1>12, <1>13

LEMMA BridgeInitInv == BridgeInit => BridgeInv /\ CountsOk
<1> SUFFICES ASSUME BridgeInit PROVE BridgeInv /\ CountsOk
  OBVIOUS
<1>1. /\ mode \in Modes /\ calls = [t \in AnyThread |-> <<>>] /\ can_enter = [t \in AnyThread |-> TRUE]
      /\ lock = None /\ queue = <<>> /\ registry = <<>> /\ ctx = <<>>
      /\ entered = [t \in AnyThread |-> <<>>] /\ frames = [t \in AnyThread |-> <<>>]
      /\ sent = {} /\ since = [s \in Site |-> 0] /\ missed = [s \in Site |-> 0]
      /\ crossed = [t \in AnyThread |-> FALSE]
  BY DEF BridgeInit
<1>2. Known = {} /\ DOMAIN ctx = {} /\ registry \in [{} -> Nat] /\ ctx \in [{} -> BridgeCtx]
  BY <1>1 DEF Known
<1>3. BridgeType
  BY <1>1, <1>2 DEF BridgeType
<1>4. StacksOk /\ QueueOk
  BY <1>1 DEF StacksOk, StackOk, QueueOk
<1>5. GuardsOk
  BY <1>1, BridgeWords DEF GuardsOk
<1>6. SpansOk
  BY <1>1, <1>2 DEF SpansOk
<1>7. SentOk
  BY <1>1 DEF SentOk
<1>8. \A t \in AnyThread, s \in Site : Phase(calls[t], t, s) = "none"
  BY <1>1 DEF Phase
<1>9. CountsOk
  BY <1>1, <1>2, <1>8 DEF CountsOk, SiteOk, InPhase
<1> QED
  BY <1>3, <1>4, <1>5, <1>6, <1>7, <1>9 DEF BridgeInv

-------------------------------------------------------------------------------
(* How many threads are in which phase.                                    *)

Phases(s) == [u \in AnyThread |-> Phase(calls[u], u, s)]
Tally(ph, ps) == Cardinality({u \in AnyThread : ph[u] \in ps})
Within(ph, L) == IsFiniteSet(L) /\ L \subseteq AnyThread /\ \A u \in AnyThread : ph[u] # "none" => u \in L

(* A thread that goes from one phase to another changes a tally by one at  *)
(* most.                                                                   *)
Shift(from, to, ps) ==
    IF to \in ps THEN (IF from \in ps THEN 0 ELSE 1) ELSE (IF from \in ps THEN -1 ELSE 0)

LEMMA TallyIs ==
    ASSUME NEW ph, NEW L, Within(ph, L), NEW ps, "none" \notin ps
    PROVE  /\ {u \in AnyThread : ph[u] \in ps} \in SUBSET L
           /\ IsFiniteSet({u \in AnyThread : ph[u] \in ps})
           /\ Tally(ph, ps) \in Nat
<1>1. {u \in AnyThread : ph[u] \in ps} \in SUBSET L
  BY DEF Within
<1>2. IsFiniteSet(L)
  BY DEF Within
<1>3. IsFiniteSet({u \in AnyThread : ph[u] \in ps})
  BY <1>1, <1>2, FS_Subset
<1> QED
  BY <1>1, <1>3, FS_CardinalityType DEF Tally

LEMMA Tallies ==
    ASSUME NEW ph, NEW L, Within(ph, L)
    PROVE  /\ Cardinality(L) \in Nat
           /\ Tally(ph, {"emit"}) \in Nat /\ Tally(ph, {"reset"}) \in Nat /\ Tally(ph, {"register", "reset"}) \in Nat
           /\ Tally(ph, {"emit"}) + Tally(ph, {"register", "reset"}) <= Cardinality(L)
           /\ Tally(ph, {"reset"}) <= Tally(ph, {"register", "reset"})
<1> DEFINE A == {u \in AnyThread : ph[u] \in {"emit"}}
           B == {u \in AnyThread : ph[u] \in {"reset"}}
           C == {u \in AnyThread : ph[u] \in {"register", "reset"}}
<1>1. IsFiniteSet(L) /\ Cardinality(L) \in Nat
  BY FS_CardinalityType DEF Within
<1>2. A \in SUBSET L /\ IsFiniteSet(A) /\ Tally(ph, {"emit"}) \in Nat
  BY TallyIs
<1>3. Tally(ph, {"reset"}) \in Nat
  BY TallyIs
<1>4. C \in SUBSET L /\ IsFiniteSet(C) /\ Tally(ph, {"register", "reset"}) \in Nat
  BY TallyIs
<1>5. B \in SUBSET C /\ A \cap C = {} /\ A \union C \in SUBSET L
  BY <1>2, <1>4
<1>6. Tally(ph, {"emit"}) = Cardinality(A) /\ Tally(ph, {"reset"}) = Cardinality(B)
      /\ Tally(ph, {"register", "reset"}) = Cardinality(C)
  BY DEF Tally
<1> HIDE DEF A, B, C
<1>7. Cardinality(B) <= Cardinality(C)
  BY <1>4, <1>5, FS_Subset
<1>8. Cardinality(A \union C) <= Cardinality(L)
  BY <1>1, <1>5, FS_Subset
<1>9. Cardinality(A \union C) = Cardinality(A) + Cardinality(C) - Cardinality({})
  BY <1>2, <1>4, <1>5, FS_Union
<1> QED
  BY <1>1, <1>2, <1>3, <1>4, <1>6, <1>7, <1>8, <1>9, FS_EmptySet

LEMMA TallyMoves ==
    ASSUME NEW ph, NEW L, Within(ph, L), NEW new, NEW t \in AnyThread, NEW ps, "none" \notin ps,
           \A u \in AnyThread : u # t => new[u] = ph[u]
    PROVE  Tally(new, ps) = Tally(ph, ps) + Shift(ph[t], new[t], ps)
<1> DEFINE A == {u \in AnyThread : ph[u] \in ps}
           B == {u \in AnyThread : new[u] \in ps}
<1>1. IsFiniteSet(A) /\ Cardinality(A) \in Nat /\ Tally(ph, ps) = Cardinality(A) /\ Tally(new, ps) = Cardinality(B)
  BY TallyIs DEF Tally
<1>2. /\ t \in A <=> ph[t] \in ps
      /\ t \in B <=> new[t] \in ps
      /\ \A u : u # t => (u \in B <=> u \in A)
  OBVIOUS
<1> HIDE DEF A, B
<1>3. CASE new[t] \in ps
  <2>1. B = A \union {t}
    BY <1>2, <1>3
  <2>2. Cardinality(A \union {t}) = IF t \in A THEN Cardinality(A) ELSE Cardinality(A) + 1
    BY <1>1, FS_AddElement
  <2> QED
    BY <1>1, <1>2, <1>3, <2>1, <2>2 DEF Shift
<1>4. CASE new[t] \notin ps
  <2>1. B = A \ {t}
    BY <1>2, <1>4
  <2>2. Cardinality(A \ {t}) = IF t \in A THEN Cardinality(A) - 1 ELSE Cardinality(A)
    BY <1>1, FS_RemoveElement
  <2> QED
    BY <1>1, <1>2, <1>4, <2>1, <2>2 DEF Shift
<1> QED
  BY <1>3, <1>4

(* Where the counts are bounded, only lifting threads are in a phase.      *)
LEMMA PhasesWithin ==
    ASSUME BridgeInv, mode.queued \/ ~mode.dynamic, NEW s \in Site
    PROVE  Within(Phases(s), Lifting)
<1>1. IsFiniteSet(Thread)
  BY BridgeAssumption
<1>2. IsFiniteSet(AnyThread)
  BY <1>1, FS_AddElement DEF AnyThread
<1>3. IsFiniteSet(Lifting) /\ Lifting \subseteq AnyThread
  BY <1>1, <1>2 DEF Lifting, AnyThread
<1>4. ASSUME NEW u \in AnyThread, Phase(calls[u], u, s) # "none" PROVE u \in Lifting
  <2> DEFINE c == calls[u][Pos(u)]
  <2>1. Pos(u) \in 1..Len(calls[u]) /\ c.fn = "on_event" /\ c.at \in {"register", "reset", "emit"}
    BY <1>4 DEF Phase, PhaseOf
  <2>2. CallOk(mode, Known, Where(u), u, Pos(u), c)
    BY <2>1 DEF BridgeInv, StacksOk, StackOk
  <2>3. LayerOk(mode, Known, Where(u), u, Pos(u), c)
    BY <2>1, <2>2, CallKinds
  <2>4. u = Worker => Pos(u) # 1
    BY DEF Pos
  <2>5. u = Worker => mode.dynamic
    BY <2>1, <2>3, <2>4 DEF LayerOk
  <2> QED
    BY <2>5 DEF Lifting, AnyThread
<1> QED
  BY <1>3, <1>4 DEF Within, Phases

LEMMA TalliesAre ==
    ASSUME NEW s
    PROVE  /\ Cardinality(Sending(s)) = Tally(Phases(s), {"emit"})
           /\ Cardinality(Resetting(s)) = Tally(Phases(s), {"reset"})
           /\ Cardinality(Due(s)) = Tally(Phases(s), {"register", "reset"})
BY DEF Sending, Resetting, Due, InPhase, Tally, Phases

(* What a lift that goes from one phase to another does to the tallies of  *)
(* its callsite.                                                           *)
Tallied(n, sd, rs, du) == sd \in Nat /\ rs \in Nat /\ du \in Nat /\ sd + du <= n /\ rs <= du

MovedTo(s0, from, to) ==
    /\ Lifting' = Lifting /\ Cardinality(Lifting) \in Nat \ {0}
    /\ Tallied(Cardinality(Lifting), Cardinality(Sending(s0)), Cardinality(Resetting(s0)), Cardinality(Due(s0)))
    /\ Tallied(Cardinality(Lifting), Cardinality(Sending(s0)'), Cardinality(Resetting(s0)'), Cardinality(Due(s0)'))
    /\ Cardinality(Sending(s0)') = Cardinality(Sending(s0)) + Shift(from, to, {"emit"})
    /\ Cardinality(Resetting(s0)') = Cardinality(Resetting(s0)) + Shift(from, to, {"reset"})
    /\ Cardinality(Due(s0)') = Cardinality(Due(s0)) + Shift(from, to, {"register", "reset"})
    /\ \A s \in Site : s # s0 => \A u \in AnyThread : Phase(calls'[u], u, s) = Phase(calls[u], u, s)

LEMMA Moved ==
    ASSUME BridgeInv, mode.queued \/ ~mode.dynamic, mode' = mode, NEW t \in Lifting, AtPos(calls[t], t),
           NEW s0 \in Site, NEW from, NEW to, MovesOn(t, s0, from, to)
    PROVE  MovedTo(s0, from, to)
<1> DEFINE ph == Phases(s0)
           new == Phases(s0)'
<1>1. Within(ph, Lifting)
  BY PhasesWithin
<1>2. t \in AnyThread /\ Lifting' = Lifting
  BY DEF Lifting, AnyThread
<1>3. /\ \A u \in AnyThread : ph[u] = Phase(calls[u], u, s0) /\ new[u] = Phase(calls'[u], u, s0)
      /\ \A u \in AnyThread : u # t => calls'[u] = calls[u]
      /\ \A s \in Site : /\ Phase(calls[t], t, s) = IF s = s0 THEN from ELSE "none"
                         /\ Phase(calls'[t], t, s) = IF s = s0 THEN to ELSE "none"
  BY DEF Phases, MovesOn
<1>4. \A s \in Site : s # s0 => \A u \in AnyThread : Phase(calls'[u], u, s) = Phase(calls[u], u, s)
  BY <1>3
<1>5. /\ \A u \in AnyThread : u # t => new[u] = ph[u]
      /\ ph[t] = from /\ new[t] = to
  BY <1>2, <1>3
<1>6. /\ Cardinality(Sending(s0)) = Tally(ph, {"emit"})
      /\ Cardinality(Resetting(s0)) = Tally(ph, {"reset"})
      /\ Cardinality(Due(s0)) = Tally(ph, {"register", "reset"})
  BY TalliesAre
<1>7. /\ Cardinality(Sending(s0)') = Tally(new, {"emit"})
      /\ Cardinality(Resetting(s0)') = Tally(new, {"reset"})
      /\ Cardinality(Due(s0)') = Tally(new, {"register", "reset"})
  BY DEF Sending, Resetting, Due, InPhase, Tally, Phases
<1> HIDE DEF ph, new
<1>8. Within(new, Lifting)
  BY <1>1, <1>5 DEF Within
<1>9. /\ Tally(new, {"emit"}) = Tally(ph, {"emit"}) + Shift(from, to, {"emit"})
      /\ Tally(new, {"reset"}) = Tally(ph, {"reset"}) + Shift(from, to, {"reset"})
      /\ Tally(new, {"register", "reset"}) = Tally(ph, {"register", "reset"}) + Shift(from, to, {"register", "reset"})
  BY <1>1, <1>2, <1>5, TallyMoves
<1>10. /\ Cardinality(Lifting) \in Nat
       /\ Tallied(Cardinality(Lifting), Tally(ph, {"emit"}), Tally(ph, {"reset"}), Tally(ph, {"register", "reset"}))
  BY <1>1, Tallies DEF Tallied
<1>11. Tallied(Cardinality(Lifting), Tally(new, {"emit"}), Tally(new, {"reset"}), Tally(new, {"register", "reset"}))
  BY <1>8, Tallies DEF Tallied
<1>12. Cardinality(Lifting) # 0
  <2>1. IsFiniteSet(Lifting)
    BY <1>1 DEF Within
  <2> QED
    BY <2>1, FS_EmptySet
<1> QED
  BY <1>2, <1>4, <1>6, <1>7, <1>9, <1>10, <1>11, <1>12 DEF MovedTo

-------------------------------------------------------------------------------
(* The count of a callsite, action by action.                              *)

LEMMA LeftIs == \A c \in Nat : Left(c) \in 0..(RefreshCount - 1)
BY BridgeAssumption DEF Left

LEMMA Room ==
    \A n, x, r, l \in Nat, R \in Nat \ {0} :
        x # 0 /\ x + r <= n /\ l <= R - 1 => x + r * R + l <= n * R
<1> SUFFICES ASSUME NEW n \in Nat, NEW x \in Nat, NEW r \in Nat, NEW l \in Nat, NEW R \in Nat \ {0},
                    x # 0, x + r <= n, l <= R - 1
             PROVE  x + r * R + l <= n * R
  OBVIOUS
<1>1. PICK d \in Nat : n = x + r + d
  <2>1. n - (x + r) \in Nat /\ n = x + r + (n - (x + r))
    OBVIOUS
  <2> QED
    BY <2>1
<1>2. PICK y \in Nat : x = y + 1
  <2>1. x - 1 \in Nat /\ x = (x - 1) + 1
    OBVIOUS
  <2> QED
    BY <2>1
<1>3. PICK k \in Nat : R = k + 1
  <2>1. R - 1 \in Nat /\ R = (R - 1) + 1
    OBVIOUS
  <2> QED
    BY <2>1
<1>4. n * R = x * R + r * R + d * R
  BY <1>1
<1>5. x * R = y * k + y + k + 1
  BY <1>2, <1>3
<1>6. y * k \in Nat /\ d * R \in Nat /\ r * R \in Nat /\ x * R \in Nat /\ n * R \in Nat
  OBVIOUS
<1> DEFINE yk == y * k
           dR == d * R
           rR == r * R
           xR == x * R
           nR == n * R
<1>7. yk \in Nat /\ dR \in Nat /\ rR \in Nat /\ xR \in Nat /\ nR \in Nat /\ nR = xR + rR + dR /\ xR = yk + y + k + 1
  BY <1>4, <1>5, <1>6
<1>8. x + rR + l <= nR
  <2> HIDE DEF yk, dR, rR, xR, nR
  <2> QED
    BY <1>2, <1>3, <1>7
<1> QED
  BY <1>8

LEMMA Scales ==
    \A n, r \in Nat, R \in Nat \ {0} :
        n * R \in Nat /\ r * R \in Nat /\ (r + 1) * R = r * R + R /\ (r <= n => r <= n * R)
<1> SUFFICES ASSUME NEW n \in Nat, NEW r \in Nat, NEW R \in Nat \ {0}
             PROVE  n * R \in Nat /\ r * R \in Nat /\ (r + 1) * R = r * R + R /\ (r <= n => r <= n * R)
  OBVIOUS
<1>1. PICK k \in Nat : R = k + 1
  <2>1. R - 1 \in Nat /\ R = (R - 1) + 1
    OBVIOUS
  <2> QED
    BY <2>1
<1>2. n * R = n * k + n /\ n * k \in Nat
  BY <1>1
<1>3. n * R \in Nat /\ r * R \in Nat /\ (r + 1) * R = r * R + R
  OBVIOUS
<1> QED
  BY <1>2, <1>3

LEMMA SlackIs ==
    ASSUME NEW n \in Nat, NEW k \in Nat
    PROVE  /\ Slack(n, k) \in Nat /\ Slack(n, 0) = 0
           /\ Slack(n, k + 1) = Slack(n, k) + n * RefreshCount
           /\ n * RefreshCount \in Nat /\ (n # 0 => RefreshCount <= n * RefreshCount)
<1>1. RefreshCount \in Nat \ {0}
  BY BridgeAssumption
<1>2. PICK b \in Nat : b = n * RefreshCount
  BY <1>1
<1>3. b * k \in Nat /\ b * 0 = 0 /\ b * (k + 1) = b * k + b
  BY <1>2
<1>4. n # 0 => RefreshCount <= n * RefreshCount
  <2> SUFFICES ASSUME n # 0 PROVE RefreshCount <= n * RefreshCount
    OBVIOUS
  <2>1. PICK d \in Nat : n = d + 1
    <3>1. n - 1 \in Nat /\ n = (n - 1) + 1
      OBVIOUS
    <3> QED
      BY <3>1
  <2>2. n * RefreshCount = d * RefreshCount + RefreshCount /\ d * RefreshCount \in Nat
    BY <1>1, <2>1
  <2> DEFINE dR == d * RefreshCount
             nR == n * RefreshCount
  <2>3. nR = dR + RefreshCount /\ dR \in Nat
    BY <2>2
  <2> HIDE DEF dR, nR
  <2>4. RefreshCount <= nR
    BY <1>1, <2>3
  <2> QED
    BY <2>4 DEF nR
<1> QED
  BY <1>2, <1>3, <1>4 DEF Slack

(* The same envelopes sent, the same phases, the same count.               *)
LEMMA SiteKept ==
    ASSUME NEW s \in Site, SiteOk(s), mode' = mode, old' = old, since'[s] = since[s], missed'[s] = missed[s],
           s \in Known' <=> s \in Known, s \in Known => registry'[s] = registry[s],
           \A u \in AnyThread : Phase(calls'[u], u, s) = Phase(calls[u], u, s)
    PROVE  SiteOk(s)'
<1>1. \A ps : InPhase(ps, s)' = InPhase(ps, s)
  BY DEF InPhase
<1>2. Lifting' = Lifting
  BY DEF Lifting
<1>3. /\ Sending(s)' = Sending(s) /\ Resetting(s)' = Resetting(s) /\ Due(s)' = Due(s)
      /\ InPhase({"first", "register", "reset", "emit"}, s)' = InPhase({"first", "register", "reset", "emit"}, s)
  BY <1>1 DEF Sending, Resetting, Due
<1> QED
  BY <1>2, <1>3 DEF SiteOk

(* What to show of a callsite that is known.                               *)
SiteStep(s, sd, rs, du, c, m, k) ==
    /\ Lifting' = Lifting /\ old' = old /\ s \in Known' /\ since'[s] = m /\ registry'[s] = c /\ missed'[s] = k
    /\ Cardinality(Sending(s)') = sd /\ Cardinality(Resetting(s)') = rs /\ Cardinality(Due(s)') = du

LEMMA SiteBecomes ==
    ASSUME NEW s, NEW sd, NEW rs, NEW du, NEW c, NEW m, NEW k,
           SiteStep(s, sd, rs, du, c, m, k),
           s \in old => OldOk(Cardinality(Lifting), sd, rs, m, Slack(Cardinality(Lifting), k)),
           s \notin old => CountOk(Cardinality(Lifting), c, sd, rs, du, m, Slack(Cardinality(Lifting), k))
    PROVE  SiteOk(s)'
BY DEF SiteOk, SiteStep

LEMMA CountsKept == CountsOk /\ CountsSame => CountsOk'
<1> SUFFICES ASSUME CountsOk, CountsSame, (mode.queued \/ ~mode.dynamic)', NEW s \in Site PROVE SiteOk(s)'
  BY DEF CountsOk
<1>1. SiteOk(s) /\ mode' = mode /\ old' = old /\ since' = since /\ missed' = missed
  BY DEF CountsOk, CountsSame
<1>2. (s \in Known' <=> s \in Known) /\ (s \in Known => registry'[s] = registry[s])
  BY DEF CountsSame
<1>3. \A u \in AnyThread : Phase(calls'[u], u, s) = Phase(calls[u], u, s)
  BY DEF CountsSame, PhasesKept, SamePhase
<1> QED
  BY <1>1, <1>2, <1>3, SiteKept

LEMMA InternCounts ==
    ASSUME BridgeInv, CountsOk, NEW t \in AnyThread, Intern(t) PROVE CountsOk'
<1> PICK s0 \in Site : s0 = Top(t).site
  BY InternInv
<1> DEFINE count == IF s0 \in Known THEN registry[s0] + 1 ELSE 0
           due == s0 \notin Known \/ Refreshes(s0, count)
           to == IF due THEN (IF s0 \in Known THEN "register" ELSE "first") ELSE "emit"
<1>1. /\ UNCHANGED <<mode, old, since, missed>>
      /\ registry' = [x \in Known \union {s0} |-> IF x = s0 THEN count ELSE registry[x]]
      /\ MovesOn(t, s0, "none", to)
  BY InternInv
<1> SUFFICES ASSUME mode.queued \/ ~mode.dynamic, NEW s \in Site PROVE SiteOk(s)'
  BY <1>1 DEF CountsOk
<1>2. AtPos(calls[t], t) /\ t \in Lifting
  <2>1. calls[t] # <<>> /\ Top(t).fn = "on_event" /\ Top(t).at = "intern"
    BY DEF Intern, At
  <2> QED
    BY <2>1, LiftAt
<1>3. Known' = Known \union {s0} /\ registry \in [Known -> Nat] /\ since \in [Site -> Nat] /\ missed \in [Site -> Nat]
      /\ RefreshCount \in Nat \ {0}
  BY <1>1, BridgeAssumption DEF Known, BridgeInv, BridgeType
<1> DEFINE n == Cardinality(Lifting)
           sd == Cardinality(Sending(s0))
           rs == Cardinality(Resetting(s0))
           du == Cardinality(Due(s0))
           m == since[s0]
           k == missed[s0]
           e == Slack(n, k)
           R == RefreshCount
<1>4. MovedTo(s0, "none", to)
  <2>1. mode' = mode /\ MovesOn(t, s0, "none", to)
    BY <1>1
  <2> HIDE DEF to
  <2> QED
    BY ONLY BridgeInv, mode.queued \/ ~mode.dynamic, s0 \in Site, <1>2, <2>1, Moved
<1>5. SiteOk(s0) /\ SiteOk(s)
  BY DEF CountsOk
<1>6. CASE s # s0
  <2>1. (s \in Known' <=> s \in Known) /\ (s \in Known => registry'[s] = registry[s])
    BY <1>1, <1>3, <1>6
  <2> QED
    BY <1>1, <1>4, <1>5, <1>6, <2>1, SiteKept DEF MovedTo
<1>7. ASSUME NEW a, NEW b, NEW d,
             a = sd + Shift("none", to, {"emit"}), b = rs + Shift("none", to, {"reset"}),
             d = du + Shift("none", to, {"register", "reset"})
      PROVE  SiteStep(s0, a, b, d, count, m, k)
  <2>1. registry'[s0] = count /\ s0 \in Known' /\ since'[s0] = m /\ missed'[s0] = k /\ old' = old
    BY <1>1, <1>3
  <2> HIDE DEF count, to
  <2> QED
    BY <1>4, <1>7, <2>1 DEF MovedTo, SiteStep
<1>n. m \in Nat /\ R \in Nat \ {0} /\ n \in Nat \ {0} /\ sd \in Nat /\ rs \in Nat /\ du \in Nat
      /\ n * R \in Nat /\ rs * R \in Nat /\ R <= n * R /\ sd + du <= n /\ rs <= du
      /\ e \in Nat
  <2>1. n \in Nat \ {0} /\ sd \in Nat /\ rs \in Nat /\ du \in Nat /\ sd + du <= n /\ rs <= du
    BY <1>4 DEF MovedTo, Tallied
  <2>2. m \in Nat /\ R \in Nat \ {0}
    BY <1>3
  <2>e. e \in Nat
    BY <1>3, <2>1, SlackIs
  <2> HIDE DEF n, sd, rs, du, m, k, e, R
  <2>3. n * R \in Nat /\ rs * R \in Nat
    BY <2>1, <2>2, Scales
  <2>4. 1 + 0 * R + (R - 1) <= n * R
    <3>1. 1 + 0 <= n
      BY <2>1
    <3> QED
      BY <2>1, <2>2, <3>1, Room
  <2> QED
    BY <2>1, <2>2, <2>3, <2>4, <2>e
<1>8. ASSUME s0 \notin Known PROVE SiteOk(s0)'
  <2>1. m = 0 /\ InPhase({"first", "register", "reset", "emit"}, s0) = {}
    BY <1>5, <1>8 DEF SiteOk
  <2>2. Sending(s0) = {} /\ Resetting(s0) = {} /\ Due(s0) = {}
    BY <2>1 DEF Sending, Resetting, Due, InPhase
  <2>3. sd = 0 /\ rs = 0 /\ du = 0
    BY <2>2, FS_EmptySet
  <2>4. SiteStep(s0, 0, 0, 0, 0, m, k)
    <3>1. 0 = sd + Shift("none", to, {"emit"}) /\ 0 = rs + Shift("none", to, {"reset"})
          /\ 0 = du + Shift("none", to, {"register", "reset"}) /\ count = 0
      BY <1>8, <2>3 DEF Shift
    <3> HIDE DEF to, sd, rs, du, m, k
    <3> QED
      BY <1>7, <3>1
  <2>5. OldOk(n, 0, 0, m, e) /\ CountOk(n, 0, 0, 0, 0, m, e)
    <3> HIDE DEF n, m, e
    <3> QED
      BY <1>n, <2>1 DEF OldOk, CountOk, Left
  <2> QED
    BY <2>4, <2>5, SiteBecomes
<1>9. ASSUME s0 \in Known /\ s0 \in old PROVE SiteOk(s0)'
  <2>1. OldOk(n, sd, rs, m, e)
    BY <1>5, <1>9 DEF SiteOk
  <2>2. PICK d : d = du + Shift("none", to, {"register", "reset"})
    OBVIOUS
  <2>3. SiteStep(s0, sd, rs, d, count, m, k)
    <3>1. to = "register"
      BY <1>9 DEF Refreshes
    <3> HIDE DEF to
    <3>2. Shift("none", to, {"emit"}) = 0 /\ Shift("none", to, {"reset"}) = 0
      BY <3>1 DEF Shift
    <3>3. sd = sd + Shift("none", to, {"emit"}) /\ rs = rs + Shift("none", to, {"reset"})
      <4> HIDE DEF sd, rs
      <4> QED
        BY <1>n, <3>2
    <3> HIDE DEF sd, rs, du, m, k, count
    <3> QED
      BY <1>7, <2>2, <3>3
  <2> HIDE DEF sd, rs, m, k, count
  <2> QED
    BY <1>9, <2>1, <2>3, SiteBecomes
<1>10. ASSUME s0 \in Known /\ s0 \notin old PROVE SiteOk(s0)'
  <2> DEFINE c == registry[s0]
             rR == rs * R
             nR == n * R
  <2>1. CountOk(n, c, sd, rs, du, m, e) /\ c \in Nat /\ count = c + 1
    BY <1>3, <1>5, <1>10 DEF SiteOk
  <2>2. due <=> c + 1 >= R
    BY <1>10, <2>1 DEF Refreshes
  <2>3. rR \in Nat /\ nR \in Nat /\ (m + sd + rR + Left(c) <= nR + e) /\ (du = n => c >= R)
    BY <1>n, <2>1 DEF CountOk
  <2>4. Left(c) \in Nat
    BY <1>3, <2>1, LeftIs
  <2>5. CASE due
    <3>1. SiteStep(s0, sd, rs, du + 1, c + 1, m, k)
      <4>1. to = "register"
        BY <1>10, <2>5
      <4> HIDE DEF to
      <4>2. /\ Shift("none", to, {"emit"}) = 0 /\ Shift("none", to, {"reset"}) = 0
            /\ Shift("none", to, {"register", "reset"}) = 1
        BY <4>1 DEF Shift
      <4>3. sd = sd + Shift("none", to, {"emit"}) /\ rs = rs + Shift("none", to, {"reset"})
            /\ du + 1 = du + Shift("none", to, {"register", "reset"})
        <5> HIDE DEF sd, rs, du
        <5> QED
          BY <1>n, <4>2
      <4> HIDE DEF sd, rs, du, m, k, c, count
      <4> QED
        BY <1>7, <2>1, <4>3
    <3>2. CountOk(n, c + 1, sd, rs, du + 1, m, e)
      <4>1. c + 1 >= R
        BY <2>2, <2>5
      <4>2. Left(c + 1) = 0
        <5>1. c + 1 \in Nat /\ ~(c + 1 < R)
          <6> HIDE DEF c
          <6> QED
            BY <1>n, <2>1, <4>1
        <5> HIDE DEF c
        <5> QED
          BY <5>1 DEF Left
      <4>3. m + sd + rR + Left(c + 1) <= nR + e
        <5> HIDE DEF rR, nR, e, c, sd, m
        <5> QED
          BY <1>n, <2>3, <2>4, <4>2
      <4> QED
        BY <4>1, <4>3 DEF CountOk
    <3> HIDE DEF sd, rs, du, m, k, c
    <3> QED
      BY <1>10, <3>1, <3>2, SiteBecomes
  <2>6. CASE ~due
    <3>1. SiteStep(s0, sd + 1, rs, du, c + 1, m, k)
      <4>1. to = "emit"
        BY <2>6
      <4> HIDE DEF to
      <4>2. /\ Shift("none", to, {"emit"}) = 1 /\ Shift("none", to, {"reset"}) = 0
            /\ Shift("none", to, {"register", "reset"}) = 0
        BY <4>1 DEF Shift
      <4>3. sd + 1 = sd + Shift("none", to, {"emit"}) /\ rs = rs + Shift("none", to, {"reset"})
            /\ du = du + Shift("none", to, {"register", "reset"})
        <5> HIDE DEF sd, rs, du
        <5> QED
          BY <1>n, <4>2
      <4> HIDE DEF sd, rs, du, m, k, c, count
      <4> QED
        BY <1>7, <2>1, <4>3
    <3>2. CountOk(n, c + 1, sd + 1, rs, du, m, e)
      <4>1. ~(c + 1 >= R)
        BY <2>2, <2>6
      <4>2. Left(c) = R - 1 - c /\ Left(c + 1) = R - 1 - (c + 1)
        <5>1. c + 1 \in Nat /\ c + 1 < R /\ c < R
          <6> HIDE DEF c
          <6> QED
            BY <1>n, <2>1, <4>1
        <5> HIDE DEF c
        <5> QED
          BY <5>1 DEF Left
      <4>3. m + (sd + 1) + rR + Left(c + 1) <= nR + e /\ (du = n => c + 1 >= R)
        <5> HIDE DEF rR, nR, e, c, sd, m, du, n
        <5> QED
          BY <1>n, <2>1, <2>3, <4>2
      <4> QED
        BY <4>3 DEF CountOk
    <3> HIDE DEF sd, rs, du, m, k, c
    <3> QED
      BY <1>10, <3>1, <3>2, SiteBecomes
  <2> QED
    BY <2>5, <2>6
<1> QED
  BY <1>6, <1>8, <1>9, <1>10

(* What a registration, a reset and an emit do to the bound: a             *)
(* registration starts the count of the envelopes again, and each thread   *)
(* still to reset or to send has a share of it of its own.                 *)
LEMMA FitsRegister ==
    ASSUME NEW n \in Nat \ {0}, NEW sd, NEW rs, NEW du, NEW c \in Nat
    PROVE  /\ Tallied(n, sd + 1, rs, du) /\ sd \in Nat => CountOk(n, c, sd + 1, rs, du, 0, 0) /\ OldOk(n, sd + 1, rs, 0, 0)
           /\ Tallied(n, sd, rs + 1, du) /\ rs \in Nat =>
                 OldOk(n, sd, rs + 1, 0, 0) /\ ((du = n => c >= RefreshCount) => CountOk(n, c, sd, rs + 1, du, 0, 0))
<1> DEFINE R == RefreshCount
           l == Left(c)
           nR == n * R
<1>1. R \in Nat \ {0} /\ l \in Nat /\ l <= R - 1 /\ n \in Nat
  BY BridgeAssumption, LeftIs
<1> HIDE DEF l, R
<1>2. ASSUME Tallied(n, sd + 1, rs, du), sd \in Nat PROVE CountOk(n, c, sd + 1, rs, du, 0, 0) /\ OldOk(n, sd + 1, rs, 0, 0)
  <2>1. sd + 1 \in Nat /\ rs \in Nat /\ du \in Nat /\ sd + 1 + du <= n /\ rs <= du /\ sd + 1 # 0
    BY <1>2 DEF Tallied
  <2>2. sd + 1 + rs <= n
    BY <2>1
  <2>3. sd + 1 + rs * R + l <= nR
    BY <1>1, <2>1, <2>2, Room
  <2>4. sd + 1 + rs <= nR
    <3>1. sd + 1 + rs \in Nat
      BY <2>1
    <3> QED
      BY <1>1, <2>2, <3>1, Scales
  <2>5. rs * R \in Nat /\ nR \in Nat
    BY <1>1, <2>1, Scales
  <2>6. 0 + (sd + 1) + rs * R + l <= nR + 0 /\ 0 + (sd + 1) + rs <= nR + 0 /\ du # n
    <3> DEFINE rR == rs * R
    <3> HIDE DEF rR, nR
    <3> QED
      BY <1>1, <2>1, <2>3, <2>4, <2>5 DEF rR
  <2> QED
    BY <2>6 DEF CountOk, OldOk, R, l
<1>3. ASSUME Tallied(n, sd, rs + 1, du), rs \in Nat
      PROVE  OldOk(n, sd, rs + 1, 0, 0) /\ ((du = n => c >= RefreshCount) => CountOk(n, c, sd, rs + 1, du, 0, 0))
  <2>1. sd \in Nat /\ rs + 1 \in Nat /\ du \in Nat /\ sd + du <= n /\ rs + 1 <= du
    BY <1>3 DEF Tallied
  <2>2. sd + (rs + 1) <= n /\ sd + (rs + 1) \in Nat
    BY <2>1
  <2>3. sd + (rs + 1) <= nR
    BY <1>1, <2>2, Scales
  <2>4. (rs + 1) * R \in Nat /\ nR \in Nat
    BY <1>1, <2>1, Scales
  <2>5. OldOk(n, sd, rs + 1, 0, 0)
    <3>1. 0 + sd + (rs + 1) <= nR + 0
      <4> HIDE DEF nR
      <4> QED
        BY <2>1, <2>3, <2>4
    <3> QED
      BY <3>1 DEF OldOk, R
  <2>6. ASSUME du = n => c >= RefreshCount PROVE sd + (rs + 1) * R + l <= nR
    <3>1. CASE sd # 0
      BY <1>1, <2>1, <2>2, <3>1, Room
    <3>2. CASE sd = 0 /\ du = n
      <4>1. l = 0
        BY <2>6, <3>2, <1>1 DEF l, Left, R
      <4>2. PICK k \in Nat : n = (rs + 1) + k
        <5>1. n - (rs + 1) \in Nat /\ n = (rs + 1) + (n - (rs + 1))
          BY <1>1, <2>1
        <5> QED
          BY <5>1
      <4>3. nR = (rs + 1) * R + k * R /\ k * R \in Nat
        BY <1>1, <1>3, <4>2
      <4> DEFINE r1 == (rs + 1) * R
                 kR == k * R
      <4>4. r1 \in Nat /\ kR \in Nat /\ nR = r1 + kR
        BY <2>4, <4>3
      <4> HIDE DEF r1, kR, nR
      <4>5. sd + r1 + l <= nR
        BY <3>2, <4>1, <4>4
      <4> QED
        BY <4>5 DEF r1
    <3>3. CASE sd = 0 /\ du # n
      <4>1. 1 + (rs + 1) <= n
        BY <1>1, <2>1, <3>3
      <4>2. 1 + (rs + 1) * R + l <= nR
        BY <1>1, <2>1, <4>1, Room
      <4> DEFINE r1 == (rs + 1) * R
      <4>3. r1 \in Nat
        BY <2>4
      <4> HIDE DEF r1, nR
      <4>4. sd + r1 + l <= nR
        BY <1>1, <2>4, <3>3, <4>2, <4>3 DEF r1
      <4> QED
        BY <4>4 DEF r1
    <3> QED
      BY <3>1, <3>2, <3>3
  <2>7. ASSUME du = n => c >= RefreshCount PROVE CountOk(n, c, sd, rs + 1, du, 0, 0)
    <3>1. 0 + sd + (rs + 1) * R + l <= nR + 0
      <4> DEFINE r1 == (rs + 1) * R
      <4>1. sd + r1 + l <= nR /\ r1 \in Nat
        BY <2>4, <2>6, <2>7
      <4> HIDE DEF r1, nR
      <4>2. 0 + sd + r1 + l <= nR + 0
        BY <2>1, <2>4, <4>1
      <4> QED
        BY ONLY <4>2 DEF r1
    <3> QED
      BY <2>7, <3>1 DEF CountOk, R, l
  <2> QED
    BY <2>5, <2>7
<1> QED
  BY <1>2, <1>3

(* One that does not go out leaves the count, and as much again is allowed. *)
LEMMA FitsSwallowed ==
    ASSUME NEW n \in Nat \ {0}, NEW sd \in Nat, NEW rs \in Nat, NEW du \in Nat, NEW c \in Nat, NEW m \in Nat,
           NEW e \in Nat, NEW e2 \in Nat, e2 = e + n * RefreshCount
    PROVE  /\ CountOk(n, c, sd, rs, du, m, e) => /\ CountOk(n, c, sd + 1, rs, du, m, e2)
                                                 /\ CountOk(n, c, sd, rs + 1, du, m, e2)
           /\ OldOk(n, sd, rs, m, e) => OldOk(n, sd + 1, rs, m, e2) /\ OldOk(n, sd, rs + 1, m, e2)
<1> DEFINE R == RefreshCount
           nR == n * R
           rR == rs * R
           r1 == (rs + 1) * R
           l == Left(c)
<1>1. R \in Nat \ {0} /\ l \in Nat /\ nR \in Nat /\ R <= nR /\ e2 = e + nR
  BY BridgeAssumption, LeftIs, SlackIs
<1>2. rR \in Nat /\ r1 = rR + R
  BY <1>1, Scales
<1> HIDE DEF l
<1>3. ASSUME CountOk(n, c, sd, rs, du, m, e)
      PROVE  CountOk(n, c, sd + 1, rs, du, m, e2) /\ CountOk(n, c, sd, rs + 1, du, m, e2)
  <2>1. m + sd + rR + l <= nR + e /\ (du = n => c >= R)
    BY <1>3 DEF CountOk, l
  <2>2. m + (sd + 1) + rR + l <= nR + e2 /\ m + sd + r1 + l <= nR + e2
    <3> HIDE DEF nR, rR, r1, R
    <3> QED
      BY <1>1, <1>2, <2>1
  <2> QED
    BY <2>1, <2>2 DEF CountOk, l
<1>4. ASSUME OldOk(n, sd, rs, m, e) PROVE OldOk(n, sd + 1, rs, m, e2) /\ OldOk(n, sd, rs + 1, m, e2)
  <2>1. m + sd + rs <= nR + e
    BY <1>4 DEF OldOk
  <2>2. m + (sd + 1) + rs <= nR + e2 /\ m + sd + (rs + 1) <= nR + e2
    <3> HIDE DEF nR, R
    <3> QED
      BY <1>1, <2>1
  <2> QED
    BY <2>2 DEF OldOk
<1> QED
  BY <1>3, <1>4

LEMMA FitsReset ==
    ASSUME NEW n \in Nat \ {0}, NEW sd, NEW rs, NEW du, NEW c \in Nat, NEW m \in Nat, NEW e \in Nat,
           Tallied(n, sd, rs, du), Tallied(n, sd + 1, rs - 1, du - 1)
    PROVE  /\ CountOk(n, c, sd, rs, du, m, e) => CountOk(n, 0, sd + 1, rs - 1, du - 1, m, e)
           /\ OldOk(n, sd, rs, m, e) => OldOk(n, sd + 1, rs - 1, m, e)
<1> DEFINE R == RefreshCount
           nR == n * R
           r1 == (rs - 1) * R
           rR == rs * R
           l == Left(c)
<1>1. sd \in Nat /\ rs - 1 \in Nat /\ rs \in Nat /\ du \in Nat /\ sd + du <= n
  BY DEF Tallied
<1>2. R \in Nat \ {0} /\ l \in Nat /\ Left(0) = R - 1
  <2>1. R \in Nat \ {0} /\ l \in Nat
    BY BridgeAssumption, LeftIs
  <2> QED
    BY <2>1 DEF Left
<1>3. nR \in Nat /\ r1 \in Nat /\ rR = r1 + R
  <2>1. (rs - 1 + 1) * R = (rs - 1) * R + R
    BY <1>1, <1>2, Scales
  <2>2. rs - 1 + 1 = rs
    BY <1>1
  <2> QED
    BY <1>1, <1>2, <2>1, <2>2, Scales
<1> HIDE DEF l
<1>4. ASSUME CountOk(n, c, sd, rs, du, m, e) PROVE CountOk(n, 0, sd + 1, rs - 1, du - 1, m, e)
  <2>1. m + sd + rR + l <= nR + e
    BY <1>4 DEF CountOk, l
  <2>2. m + (sd + 1) + r1 + (R - 1) <= nR + e /\ du - 1 # n
    <3> HIDE DEF nR, r1, rR, R
    <3> QED
      BY <1>1, <1>2, <1>3, <2>1
  <2> QED
    BY <1>2, <2>2 DEF CountOk
<1>5. ASSUME OldOk(n, sd, rs, m, e) PROVE OldOk(n, sd + 1, rs - 1, m, e)
  <2>1. m + sd + rs <= nR + e
    BY <1>5 DEF OldOk
  <2>2. m + (sd + 1) + (rs - 1) <= nR + e
    <3> HIDE DEF nR
    <3> QED
      BY <1>1, <1>3, <2>1
  <2> QED
    BY <2>2 DEF OldOk
<1> QED
  BY <1>4, <1>5

LEMMA FitsEmit ==
    ASSUME NEW n \in Nat, NEW sd, NEW rs, NEW du, NEW c \in Nat, NEW m \in Nat, NEW e \in Nat, Tallied(n, sd, rs, du)
    PROVE  /\ CountOk(n, c, sd, rs, du, m, e) => CountOk(n, c, sd - 1, rs, du, m + 1, e)
           /\ OldOk(n, sd, rs, m, e) => OldOk(n, sd - 1, rs, m + 1, e)
           /\ CountOk(n, c, sd, rs, du, m, e) => OldOk(n, sd, rs, m, e)
<1> DEFINE R == RefreshCount
           nR == n * R
           rR == rs * R
           l == Left(c)
<1>1. sd \in Nat /\ rs \in Nat /\ R \in Nat \ {0} /\ l \in Nat
  BY BridgeAssumption, LeftIs DEF Tallied
<1>2. nR \in Nat /\ rR \in Nat /\ rs <= rR
  BY <1>1, Scales
<1> HIDE DEF l
<1>3. ASSUME CountOk(n, c, sd, rs, du, m, e) PROVE CountOk(n, c, sd - 1, rs, du, m + 1, e) /\ OldOk(n, sd, rs, m, e)
  <2>1. m + sd + rR + l <= nR + e /\ (du = n => c >= R)
    BY <1>3 DEF CountOk, l
  <2>2. m + 1 + (sd - 1) + rR + l <= nR + e /\ m + sd + rs <= nR + e
    <3> HIDE DEF nR, rR, R
    <3> QED
      BY <1>1, <1>2, <2>1
  <2> QED
    BY <2>1, <2>2 DEF CountOk, OldOk, l
<1>4. ASSUME OldOk(n, sd, rs, m, e) PROVE OldOk(n, sd - 1, rs, m + 1, e)
  <2>1. m + sd + rs <= nR + e
    BY <1>4 DEF OldOk
  <2>2. m + 1 + (sd - 1) + rs <= nR + e
    <3> HIDE DEF nR
    <3> QED
      BY <1>1, <1>2, <2>1
  <2> QED
    BY <2>2 DEF OldOk
<1> QED
  BY <1>3, <1>4

(* The count of a known callsite after a lift of it has moved on.          *)
Fits(s, from, to, c, m, k) ==
    LET n == Cardinality(Lifting)
        sd == Cardinality(Sending(s)) + Shift(from, to, {"emit"})
        rs == Cardinality(Resetting(s)) + Shift(from, to, {"reset"})
        du == Cardinality(Due(s)) + Shift(from, to, {"register", "reset"})
    IN Tallied(n, sd, rs, du) =>
          /\ s \in old => OldOk(n, sd, rs, m, Slack(n, k))
          /\ s \notin old => CountOk(n, c, sd, rs, du, m, Slack(n, k))

LEMMA CountMoves ==
    ASSUME BridgeInv, CountsOk, NEW t \in AnyThread, calls[t] # <<>>, Top(t).fn = "on_event", Top(t).at # "start",
           NEW s0 \in Site, s0 \in Known, NEW from, NEW to, MovesOn(t, s0, from, to),
           UNCHANGED <<mode, old>>, Known' = Known,
           \A s \in Site : s # s0 => since'[s] = since[s] /\ registry'[s] = registry[s] /\ missed'[s] = missed[s],
           mode.queued \/ ~mode.dynamic => Fits(s0, from, to, registry'[s0], since'[s0], missed'[s0])
    PROVE  CountsOk'
<1> SUFFICES ASSUME mode.queued \/ ~mode.dynamic, NEW s \in Site PROVE SiteOk(s)'
  BY DEF CountsOk
<1>1. AtPos(calls[t], t) /\ t \in Lifting
  BY LiftAt
<1>2. MovedTo(s0, from, to)
  BY ONLY BridgeInv, mode.queued \/ ~mode.dynamic, mode' = mode, s0 \in Site, <1>1, MovesOn(t, s0, from, to), Moved
<1>3. SiteOk(s)
  BY DEF CountsOk
<1>4. CASE s # s0
  BY <1>2, <1>3, <1>4, SiteKept DEF MovedTo
<1>5. CASE s = s0
  <2> DEFINE n == Cardinality(Lifting)
             sd == Cardinality(Sending(s0)) + Shift(from, to, {"emit"})
             rs == Cardinality(Resetting(s0)) + Shift(from, to, {"reset"})
             du == Cardinality(Due(s0)) + Shift(from, to, {"register", "reset"})
  <2>1. /\ Tallied(n, sd, rs, du)
        /\ SiteStep(s0, sd, rs, du, registry'[s0], since'[s0], missed'[s0])
    BY <1>2 DEF MovedTo, SiteStep
  <2>2. /\ s0 \in old => OldOk(n, sd, rs, since'[s0], Slack(n, missed'[s0]))
        /\ s0 \notin old => CountOk(n, registry'[s0], sd, rs, du, since'[s0], Slack(n, missed'[s0]))
    BY <2>1 DEF Fits
  <2> HIDE DEF sd, rs, du
  <2> QED
    BY <1>5, <2>1, <2>2, SiteBecomes
<1> QED
  BY <1>4, <1>5

(* The tallies of a callsite that is known, and its bound.                 *)
LEMMA BeforeMove ==
    ASSUME BridgeInv, CountsOk, mode.queued \/ ~mode.dynamic, NEW s \in Site, s \in Known, Lifting # {}
    PROVE  LET n == Cardinality(Lifting)
               sd == Cardinality(Sending(s))
               rs == Cardinality(Resetting(s))
               du == Cardinality(Due(s))
           IN /\ n \in Nat \ {0} /\ Tallied(n, sd, rs, du) /\ since[s] \in Nat /\ registry[s] \in Nat
              /\ missed[s] \in Nat
              /\ s \in old => OldOk(n, sd, rs, since[s], Slack(n, missed[s]))
              /\ s \notin old => CountOk(n, registry[s], sd, rs, du, since[s], Slack(n, missed[s]))
<1>1. Within(Phases(s), Lifting)
  BY PhasesWithin
<1>2. Cardinality(Lifting) \in Nat \ {0}
  <2>1. IsFiniteSet(Lifting)
    BY <1>1 DEF Within
  <2> QED
    BY <2>1, FS_EmptySet, FS_CardinalityType
<1>3. Tallied(Cardinality(Lifting), Cardinality(Sending(s)), Cardinality(Resetting(s)), Cardinality(Due(s)))
  BY <1>1, Tallies, TalliesAre DEF Tallied
<1>4. since[s] \in Nat /\ registry[s] \in Nat /\ missed[s] \in Nat
  BY DEF BridgeInv, BridgeType
<1>5. SiteOk(s)
  BY DEF CountsOk
<1> QED
  BY <1>2, <1>3, <1>4, <1>5 DEF SiteOk

LEMMA RegisterCounts ==
    ASSUME BridgeInv, CountsOk, NEW t \in AnyThread, Register(t) PROVE CountsOk'
<1> PICK s0 \in Site : s0 = Top(t).site
  BY RegisterInv
<1> DEFINE from == IF Top(t).stale THEN "register" ELSE "first"
           to == IF Top(t).stale THEN "reset" ELSE "emit"
<1>1. /\ s0 \in Known /\ UNCHANGED <<mode, old, registry>> /\ MovesOn(t, s0, from, to)
      /\ \/ since' = [since EXCEPT ![s0] = 0] /\ missed' = [missed EXCEPT ![s0] = 0]
         \/ since' = since /\ missed' = [missed EXCEPT ![s0] = @ + 1]
  BY RegisterInv
<1>2. calls[t] # <<>> /\ Top(t).fn = "on_event" /\ Top(t).at = "register"
  BY DEF Register, At
<1>3. since \in [Site -> Nat] /\ missed \in [Site -> Nat] /\ Known' = Known /\ registry' = registry
  BY <1>1 DEF Known, BridgeInv, BridgeType
<1>4. ASSUME mode.queued \/ ~mode.dynamic
      PROVE  Fits(s0, from, to, registry'[s0], since'[s0], missed'[s0])
  <2>1. Lifting # {}
    BY <1>2, <1>4, LiftAt
  <2> DEFINE n == Cardinality(Lifting)
             sd == Cardinality(Sending(s0))
             rs == Cardinality(Resetting(s0))
             du == Cardinality(Due(s0))
             c == registry[s0]
             m == since[s0]
             k == missed[s0]
             e == Slack(n, k)
             e2 == Slack(n, k + 1)
  <2>2. \/ since'[s0] = 0 /\ missed'[s0] = 0
        \/ since'[s0] = m /\ missed'[s0] = k + 1
    BY <1>1, <1>3
  <2>3. /\ n \in Nat \ {0} /\ Tallied(n, sd, rs, du) /\ m \in Nat /\ c \in Nat /\ k \in Nat
        /\ s0 \in old => OldOk(n, sd, rs, m, e)
        /\ s0 \notin old => CountOk(n, c, sd, rs, du, m, e)
    BY <1>1, <1>4, <2>1, BeforeMove
  <2>4. s0 \notin old /\ du = n => c >= RefreshCount
    BY <2>3 DEF CountOk
  <2>5. sd \in Nat /\ rs \in Nat /\ du \in Nat
    BY <2>3 DEF Tallied
  <2>e. e \in Nat /\ e2 \in Nat /\ e2 = e + n * RefreshCount /\ Slack(n, 0) = 0
    <3>1. k + 1 \in Nat /\ n \in Nat
      BY <2>3
    <3> HIDE DEF n, k
    <3> QED
      BY <2>3, <3>1, SlackIs
  <2> HIDE DEF n, sd, rs, du, m, c, k, e, e2
  <2>6. CASE Top(t).stale
    <3>1. sd + Shift(from, to, {"emit"}) = sd /\ rs + Shift(from, to, {"reset"}) = rs + 1
          /\ du + Shift(from, to, {"register", "reset"}) = du
      BY <2>5, <2>6 DEF Shift
    <3>2. Tallied(n, sd, rs + 1, du) =>
             OldOk(n, sd, rs + 1, 0, 0) /\ ((du = n => c >= RefreshCount) => CountOk(n, c, sd, rs + 1, du, 0, 0))
      BY <2>3, <2>5, FitsRegister
    <3>3. /\ CountOk(n, c, sd, rs, du, m, e) => CountOk(n, c, sd, rs + 1, du, m, e2)
          /\ OldOk(n, sd, rs, m, e) => OldOk(n, sd, rs + 1, m, e2)
      BY <2>3, <2>5, <2>e, FitsSwallowed
    <3> HIDE DEF from, to
    <3>4. CASE since'[s0] = 0 /\ missed'[s0] = 0
      BY <1>3, <2>4, <2>e, <3>1, <3>2, <3>4 DEF Fits, n, sd, rs, du, c
    <3>5. CASE since'[s0] = m /\ missed'[s0] = k + 1
      BY <1>3, <2>3, <3>1, <3>3, <3>5 DEF Fits, n, sd, rs, du, c, e2
    <3> QED
      BY <2>2, <3>4, <3>5
  <2>7. CASE ~Top(t).stale
    <3>1. sd + Shift(from, to, {"emit"}) = sd + 1 /\ rs + Shift(from, to, {"reset"}) = rs
          /\ du + Shift(from, to, {"register", "reset"}) = du
      BY <2>5, <2>7 DEF Shift
    <3>2. Tallied(n, sd + 1, rs, du) => CountOk(n, c, sd + 1, rs, du, 0, 0) /\ OldOk(n, sd + 1, rs, 0, 0)
      BY <2>3, <2>5, FitsRegister
    <3>3. /\ CountOk(n, c, sd, rs, du, m, e) => CountOk(n, c, sd + 1, rs, du, m, e2)
          /\ OldOk(n, sd, rs, m, e) => OldOk(n, sd + 1, rs, m, e2)
      BY <2>3, <2>5, <2>e, FitsSwallowed
    <3> HIDE DEF from, to
    <3>4. CASE since'[s0] = 0 /\ missed'[s0] = 0
      BY <1>3, <2>e, <3>1, <3>2, <3>4 DEF Fits, n, sd, rs, du, c
    <3>5. CASE since'[s0] = m /\ missed'[s0] = k + 1
      BY <1>3, <2>3, <3>1, <3>3, <3>5 DEF Fits, n, sd, rs, du, c, e2
    <3> QED
      BY <2>2, <3>4, <3>5
  <2> QED
    BY <2>6, <2>7
<1>5. \A s \in Site : s # s0 => since'[s] = since[s] /\ registry'[s] = registry[s] /\ missed'[s] = missed[s]
  BY <1>1, <1>3
<1> HIDE DEF from, to
<1> QED
  BY <1>1, <1>2, <1>3, <1>4, <1>5, CountMoves

LEMMA ResetCounts ==
    ASSUME BridgeInv, CountsOk, NEW t \in AnyThread, ResetCount(t) PROVE CountsOk'
<1> PICK s0 \in Site : s0 = Top(t).site
  BY ResetInv
<1>1. /\ s0 \in Known /\ UNCHANGED <<mode, old, since, missed>> /\ MovesOn(t, s0, "reset", "emit")
      /\ registry' = [registry EXCEPT ![s0] = 0]
  BY ResetInv
<1>2. calls[t] # <<>> /\ Top(t).fn = "on_event" /\ Top(t).at = "reset"
  BY DEF ResetCount, At, ledger
<1>3. /\ registry \in [Known -> Nat] /\ Known' = Known /\ registry'[s0] = 0 /\ since'[s0] = since[s0]
      /\ missed'[s0] = missed[s0]
  BY <1>1 DEF Known, BridgeInv, BridgeType
<1>4. ASSUME mode.queued \/ ~mode.dynamic PROVE Fits(s0, "reset", "emit", registry'[s0], since'[s0], missed'[s0])
  <2>1. Lifting # {}
    BY <1>2, <1>4, LiftAt
  <2> DEFINE n == Cardinality(Lifting)
             sd == Cardinality(Sending(s0))
             rs == Cardinality(Resetting(s0))
             du == Cardinality(Due(s0))
             c == registry[s0]
             m == since[s0]
             k == missed[s0]
             e == Slack(n, k)
  <2>3. /\ n \in Nat \ {0} /\ Tallied(n, sd, rs, du) /\ m \in Nat /\ c \in Nat
        /\ s0 \in old => OldOk(n, sd, rs, m, e)
        /\ s0 \notin old => CountOk(n, c, sd, rs, du, m, e)
    BY <1>1, <1>4, <2>1, BeforeMove
  <2>5. sd \in Nat /\ rs \in Nat /\ du \in Nat
    BY <2>3 DEF Tallied
  <2>e. e \in Nat
    BY <1>1, <1>4, <2>1, <2>3, BeforeMove, SlackIs
  <2> HIDE DEF n, sd, rs, du, m, k, e, c
  <2>6. sd + Shift("reset", "emit", {"emit"}) = sd + 1 /\ rs + Shift("reset", "emit", {"reset"}) = rs - 1
        /\ du + Shift("reset", "emit", {"register", "reset"}) = du - 1
    BY <2>5 DEF Shift
  <2>7. Tallied(n, sd + 1, rs - 1, du - 1) =>
           /\ CountOk(n, c, sd, rs, du, m, e) => CountOk(n, 0, sd + 1, rs - 1, du - 1, m, e)
           /\ OldOk(n, sd, rs, m, e) => OldOk(n, sd + 1, rs - 1, m, e)
    BY <2>3, <2>e, FitsReset
  <2> QED
    BY <1>3, <2>3, <2>6, <2>7 DEF Fits, n, sd, rs, du, m, k, e
<1>5. \A s \in Site : s # s0 => since'[s] = since[s] /\ registry'[s] = registry[s] /\ missed'[s] = missed[s]
  BY <1>1, <1>3
<1> QED
  BY <1>1, <1>2, <1>3, <1>4, <1>5, CountMoves

LEMMA EmitBridgedCounts ==
    ASSUME BridgeInv, CountsOk, NEW t \in AnyThread, EmitBridged(t) PROVE CountsOk'
<1> PICK x : x = Top(t).env
  OBVIOUS
<1>1. /\ UNCHANGED <<mode, old, registry, missed>>
      /\ x.kind = "event" /\ x.site \in Site => MovesOn(t, x.site, "emit", "none") /\ x.site \in Known
                                                    /\ since' = [since EXCEPT ![x.site] = @ + 1]
      /\ ~(x.kind = "event" /\ x.site \in Site) => PhasesKept /\ \A s \in Site : since'[s] = since[s]
  BY EmitBridgedInv
<1>2. calls[t] # <<>> /\ Top(t).fn = "on_event" /\ Top(t).at = "emit"
  BY DEF EmitBridged, At
<1>3. since \in [Site -> Nat] /\ Known' = Known /\ registry' = registry
  BY <1>1 DEF Known, BridgeInv, BridgeType
<1>4. CASE x.kind = "event" /\ x.site \in Site
  <2> DEFINE s0 == x.site
  <2>1. s0 \in Site /\ s0 \in Known /\ MovesOn(t, s0, "emit", "none") /\ s0 # None
    BY <1>1, <1>4, BridgeWords
  <2>2. since' = [since EXCEPT ![s0] = @ + 1]
    BY <1>1, <1>4
  <2> HIDE DEF s0
  <2>3. ASSUME mode.queued \/ ~mode.dynamic PROVE Fits(s0, "emit", "none", registry'[s0], since'[s0], missed'[s0])
    <3>1. Lifting # {}
      BY <1>2, <2>3, LiftAt
    <3>2. since'[s0] = since[s0] + 1
      BY <1>1, <1>3, <2>1, <2>2, <3>1
    <3> DEFINE n == Cardinality(Lifting)
               sd == Cardinality(Sending(s0))
               rs == Cardinality(Resetting(s0))
               du == Cardinality(Due(s0))
               c == registry[s0]
               m == since[s0]
               k == missed[s0]
               e == Slack(n, k)
    <3>3. /\ n \in Nat \ {0} /\ Tallied(n, sd, rs, du) /\ m \in Nat /\ c \in Nat
          /\ s0 \in old => OldOk(n, sd, rs, m, e)
          /\ s0 \notin old => CountOk(n, c, sd, rs, du, m, e)
      BY <2>1, <2>3, <3>1, BeforeMove
    <3>5. sd \in Nat /\ rs \in Nat /\ du \in Nat
      BY <3>3 DEF Tallied
    <3>e. e \in Nat
      BY <2>1, <2>3, <3>1, <3>3, BeforeMove, SlackIs
    <3> HIDE DEF n, sd, rs, du, m, k, e, c
    <3>6. sd + Shift("emit", "none", {"emit"}) = sd - 1 /\ rs + Shift("emit", "none", {"reset"}) = rs
          /\ du + Shift("emit", "none", {"register", "reset"}) = du
      BY <3>5 DEF Shift
    <3>7. /\ CountOk(n, c, sd, rs, du, m, e) => CountOk(n, c, sd - 1, rs, du, m + 1, e)
          /\ OldOk(n, sd, rs, m, e) => OldOk(n, sd - 1, rs, m + 1, e)
      BY <3>3, <3>e, FitsEmit
    <3>8. missed'[s0] = k
      BY <1>1 DEF k
    <3> QED
      BY <1>3, <3>2, <3>3, <3>6, <3>7, <3>8 DEF Fits, n, sd, rs, du, m, e, c
  <2>4. \A s \in Site : s # s0 => since'[s] = since[s] /\ registry'[s] = registry[s] /\ missed'[s] = missed[s]
    BY <1>1, <1>3, <2>2
  <2> QED
    BY <1>1, <1>2, <1>3, <2>1, <2>3, <2>4, CountMoves
<1>5. CASE ~(x.kind = "event" /\ x.site \in Site)
  <2>1. PhasesKept /\ \A s \in Site : since'[s] = since[s]
    BY <1>1, <1>5
  <2> SUFFICES ASSUME mode.queued \/ ~mode.dynamic, NEW s \in Site PROVE SiteOk(s)'
    BY <1>1 DEF CountsOk
  <2>2. \A u \in AnyThread : Phase(calls'[u], u, s) = Phase(calls[u], u, s)
    BY <2>1 DEF PhasesKept, SamePhase
  <2>3. SiteOk(s)
    BY DEF CountsOk
  <2> QED
    BY <1>1, <1>3, <2>1, <2>2, <2>3, SiteKept
<1> QED
  BY <1>4, <1>5

(* The refresh interval passes: the count no longer matters.               *)
LEMMA AgeInv ==
    ASSUME BridgeInv, CountsOk, NEW s0 \in Site, Age(s0) PROVE BridgeInv' /\ CountsOk'
<1>1. /\ s0 \in Known /\ s0 \notin old /\ old' = old \union {s0}
      /\ UNCHANGED <<mode, calls, can_enter, lock, queue, registry, spanVars, sent, since, missed>>
  BY DEF Age, Known, tables, ledger
<1>w. Known' = Known /\ \A u \in AnyThread : Where(u)' = Where(u)
  BY <1>1, SameWhere DEF Known
<1>2. BridgeInv'
  <2>1. BridgeType' /\ QueueOk' /\ GuardsOk'
    BY <1>1, <1>w DEF BridgeInv, BridgeType, QueueOk, GuardsOk
  <2>2. StacksOk'
    BY <1>1, <1>w DEF BridgeInv, StacksOk
  <2> QED
    BY <1>1, <2>1, <2>2, SpansStep, SentStep DEF BridgeInv
<1>3. ASSUME mode.queued \/ ~mode.dynamic, NEW s \in Site PROVE SiteOk(s)'
  <2>1. SiteOk(s)
    BY <1>3 DEF CountsOk
  <2>2. /\ Lifting' = Lifting /\ Sending(s)' = Sending(s) /\ Resetting(s)' = Resetting(s) /\ Due(s)' = Due(s)
        /\ InPhase({"first", "register", "reset", "emit"}, s)' = InPhase({"first", "register", "reset", "emit"}, s)
        /\ Known' = Known /\ since' = since /\ missed' = missed /\ registry' = registry
    BY <1>1 DEF Lifting, Sending, Resetting, Due, InPhase, Known
  <2>3. CASE s # s0
    BY <1>1, <2>1, <2>2, <2>3 DEF SiteOk
  <2>4. CASE s = s0
    <3> DEFINE n == Cardinality(Lifting)
               sd == Cardinality(Sending(s))
               rs == Cardinality(Resetting(s))
               du == Cardinality(Due(s))
               c == registry[s]
               m == since[s]
               e == Slack(n, missed[s])
    <3>1. CountOk(n, c, sd, rs, du, m, e)
      BY <1>1, <2>1, <2>4 DEF SiteOk
    <3>2. Within(Phases(s), Lifting)
      BY <1>3, PhasesWithin
    <3>3. n \in Nat /\ Tallied(n, sd, rs, du)
      BY <3>2, Tallies, TalliesAre DEF Tallied
    <3>4. m \in Nat /\ c \in Nat
      BY <1>1, <2>4 DEF BridgeInv, BridgeType
    <3>e. e \in Nat
      BY <3>3, SlackIs DEF BridgeInv, BridgeType
    <3> HIDE DEF n, sd, rs, du, c, m, e
    <3>5. OldOk(n, sd, rs, m, e)
      BY <3>1, <3>3, <3>4, <3>e, FitsEmit
    <3> QED
      BY <1>1, <2>2, <2>4, <3>5 DEF SiteOk, n, sd, rs, du, m, e
  <2> QED
    BY <2>3, <2>4
<1> QED
  BY <1>1, <1>2, <1>3 DEF CountsOk

-------------------------------------------------------------------------------
(* Every step keeps the invariant.                                         *)

LEMMA StutterInv ==
    ASSUME BridgeInv, CountsOk, UNCHANGED vars PROVE BridgeInv' /\ CountsOk'
<1>1. UNCHANGED <<mode, calls, can_enter, lock, queue, registry, old, spanVars, sent, since, missed>>
  BY DEF vars, spanVars
<1>w. Known' = Known /\ \A u \in AnyThread : Where(u)' = Where(u)
  BY <1>1, SameWhere DEF Known
<1>2. BridgeInv'
  <2>1. BridgeType' /\ QueueOk' /\ GuardsOk'
    BY <1>1, <1>w DEF BridgeInv, BridgeType, QueueOk, GuardsOk
  <2>2. StacksOk'
    BY <1>1, <1>w DEF BridgeInv, StacksOk
  <2> QED
    BY <1>1, <2>1, <2>2, SpansStep, SentStep DEF BridgeInv
<1>3. CountsSame
  BY <1>1 DEF CountsSame, PhasesKept, SamePhase, Known
<1> QED
  BY <1>2, <1>3, CountsKept

LEMMA BridgeNextInv ==
    ASSUME BridgeInv, CountsOk, [BridgeNext]_vars PROVE BridgeInv' /\ CountsOk'
<1>1. ASSUME NEW t \in AnyThread, StartEmit(t) \/ EndEmit(t) PROVE BridgeInv' /\ CountsOk'
  BY <1>1, StartEmitInv, EndInv, CountsKept
<1>2. ASSUME NEW t \in AnyThread, OnEvent(t) \/ Filtered(t) \/ Leave(t) PROVE BridgeInv' /\ CountsOk'
  BY <1>2, OnEventInv, FilteredInv, CountsKept
<1>3. ASSUME NEW t \in AnyThread, Prewarm(t) PROVE BridgeInv' /\ CountsOk'
  BY <1>3, PrewarmInv, CountsKept
<1>4. ASSUME NEW t \in AnyThread, Redact(t) \/ Overflow(t) PROVE BridgeInv' /\ CountsOk'
  BY <1>4, ReportInv, CountsKept
<1>5. ASSUME NEW t \in AnyThread, NEW typed \in BOOLEAN, Record(t, typed) PROVE BridgeInv' /\ CountsOk'
  BY <1>5, RecordInv, CountsKept
<1>6. ASSUME NEW t \in AnyThread, Intern(t) PROVE BridgeInv' /\ CountsOk'
  BY <1>6, InternInv, InternCounts
<1>7. ASSUME NEW t \in AnyThread, Register(t) PROVE BridgeInv' /\ CountsOk'
  BY <1>7, RegisterInv, RegisterCounts
<1>8. ASSUME NEW t \in AnyThread, ResetCount(t) PROVE BridgeInv' /\ CountsOk'
  BY <1>8, ResetInv, ResetCounts
<1>9. ASSUME NEW t \in AnyThread, EmitBridged(t) PROVE BridgeInv' /\ CountsOk'
  BY <1>9, EmitBridgedInv, EmitBridgedCounts
<1>10. ASSUME NEW t \in AnyThread, Deliver(t) \/ Resolve(t) \/ NotEnabled(t) PROVE BridgeInv' /\ CountsOk'
  BY <1>10, DeliverInv, CountsKept
<1>11. ASSUME NEW t \in AnyThread, Dispatch(t) PROVE BridgeInv' /\ CountsOk'
  BY <1>11, DispatchInv, CountsKept
<1>12. ASSUME NEW t \in AnyThread, EndDeliver(t) PROVE BridgeInv' /\ CountsOk'
  BY <1>12, EndInv, CountsKept
<1>13. ASSUME NEW t \in Thread,
              \/ \E g \in BOOLEAN : Native(t, g)
              \/ \E s \in Site, v \in IF "promote" \in mode.does THEN Value ELSE {None} : Trace(t, s, v)
              \/ \E sp \in Span : OnClose(t, sp)
       PROVE  BridgeInv' /\ CountsOk'
  <2>1. BridgeInv' /\ CountsSame
    BY <1>13, ApplicationInv
  <2> QED
    BY <2>1, CountsKept
<1>14. ASSUME NEW t \in Thread, (\E i \in DOMAIN entered[t] : OnExit(t, i)) \/ \E sp \in Span : OnEnter(t, sp) PROVE BridgeInv' /\ CountsOk'
  BY <1>14, EnterExitInv, CountsKept
<1>15. ASSUME NEW t \in Thread, NEW sp \in Span, NEW given \in BOOLEAN, OnNewSpan(t, sp, given)
       PROVE  BridgeInv' /\ CountsOk'
  BY <1>15, OnNewSpanInv, CountsKept
<1>16. ASSUME NEW s \in Site, Age(s) PROVE BridgeInv' /\ CountsOk'
  BY <1>16, AgeInv
<1>17. CASE WorkerReceives
  BY <1>17, WorkerReceivesInv, CountsKept
<1>18. CASE UNCHANGED vars
  BY <1>18, StutterInv
<1>19. ASSUME NEW t \in Thread,
              \/ \E g \in BOOLEAN : Native(t, g)
              \/ \E s \in Site, v \in IF "promote" \in mode.does THEN Value ELSE {None} : Trace(t, s, v)
              \/ \E i \in DOMAIN entered[t] : OnExit(t, i)
              \/ \E sp \in Span : OnEnter(t, sp) \/ OnClose(t, sp) \/ \E given \in BOOLEAN : OnNewSpan(t, sp, given)
       PROVE  BridgeInv' /\ CountsOk'
  BY <1>13, <1>14, <1>15, <1>19
<1> QED
  BY <1>1, <1>2, <1>3, <1>4, <1>5, <1>6, <1>7, <1>8, <1>9, <1>10, <1>11, <1>12, <1>16, <1>17, <1>18, <1>19
     DEF BridgeNext

LEMMA BridgeAlways == BridgeSpec => [](BridgeInv /\ CountsOk)
<1>1. BridgeInit => BridgeInv /\ CountsOk
  BY BridgeInitInv
<1>2. BridgeInv /\ CountsOk /\ [BridgeNext]_vars => (BridgeInv /\ CountsOk)'
  BY BridgeNextInv
<1> QED
  BY <1>1, <1>2, PTL DEF BridgeSpec

(* With the reserved target the lock is not waited for by its holder: who  *)
(* holds it delivers, and a call of the layer made from there is at its    *)
(* start.                                                                  *)
LEMMA NoSelfDeadlock ==
    ASSUME BridgeInv, ~mode.dynamic, NEW t \in AnyThread PROVE ~SelfDeadlocked(t)
<1> SUFFICES ASSUME SelfDeadlocked(t) PROVE FALSE
  OBVIOUS
<1>1. /\ lock = t /\ calls[t] # <<>>
      /\ \/ Top(t).fn = "on_event" /\ Top(t).at \in {"register", "emit", "warm"}
         \/ Top(t).fn = "deliver" /\ Unresolved(Top(t).env)
  BY DEF SelfDeadlocked
<1> DEFINE i == Len(calls[t])
<1>2. /\ CallOk(mode, Known, Where(t), t, i, Top(t)) /\ i \in Nat \ {0}
      /\ Top(t).fn = "on_event" => LayerOk(mode, Known, Where(t), t, i, Top(t))
      /\ Top(t).fn = "deliver" => SinkOk(mode, Known, t, i, Top(t))
  BY <1>1, TopIs, CallKinds
<1>3. CASE Top(t).fn = "on_event"
  <2>1. i = 1
    BY <1>1, <1>2, <1>3 DEF LayerOk
  <2>2. PICK k \in 1..Len(calls[t]) : calls[t][k].fn = "deliver"
    BY <1>1 DEF BridgeInv, GuardsOk, HasSink
  <2>3. k = 1
    BY <2>1, <2>2
  <2>4. Top(t) = calls[t][1]
    BY <2>1 DEF Top, Last
  <2> QED
    BY <1>3, <2>2, <2>3, <2>4
<1>4. CASE Top(t).fn = "deliver"
  BY <1>1, <1>2, <1>4 DEF SinkOk, EnvOk, Unresolved, Known
<1> QED
  BY <1>1, <1>3, <1>4

(* What ObsToTracingSink dispatches under the reserved target is not       *)
(* lifted again, and no thread waits for the dispatch lock it holds.       *)
THEOREM LoopIsBroken == BridgeSpec => []LoopBrokenByTarget
<1>1. BridgeInv => LoopBrokenByTarget
  BY NoSelfDeadlock DEF BridgeInv, SentOk, LoopBrokenByTarget, LoopBroken
<1> QED
  BY <1>1, BridgeAlways, PTL

(* A late consumer meets the registration of a callsite within             *)
(* RefreshCount interned envelopes for each thread that lifts, and as many *)
(* again for each registration that was dropped on the way; the sink of    *)
(* the process resolves every callsite it is handed.                       *)
THEOREM LateConsumerIsServed == BridgeSpec => []LateConsumerResolves
<1>1. ASSUME BridgeInv, CountsOk, mode.queued \/ ~mode.dynamic, NEW s \in Site
      PROVE  since[s] <= RefreshCount * Cardinality(Lifting) * (1 + missed[s])
  <2> DEFINE n == Cardinality(Lifting)
             sd == Cardinality(Sending(s))
             rs == Cardinality(Resetting(s))
             du == Cardinality(Due(s))
             m == since[s]
             k == missed[s]
             e == Slack(n, k)
             R == RefreshCount
             nR == n * R
             rR == rs * R
  <2>1. Within(Phases(s), Lifting)
    BY <1>1, PhasesWithin
  <2>2. n \in Nat /\ Tallied(n, sd, rs, du)
    BY <2>1, Tallies, TalliesAre DEF Tallied
  <2>3. m \in Nat /\ k \in Nat /\ R \in Nat \ {0}
    BY <1>1, BridgeAssumption DEF BridgeInv, BridgeType
  <2>4. SiteOk(s)
    BY <1>1 DEF CountsOk
  <2>5. /\ sd \in Nat /\ rs \in Nat /\ nR \in Nat /\ rR \in Nat /\ e \in Nat
        /\ R * n * (1 + k) = nR + e
    <3>1. sd \in Nat /\ rs \in Nat /\ nR \in Nat /\ rR \in Nat /\ e \in Nat
      BY <2>2, <2>3, Scales, SlackIs DEF Tallied
    <3>2. R * n * (1 + k) = n * R + n * R * k
      <4> HIDE DEF n, R, k
      <4>1. n \in Nat /\ R \in Nat /\ k \in Nat
        BY <2>2, <2>3
      <4> QED
        BY ONLY <4>1
    <3> QED
      BY <3>1, <3>2 DEF Slack
  <2>6. CASE s \notin Known
    <3>1. m = 0
      BY <2>4, <2>6 DEF SiteOk
    <3>2. m <= nR + e
      <4> HIDE DEF m, nR, e
      <4> QED
        BY <2>5, <3>1
    <3> QED
      BY <2>5, <3>2
  <2>7. CASE s \in Known /\ s \in old
    <3>1. m + sd + rs <= nR + e
      BY <2>4, <2>7 DEF SiteOk, OldOk
    <3>2. m <= nR + e
      <4> HIDE DEF m, sd, rs, nR, e
      <4> QED
        BY <2>3, <2>5, <3>1
    <3> QED
      BY <2>5, <3>2
  <2>8. CASE s \in Known /\ s \notin old
    <3> DEFINE l == Left(registry[s])
    <3>1. m + sd + rR + l <= nR + e
      BY <2>4, <2>8 DEF SiteOk, CountOk
    <3>2. l \in Nat
      BY <1>1, <2>8, LeftIs, BridgeAssumption DEF BridgeInv, BridgeType
    <3>3. m <= nR + e
      <4> HIDE DEF m, sd, rR, nR, e, l
      <4> QED
        BY <2>3, <2>5, <3>1, <3>2
    <3> QED
      BY <2>5, <3>3
  <2> QED
    BY <2>6, <2>7, <2>8
<1>2. BridgeInv /\ CountsOk => LateConsumerResolves
  BY <1>1 DEF BridgeInv, SentOk, LateConsumerResolves
<1> QED
  BY <1>2, BridgeAlways, PTL

(* Inside a span lifted events carry the ids of the current span and       *)
(* native events those of the span entered last, unless a span was exited  *)
(* out of turn; a nested span carries the trace of the one around it.      *)
THEOREM SpansAreCorrelated == BridgeSpec => []SpanCorrelates
<1>1. BridgeInv => SpanCorrelates
  <2> SUFFICES ASSUME BridgeInv PROVE SpanCorrelates
    OBVIOUS
  <2>1. ASSUME NEW e \in sent, e.kind \in {"native", "event"}, e.at # None, e.nested
        PROVE  /\ e.ctx.trace = ctx[e.at].trace /\ e.ctx.id = e.at
               /\ e.ctx.parent = ctx[e.at].parent \/ ctx[e.at].parent = None
    BY <2>1 DEF BridgeInv, SentOk, Correlated, Agrees, SpansOk
  <2>2. \A e \in sent : e.kind \in {"native", "event"} /\ e.at = None => e.ctx = NoCtx
    BY DEF BridgeInv, SentOk, Correlated
  <2>3. \A sp \in DOMAIN ctx : ctx[sp].parent # None => ctx[sp].trace \in {Given, ctx[ctx[sp].parent].trace}
    BY DEF BridgeInv, SpansOk
  <2> QED
    BY <2>1, <2>2, <2>3 DEF SpanCorrelates
<1> QED
  BY <1>1, BridgeAlways, PTL
===============================================================================
