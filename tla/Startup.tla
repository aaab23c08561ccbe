-------------------------------- MODULE Startup -------------------------------
(* Configuration and start-up: EventsConfig is read from text, the         *)
(* environment or code (config.rs), StandardObserverBuilder::build checks  *)
(* it (observer/standard.rs), init_for_service(..).install() puts the      *)
(* observer in place with the panic hook, the tracing bridge and a SIGHUP  *)
(* task (obs-kit init.rs, panic_hook.rs, obs-tracing-bridge lib.rs), and   *)
(* the guard it returns shuts the observer down.  install() may run        *)
(* several times in one process, and awaits while it reads the file.       *)
EXTENDS Naturals, FiniteSets

CONSTANTS
    Boot,         \* calls of install()
    Plan,         \* what a builder was told
    Text,         \* contents obs.yaml may have
    Environment,  \* the process environment
    MaxReloads    \* bound on reload_config

(* A configuration: are the ranges those validate accepts, which filter,   *)
(* is dev_mode on, can the AUDIT spool's directory be opened.              *)
Settings == [ranges : {"ok", "bad"}, filter : {"unset", "good", "bad"}, dev : BOOLEAN, spool : BOOLEAN]

Tiers == {"Log", "Metric", "Trace", "Audit"}

(* What an InitBuilder was told: where the configuration comes from, the   *)
(* preset, the tiers with a sink of their own, and the optional parts.     *)
InitBuilder ==
    [source : {"given", "path", "none"}, given : Settings, overlay : BOOLEAN,
     preset : {"Dev", "Production", "InMemory"}, sinks : SUBSET Tiers,
     hook : BOOLEAN, bridge : BOOLEAN, sighup : BOOLEAN]

ASSUME StartupAssumption ==
    /\ MaxReloads \in Nat /\ "noop" \notin Boot
    /\ Text \subseteq [form : {"missing", "syntax", "unknown_key", "ok"}, holds : Settings,
                       placeholder : {"none", "default", "bare"}]
    /\ Plan \subseteq InitBuilder
    /\ Environment \subseteq [dev : BOOLEAN, filter : {"unset", "good", "bad"}, unknown : BOOLEAN,
                              subscriber : BOOLEAN, name : {"unset", "env", "attributes"}]

VARIABLES
    file,         \* obs.yaml
    environ,      \* the environment variables, and is another tracing subscriber installed
    boot,         \* each install()
    observer,     \* the observer each install() made
    global,       \* OBSERVER_GLOBAL: whose observer, or noop
    hooked,       \* the panic hook's INSTALLED
    bridged,      \* install_tracing_bridge's INSTALLED: was init run, and with what outcome
    sighups,      \* SIGHUP tasks spawned
    reloads       \* reload_config calls so far

startVars == <<file, environ, boot, observer, global, hooked, bridged, sighups, reloads>>

Default == [ranges |-> "ok", filter |-> "unset", dev |-> FALSE, spool |-> TRUE]
NoObserver == [kind |-> "none", cfg |-> Default, filter |-> "unset", router |-> [t \in Tiers |-> "none"],
               workers |-> [t \in Tiers |-> "none"], spool |-> FALSE, resource |-> "none", up |-> FALSE]

StartInit ==
    /\ file \in Text
    /\ environ \in Environment
    /\ boot \in [Boot -> {[at |-> "new", plan |-> p, cfg |-> Default, error |-> "none"] : p \in Plan}]
    /\ observer = [b \in Boot |-> NoObserver]
    /\ global = "noop"
    /\ hooked = FALSE
    /\ bridged = "never"
    /\ sighups = 0
    /\ reloads = 0

-------------------------------------------------------------------------------
(* config.rs.                                                              *)

(* expand_env_vars on a filter written as a placeholder: the variable, the *)
(* default after :-, or the placeholder itself, which no filter parses as. *)
Expanded(text) ==
    IF text.placeholder = "none" THEN text.holds
    ELSE [text.holds EXCEPT !.filter = IF environ.filter # "unset" THEN environ.filter
                                       ELSE IF text.placeholder = "default" THEN "good" ELSE "bad"]

(* from_yaml_str refuses bad syntax and unknown keys, and does not validate. *)
Parses(text) == text.form = "ok"

(* merged_with_env: OBS_ variables written over the configuration; one     *)
(* that is not a key discards all of them.                                 *)
MergedWithEnv(cfg) ==
    IF environ.unknown THEN cfg
    ELSE [cfg EXCEPT !.dev = @ \/ environ.dev,
                     !.filter = IF environ.filter = "unset" THEN @ ELSE environ.filter]

(* Mutant of Valid: ranges are not looked at. *)
ValidAlways(cfg) == TRUE

(* EventsConfig::validate. *)
Valid(cfg) == cfg.ranges = "ok"

-------------------------------------------------------------------------------
(* StandardObserverBuilder::build.                                         *)

WithDev(cfg) == [cfg EXCEPT !.dev = @ \/ environ.dev]

(* The builder's filter, the configuration's, then OBS_FILTER. *)
FilterSpec(cfg) == IF cfg.filter # "unset" THEN cfg.filter ELSE environ.filter

(* sink_for and the preset: the last sink given for a tier, AUDIT being    *)
(* left out by every preset.                                               *)
SinkSlots(plan) == [t \in Tiers |-> IF t \in plan.sinks THEN "own"
                                     ELSE IF plan.preset = "Dev" /\ t # "Audit" THEN "compact"
                                     ELSE "none"]

(* SinkRouter::for_tier: the tier's sink or the fallback, which obs-kit    *)
(* always sets.                                                            *)
ForTier(router, t) == IF router[t] = "none" THEN "fallback" ELSE router[t]

(* spawn_pool: a worker for each tier, on its sink or the fallback; AUDIT  *)
(* has one only with a sink of its own, and is dispatched inline otherwise. *)
SpawnPool(router) ==
    [t \in Tiers |-> IF t = "Audit" THEN router[t] ELSE ForTier(router, t)]

(* build_resource_from_env: the service name of the resource is the one in *)
(* OTEL_RESOURCE_ATTRIBUTES, else OTEL_SERVICE_NAME, else the builder's.   *)
ResourceName == IF environ.name = "unset" THEN "builder" ELSE environ.name

(* Why build refuses, or none: validation, the filter, the spool of a      *)
(* wired AUDIT sink.                                                       *)
BuildError(plan, cfg) ==
    IF ~Valid(cfg) \/ FilterSpec(cfg) = "bad" THEN "config"
    ELSE IF SinkSlots(plan)["Audit"] # "none" /\ ~cfg.spool THEN "spool"
    ELSE "none"

(* The observer build returns. *)
Built(plan, cfg) ==
    LET router == SinkSlots(plan) IN
    [kind |-> "standard", cfg |-> cfg, filter |-> FilterSpec(cfg), router |-> router,
     workers |-> SpawnPool(router), spool |-> router["Audit"] # "none",
     resource |-> ResourceName, up |-> TRUE]

-------------------------------------------------------------------------------
(* InitBuilder::install.                                                   *)

Moves(b, at) == boot' = [boot EXCEPT ![b].at = at]
Fails(b, error) == boot' = [boot EXCEPT ![b].at = "failed", ![b].error = error]

(* Step 1 with a configuration in hand, built or merged by the caller, or  *)
(* none at all. *)
TakeConfig(b) ==
    LET p == boot[b].plan
    IN /\ boot[b].at = "new" /\ p.source # "path"
       /\ boot' = [boot EXCEPT ![b].at = "build",
              ![b].cfg = IF p.source = "none" THEN Default
                         ELSE IF p.overlay THEN MergedWithEnv(p.given) ELSE p.given]
       /\ UNCHANGED <<file, environ, observer, global, hooked, bridged, sighups, reloads>>

(* Step 1 from a path: load_config. *)
LoadConfig(b) ==
    /\ boot[b].at = "new" /\ boot[b].plan.source = "path"
    /\ IF file.form = "missing" THEN Fails(b, "read")
       ELSE IF ~Parses(file) THEN Fails(b, "parse")
       ELSE boot' = [boot EXCEPT ![b].at = "build", ![b].cfg = Expanded(file)]
    /\ UNCHANGED <<file, environ, observer, global, hooked, bridged, sighups, reloads>>

(* Step 2: the in-memory observer, or build_observer and install_observer. *)
BuildAndInstall(b) ==
    LET cfg == WithDev(boot[b].cfg)
        error == BuildError(boot[b].plan, cfg)
    IN /\ boot[b].at = "build"
       /\ IF boot[b].plan.preset # "InMemory" /\ error # "none"
            THEN Fails(b, error) /\ UNCHANGED <<observer, global>>
            ELSE /\ Moves(b, "hook")
                 /\ global' = b
                 /\ observer' = [observer EXCEPT ![b] =
                      IF boot[b].plan.preset = "InMemory"
                        THEN [NoObserver EXCEPT !.kind = "memory", !.up = TRUE]
                        ELSE Built(boot[b].plan, cfg)]
       /\ UNCHANGED <<file, environ, hooked, bridged, sighups, reloads>>

(* Step 3: install_panic_hook, once in a process. *)
PanicHook(b) ==
    /\ boot[b].at = "hook"
    /\ hooked' = (hooked \/ boot[b].plan.hook)
    /\ Moves(b, "bridge")
    /\ UNCHANGED <<file, environ, observer, global, bridged, sighups, reloads>>

(* Step 4: the first install() that asks runs obs_tracing_bridge::init,    *)
(* which fails when a subscriber is set; later ones are told all is well.  *)
InstallBridge(b) ==
    /\ boot[b].at = "bridge"
    /\ IF ~boot[b].plan.bridge \/ bridged # "never"
         THEN Moves(b, "sighup") /\ UNCHANGED bridged
         ELSE IF environ.subscriber
                THEN Fails(b, "bridge") /\ bridged' = "failed"
                ELSE Moves(b, "sighup") /\ bridged' = "up"
    /\ UNCHANGED <<file, environ, observer, global, hooked, sighups, reloads>>

(* Step 5, and the guard is returned. *)
SpawnSighup(b) ==
    /\ boot[b].at = "sighup"
    /\ sighups' = sighups + (IF boot[b].plan.sighup /\ boot[b].plan.source = "path" THEN 1 ELSE 0)
    /\ Moves(b, "guard")
    /\ UNCHANGED <<file, environ, observer, global, hooked, bridged, reloads>>

(* The guard is dropped: whatever observer is global now is shut down. *)
ShutDownGlobal ==
    observer' = [observer EXCEPT ![global].up = FALSE]

DropGuard(b) ==
    /\ boot[b].at = "guard"
    /\ Moves(b, "dropped")
    /\ ShutDownGlobal
    /\ UNCHANGED <<file, environ, global, hooked, bridged, sighups, reloads>>

-------------------------------------------------------------------------------
(* While the process runs.                                                 *)

Save(text) ==
    /\ text # file
    /\ file' = text
    /\ UNCHANGED <<environ, boot, observer, global, hooked, bridged, sighups, reloads>>

(* reload_config on a StandardObserver, with a configuration the file      *)
(* held: refused whole, or the filter and the configuration are replaced.  *)
ReloadConfig(b) ==
    LET cfg == Expanded(file)
    IN /\ observer[b].kind = "standard" /\ reloads < MaxReloads /\ Parses(file)
       /\ reloads' = reloads + 1
       /\ IF ~Valid(cfg) \/ cfg.filter = "bad"
            THEN UNCHANGED observer
            ELSE observer' = [observer EXCEPT ![b].cfg = cfg, ![b].filter = cfg.filter]
       /\ UNCHANGED <<file, environ, boot, global, hooked, bridged, sighups>>

(* A panic on any thread, caught or not: the hook emits ObsPanicked and    *)
(* shuts the global observer down.                                         *)
Panic ==
    /\ hooked
    /\ ShutDownGlobal
    /\ UNCHANGED <<file, environ, boot, global, hooked, bridged, sighups, reloads>>

(* A SIGHUP: the task reads the file and then finds no StandardObserver,   *)
(* observer_as_standard being None always.                                 *)
Sighup ==
    /\ sighups > 0
    /\ UNCHANGED startVars

StartNext ==
    \/ \E b \in Boot :
         \/ TakeConfig(b) \/ LoadConfig(b) \/ BuildAndInstall(b) \/ PanicHook(b) \/ InstallBridge(b)
         \/ SpawnSighup(b) \/ DropGuard(b) \/ ReloadConfig(b)
    \/ \E text \in Text : Save(text)
    \/ Panic
    \/ Sighup

StartSpec == StartInit /\ [][StartNext]_startVars

-------------------------------------------------------------------------------
(* Properties.                                                             *)

(* However installs, saves and reloads interleave, an observer that is in  *)
(* place runs a configuration validate accepts and a filter that parses;   *)
(* its workers deliver where the inline dispatch would, and AUDIT has a    *)
(* worker only with a spool to fall back to, so that dispatch_audit never  *)
(* finds none; and an install() that failed has put no observer in place,  *)
(* except when the tracing bridge failed, after install_observer.          *)
InstalledIsSound ==
    \A b \in Boot :
        /\ observer[b].kind = "standard" =>
              /\ observer[b].cfg.ranges = "ok"
              /\ observer[b].filter # "bad"
              /\ \A t \in Tiers : observer[b].workers[t] \in {"none", ForTier(observer[b].router, t)}
              /\ observer[b].workers["Audit"] # "none" => observer[b].spool
        /\ boot[b].at = "failed" /\ boot[b].error # "bridge" =>
              observer[b] = NoObserver /\ global # b
===============================================================================
