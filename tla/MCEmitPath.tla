------------------------------ MODULE MCEmitPath ------------------------------
(* What decides whether an emit goes out and to whom: the Interest cache of a *)
(* callsite, the filter it caches, the observer slots and the watcher that    *)
(* reloads the configuration.  A behaviour is of one of them.                 *)
EXTENDS CallsiteCache, EventFilter, ObserverSlots, ConfigWatcher

VARIABLE part

(* myapp.v1.ObsX in myapp::auth and other.ObsY in myapp. *)
App == <<"myapp">>
ObsX == <<"myapp", "v1", "ObsX">>
Auth == <<"myapp", "auth">>
ObsY == <<"other", "ObsY">>
Off == <<"off">>
Debug == <<"debug">>

MCCallsites == {[full |-> ObsX, module |-> Auth, sev |-> 2],
                [full |-> ObsY, module |-> App, sev |-> 1]}
MCTargets == {App, ObsX, Auth, Off, Debug}
MCLengths == App :> 5 @@ ObsX :> 13 @@ Auth :> 11 @@ Off :> 3 @@ Debug :> 5
MCLevelOf == Debug :> 1
MCClauses == {{}, {<<"route", "admin">>}}
MCLabelSets == {{}, {<<"route", "admin">>}}

partVars == <<part, vars, filterVars, slotVars, watchVars>>

PartInit ==
    /\ part \in {"cache", "filter", "slots", "watch"}
    /\ Init /\ FilterInit /\ SlotInit /\ WatchInit
    /\ part # "cache" => \A o \in Std : allow[o]
    /\ part # "slots" => global = CHOOSE o \in Observers : TRUE

PartNext ==
    \/ part = "cache" /\ Next /\ UNCHANGED <<part, filterVars, slotVars, watchVars>>
    \/ part = "filter" /\ FilterNext /\ UNCHANGED <<part, vars, slotVars, watchVars>>
    \/ part = "slots" /\ SlotNext /\ UNCHANGED <<part, vars, filterVars, watchVars>>
    \/ part = "watch" /\ WatchNext /\ UNCHANGED <<part, vars, filterVars, slotVars>>

(* The threads are alike, in every part. *)
ThreadSymmetry == Permutations(Thread) \union Permutations(Std)

PartSpec == PartInit /\ [][PartNext]_partVars
===============================================================================
