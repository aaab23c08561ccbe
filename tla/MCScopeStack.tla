----------------------------- MODULE MCScopeStack ------------------------------
(* Small instances of ScopeStack for TLC.                                  *)
EXTENDS ScopeStack, TLC
CONSTANTS t1, t2

(* The threads are alike, and the events. *)
Symmetry == Permutations(Event) \union Permutations(Thread)

(* t1 is an instrumented future, t2 opens its scopes itself. *)
SeedOfTwo == t1 :> "Scope" @@ t2 :> "none"

(* Events that fill rings and trigger flushes, one that bypasses the sampler. *)
Ringed == {[sev |-> Debug, reason |-> "none", big |-> FALSE],
           [sev |-> Error, reason |-> "none", big |-> FALSE]}
Bypassing == {[sev |-> Info, reason |-> "bypass", big |-> TRUE]}

(* A request scope; the two decisions of an upstream caller, one on a      *)
(* scope and one on a context that declares nothing.                       *)
Declaring == {[kind |-> "Scope", declares |-> TRUE, sampled |-> "unset"]}
Upstream == {[kind |-> "Scope", declares |-> FALSE, sampled |-> "yes"],
             [kind |-> "Context", declares |-> FALSE, sampled |-> "no"]}

(* One that samples, and one that also filters and limits. *)
Sampling == [level |-> Debug, honour |-> TRUE, always |-> Error, rate |-> "some", limit |-> FALSE]
Strict == [level |-> Info, honour |-> FALSE, always |-> Error, rate |-> "zero", limit |-> TRUE]
MCConfig == {Sampling, Strict}

(* Futures that take turns on one thread and keep no guard across an       *)
(* .await; on one thread, a function under #[obs::instrument] that nests a *)
(* scope, and another future; on two threads, an instrumented future that  *)
(* keeps a guard, and another.                                             *)
MCApps ==
    {[threads |-> {th}, holds |-> {}, kinds |-> Ringed \union Bypassing, shapes |-> Declaring \union Upstream,
      configs |-> MCConfig, max_held |-> 2, max_frames |-> 3] : th \in Thread}
    \union
    {[threads |-> {th}, holds |-> {t2}, kinds |-> Ringed, shapes |-> Declaring,
      configs |-> {Sampling}, max_held |-> 2, max_frames |-> 2] : th \in Thread}
    \union
    {[threads |-> Thread, holds |-> {t1}, kinds |-> Ringed, shapes |-> Declaring,
      configs |-> {Sampling}, max_held |-> 1, max_frames |-> 2]}

(* Two calls of a function under #[obs::instrument(fields(..))], on a      *)
(* work-stealing runtime.                                                  *)
NoSeeds == t1 :> "none" @@ t2 :> "none"
InstrumentedApps ==
    {[threads |-> Thread, holds |-> Task, kinds |-> Ringed, shapes |-> Declaring,
      configs |-> {Sampling}, max_held |-> 1, max_frames |-> 2]}
===============================================================================
