-------------------------------- MODULE MCSinks -------------------------------
(* Envelopes, files and filters for the sinks. *)
EXTENDS Sinks

CONSTANTS e1, e2, e3, k1, k2, s1

MCSpanOf == (e1 :> s1) @@ (e2 :> s1) @@ (e3 :> NoSpan)
MCRole == (e1 :> "paired") @@ (e2 :> "paired") @@ (e3 :> "legacy")
MCPartOf == (e1 :> k1) @@ (e2 :> k1) @@ (e3 :> k2)
MCSizeOf == (e1 :> 1) @@ (e2 :> 1) @@ (e3 :> 2)
MCTailFilters == {{1, 2}}

(* Restarts that find the names of an earlier process, and a keep of none. *)
Rolling(policy, keep, runs) == [policy |-> policy, keep |-> keep, procs |-> runs]
MCRollConfigs == {Rolling("Never", -1, 1), Rolling("SizeBased", 0, 1), Rolling("SizeBased", 1, 2),
                  Rolling("Periodic", 1, 2), Rolling("SizeOrAge", 2, 1)}
===============================================================================
