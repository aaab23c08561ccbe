------------------------------ MODULE MCBoundaries -----------------------------
(* The edges of the library, one instance of each in one run: the tracing  *)
(* bridge under several set-ups, HTTP trace context, configuration and     *)
(* start-up.  part says which of the three a behaviour is about.           *)
EXTENDS TracingBridge, HttpTrace, Startup

CONSTANT Parts
VARIABLE part

Lay(dynamic, queued, interning, prewarm, spans, does, n) ==
    [dynamic |-> dynamic, queued |-> queued, interning |-> interning, prewarm |-> prewarm, spans |-> spans,
     does |-> does, ops |-> n]

(* Queued with interning, inline with spans, inline with every kind of     *)
(* tracing event, and the default target.                                  *)
MCModes == {Lay(FALSE, TRUE, TRUE, FALSE, "Off", {"trace"}, 5),
            Lay(FALSE, FALSE, FALSE, FALSE, "Both", {"native", "span"}, 3),
            Lay(FALSE, FALSE, TRUE, TRUE, "Both", {"native", "trace", "pii", "promote"}, 3),
            Lay(TRUE, FALSE, FALSE, TRUE, "Suppressed", {"native", "trace", "typed", "span"}, 3)}

(* The defaults of both directions, installed together on a runtime. *)
EchoModes == {Lay(TRUE, TRUE, FALSE, TRUE, "Off", {"native"}, 1)}

Cfg(ranges, filter, dev, spool) == [ranges |-> ranges, filter |-> filter, dev |-> dev, spool |-> spool]
Yaml(form, holds, placeholder) == [form |-> form, holds |-> holds, placeholder |-> placeholder]

MCText == {Yaml("missing", Default, "none"), Yaml("unknown_key", Default, "none"),
           Yaml("ok", Default, "bare"), Yaml("ok", Default, "default"),
           Yaml("ok", Cfg("bad", "good", FALSE, TRUE), "none"),
           Yaml("ok", Cfg("ok", "good", TRUE, FALSE), "none")}

MCPlan == {[source |-> "path", given |-> Default, overlay |-> FALSE, preset |-> "Production",
            sinks |-> {"Audit", "Metric"}, hook |-> TRUE, bridge |-> TRUE, sighup |-> TRUE],
           [source |-> "given", given |-> Cfg("ok", "good", FALSE, TRUE), overlay |-> TRUE,
            preset |-> "Dev", sinks |-> {}, hook |-> FALSE, bridge |-> TRUE, sighup |-> FALSE],
           [source |-> "none", given |-> Default, overlay |-> FALSE, preset |-> "InMemory",
            sinks |-> {}, hook |-> TRUE, bridge |-> FALSE, sighup |-> TRUE]}

MCEnvironment ==
    {[dev |-> TRUE, filter |-> "unset", unknown |-> FALSE, subscriber |-> FALSE, name |-> "env"],
     [dev |-> FALSE, filter |-> "good", unknown |-> TRUE, subscriber |-> TRUE, name |-> "attributes"],
     [dev |-> FALSE, filter |-> "bad", unknown |-> FALSE, subscriber |-> FALSE, name |-> "unset"]}

(* The parts a behaviour is not about stay in one of their initial states. *)
Init ==
    /\ part \in Parts
    /\ BridgeInit /\ HttpInit /\ StartInit
    /\ part # "bridge" => mode = CHOOSE m \in Modes : TRUE
    /\ part # "startup" => /\ file = CHOOSE f \in Text : TRUE
                           /\ environ = CHOOSE e \in Environment : TRUE
                           /\ \A b \in Boot : boot[b].plan = CHOOSE p \in Plan : TRUE

Next ==
    \/ part = "bridge" /\ BridgeNext /\ UNCHANGED <<part, httpVars, startVars>>
    \/ part = "http" /\ HttpNext /\ UNCHANGED <<part, vars, startVars>>
    \/ part = "startup" /\ StartNext /\ UNCHANGED <<part, vars, httpVars>>

Spec == Init /\ [][Next]_<<part, vars, httpVars, startVars>>
===============================================================================
