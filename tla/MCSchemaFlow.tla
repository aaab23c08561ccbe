---------------------------- MODULE MCSchemaFlow ----------------------------
EXTENDS SchemaFlow

(* The first field varies in every annotation, the second in what can clash   *)
(* with it.                                                                   *)
Firsts ==
    {f \in [name : {"size_bytes", "trace_id", "ts_ns", "NotSnake"},
            kind : {"", "label", "attribute", "measurement", "trace_id", "timestamp_ns", "bogus"},
            card : {"", "low", "high"}, class : {"", "internal", "pii", "secret"},
            metric : {"", "counter", "histogram"},
            type : {"string", "bytes", "u64", "f64", "bool", "secret"}, number : {0, 1}] :
        /\ f.name = "NotSnake" => f.kind = "attribute" /\ f.class = "pii"
        /\ f.name = "ts_ns" => f.kind \in {"attribute", "timestamp_ns"}
        /\ (f.name = "trace_id" => f.kind \in {"trace_id", "label"})
        /\ f.kind # "label" => f.card # "high"
        /\ f.kind # "measurement" => f.metric = ""
        /\ f.kind = "measurement" => f.card = "low"
        /\ f.number = 0 => f.class = "pii"}

Seconds ==
    {<<>>} \cup
    {<<[name |-> "user", kind |-> "attribute", card |-> "low", class |-> c, metric |-> "",
        type |-> "string", number |-> n]>> : c \in {"", "pii"}, n \in {1, 2}}

Compose(path, tier, f, second) ==
    [path |-> path, name |-> "Event", prefixed |-> TRUE, tier |-> tier, sev |-> "info", fields |-> <<f>> \o second]

MCDeclarations ==
    {d \in {Compose(path, tier, f, second) :
               path \in {"derive", "proto"}, tier \in {"log", "metric", "audit"}, f \in Firsts, second \in Seconds} :
        /\ d.tier = "audit" => Len(d.fields) = 1 /\ d.fields[1].number = 1
        /\ d.path = "proto" =>
            /\ d.fields[1].number = 1 /\ d.fields[1].type # "secret"
            /\ Len(d.fields) = 2 => d.fields[2].number = 2}
    \cup {[path |-> path, name |-> "Event", prefixed |-> p, tier |-> tier, sev |-> sev, fields |-> <<>>] :
             path \in {"derive", "proto"}, p \in BOOLEAN, tier \in {"", "bogus"}, sev \in {"", "bogus"}}

MCNeighbour ==
    [path |-> "proto", name |-> "Neighbour", prefixed |-> TRUE, tier |-> "log", sev |-> "info",
     fields |-> <<[name |-> "note", kind |-> "attribute", card |-> "low", class |-> "internal", metric |-> "",
                   type |-> "string", number |-> 1]>>]
=============================================================================
