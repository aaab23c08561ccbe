----------------------------- MODULE SchemaFlow -----------------------------
(* From a declaration to what a sink shows of an event: compile and lint,     *)
(* link, emit (or receive from a producer elsewhere), scrub in the worker,    *)
(* deliver to every sink, and encode the Parquet batch.                       *)
EXTENDS EventSchemas

CONSTANTS
    Declarations,   \* the declarations of the event under study
    Neighbour,      \* another event linked into the same binary
    MaxEvents       \* bound on the events of a run

(* The model has names of its own for what is not a field or not linked here. *)
ASSUME DeclarationAssumption ==
    /\ MaxEvents \in Nat /\ Neighbour \notin Declarations /\ Neighbour.name # "elsewhere"
    /\ \A d \in Declarations : d.name \notin {Neighbour.name, "elsewhere"}
    /\ \A d \in Declarations \cup {Neighbour} :
         Declaration(d) /\ \A i \in DOMAIN d.fields : d.fields[i].name \notin {"", "foreign"}

VARIABLES
    decls,          \* the declarations of the binary, in link order
    collide,        \* do the two 8-byte hashes happen to be equal?
    stage,
    events,         \* how many were delivered
    env,            \* the envelope in flight
    payload,        \* its scrubbed payload
    schema,         \* << >> or << the schema the worker looked up >>
    shown,          \* per sink: the values it was shown, [where, of, marked]
    points,         \* the points of the OTLP metric sink for the last event
    rows,           \* per event column: the rows of the Parquet batch
    encoded,        \* "none", "file" or "failed"
    repeats         \* ghost: did a delivered payload hold a field number twice?

flowVars == <<decls, collide, stage, events, env, payload, schema, shown, points, rows, encoded, repeats>>

Styles == {"stdout_compact", "stdout_full", "stdout_pretty", "stdout_json"}
Sinks == Styles \cup {"ndjson", "otlp_log", "otlp_metric", "otlp_trace", "prom", "parquet",
          "clickhouse", "live_tail", "batch"}

Event == IF decls[1] = Neighbour THEN decls[2] ELSE decls[1]
Elsewhere == [Neighbour EXCEPT !.name = "elsewhere"]      \* a schema that is not linked here

HashOf(d) == IF collide THEN HashInput(Neighbour) ELSE HashInput(d)
Hashes == [d \in ToSet(decls) |-> HashOf(d)]

FlowInit ==
    /\ collide \in BOOLEAN
    /\ \E d \in Declarations : decls = IF collide THEN <<Neighbour, d>> ELSE <<d, Neighbour>>
    /\ stage = "written" /\ events = 0 /\ env = <<>> /\ payload = <<>> /\ schema = <<>>
    /\ shown = [s \in Sinks |-> {}] /\ points = <<>>
    /\ rows = [i \in DOMAIN decls |-> <<>>] /\ encoded = "none" /\ repeats = FALSE

(* The build accepts or refuses the declarations.                             *)
Build ==
    /\ stage = "written"
    /\ stage' = IF /\ \A i \in DOMAIN decls : Compiles(decls[i])
                   /\ CrossEventLints(ToSet(decls), Hashes) = {}
                THEN "linked" ELSE "rejected"
    /\ UNCHANGED <<decls, collide, events, env, payload, schema, shown, points, rows, encoded, repeats>>

Send(e) ==
    /\ stage = "linked" /\ events < MaxEvents /\ encoded = "none"
    /\ env' = e /\ stage' = "emitted"
    /\ UNCHANGED <<decls, collide, events, payload, schema, shown, points, rows, encoded, repeats>>

(* build_envelope from a typed value whose fields in set are not default.     *)
Emit ==
    \E set \in SUBSET DOMAIN Event.fields :
        Send([name |-> Event.name, hash |-> HashOf(Event), payload |-> EncodePayload(Event, set),
              labels |-> Project(Event, {"label"}), slots |-> Project(Event, Correlations)])

(* An envelope of a producer elsewhere, handed to emit_envelope: its schema   *)
(* is another version of ours, or one that is not linked here.                *)
Followed(p, tail) ==
    LET end == Max(DOMAIN p \cup {0}) + 1
    IN  [q \in DOMAIN p \cup {end} |->
            IF q = end THEN [number |-> tail[2], wire |-> tail[1], of |-> "foreign", marked |-> FALSE] ELSE p[q]]

EmitForeign ==
    \E tail \in {<<"bytes", 9>>, <<"group", 9>>, <<"cut", 9>>, <<"varint", 1>>}, name \in {Event.name, "elsewhere"} :
        Send([name |-> name, hash |-> HashInput(Elsewhere),
              payload |-> Followed(IF name = "elsewhere" THEN <<>> ELSE EncodePayload(Event, DOMAIN Event.fields), tail),
              labels |-> {}, slots |-> {}])

(* ScrubbedEnvelope::scrub in the worker; a failure is reported and the event *)
(* goes to no sink.                                                           *)
Scrub ==
    /\ stage = "emitted"
    /\ schema' = Lookup(decls, Hashes, env.hash, env.name)
    /\ IF schema' = <<>>
       THEN payload' = env.payload /\ stage' = "scrubbed"
       ELSE IF ScrubFails(env.payload)
            THEN payload' = <<>> /\ stage' = "linked"
            ELSE payload' = ScrubPayload(env.payload, FieldMetas(schema'[1])) /\ stage' = "scrubbed"
    /\ UNCHANGED <<decls, collide, events, env, shown, points, rows, encoded, repeats>>

-----------------------------------------------------------------------------
(* What each sink shows.                                                      *)
Metas == FieldMetas(schema[1])
Bytes(p) == {[where |-> "payload", of |-> p[i].of, marked |-> p[i].marked] : i \in DOMAIN p}
Named(where, names) == {[where |-> where, of |-> n, marked |-> FALSE] : n \in names}
Points == IF schema = <<>> THEN <<>> ELSE ProjectMetrics(payload, Metas)
PointValues == {[where |-> "point", of |-> Points[i].of, marked |-> FALSE] : i \in DOMAIN Points}

(* Standard output prints no payload; the styles differ in the ids they print. *)
RenderCompact == Named("label", env.labels) \cup Named("slot", env.slots \ {"parent_span_id"})
RenderFull ==
    Named("label", env.labels) \cup Named("slot", IF env.slots \subseteq {"parent_span_id"} THEN {} ELSE env.slots)
RenderPretty == Named("label", env.labels) \cup Named("slot", IF "trace_id" \in env.slots THEN env.slots ELSE {})
RenderEnvelope == Named("label", env.labels) \cup Named("slot", env.slots)

RenderNdjson ==
    RenderEnvelope \cup
        IF schema = <<>> THEN {}
        ELSE {[where |-> "field", of |-> v.of, marked |-> v.marked] : v \in RenderJson(payload, Metas)}

ProjectLog == RenderEnvelope \cup Bytes(payload)

(* The points of the event, or one count when there are none.                 *)
MetricPoints ==
    IF DOMAIN Points = {} THEN <<[name |-> "count", of |-> "", kind |-> "counter"]>> ELSE Points

ProjectMetricPoints == Named("label", env.labels) \cup PointValues
ProjectSpan == RenderEnvelope
PromDeliver == IF schema = <<>> THEN {} ELSE Named("label", env.labels) \cup PointValues
SerializeRow == RenderEnvelope \cup Bytes(payload)

(* One row of the Parquet batch: the column of the event's name is given the  *)
(* decoded payload, the others a null.                                        *)
MatchedRow(metas) ==
    LET row == DecodeToArrow(payload, metas)
        unmatched == AppendUnmatched(metas)
    IN  IF DecodeFails(payload) THEN [i \in DOMAIN row |-> row[i] \cup unmatched[i]] ELSE FinishMatchedRow(row)

RowFor(d) == IF d.name = env.name THEN MatchedRow(FieldMetas(d)) ELSE AppendUnmatched(FieldMetas(d))

Cells(row) == UNION {row[i] : i \in DOMAIN row}

ParquetRow ==
    RenderEnvelope \cup Bytes(payload) \cup
        {[where |-> "field", of |-> v.of, marked |-> v.marked] :
            v \in {u \in UNION {Cells(RowFor(decls[c])) : c \in DOMAIN decls} : u.to = "value"}}

(* The live tail and the batch sink clone the envelope that was emitted.      *)
Original == RenderEnvelope \cup Bytes(env.payload)

View(sink) ==
    CASE sink = "stdout_compact" -> RenderCompact
      [] sink = "stdout_full" -> RenderFull
      [] sink = "stdout_pretty" -> RenderPretty
      [] sink = "stdout_json" -> RenderEnvelope
      [] sink = "ndjson" -> RenderNdjson
      [] sink = "otlp_log" -> ProjectLog
      [] sink = "otlp_metric" -> ProjectMetricPoints
      [] sink = "otlp_trace" -> ProjectSpan
      [] sink = "prom" -> PromDeliver
      [] sink = "parquet" -> ParquetRow
      [] sink = "clickhouse" -> SerializeRow
      [] OTHER -> Original

Repeats(p) == \E i, j \in DOMAIN p : i # j /\ p[i].number = p[j].number

DeliverToSinks ==
    /\ stage = "scrubbed" /\ stage' = "linked" /\ events' = events + 1
    /\ shown' = [s \in Sinks |-> View(s)]
    /\ points' = MetricPoints
    /\ rows' = [c \in DOMAIN decls |-> Append(rows[c], RowFor(decls[c]))]
    /\ repeats' = (repeats \/ Repeats(env.payload))
    /\ UNCHANGED <<decls, collide, env, payload, schema, encoded>>

(* build_record_batch: a column that is not aligned fails the whole batch.    *)
BuildRecordBatch ==
    /\ stage = "linked" /\ events > 0 /\ encoded = "none"
    /\ encoded' = IF \A c \in DOMAIN decls : Aligned(rows[c]) THEN "file" ELSE "failed"
    /\ UNCHANGED <<decls, collide, stage, events, env, payload, schema, shown, points, rows, repeats>>

FlowNext == Build \/ Emit \/ EmitForeign \/ Scrub \/ DeliverToSinks \/ BuildRecordBatch

FlowSpec == FlowInit /\ [][FlowNext]_flowVars

-----------------------------------------------------------------------------
Author(name) == {Event.fields[i] : i \in {j \in DOMAIN Event.fields : Event.fields[j].name = name}}

SharedNumber(f) ==
    \E i, j \in DOMAIN Event.fields : i # j /\ Event.fields[j] = f /\ FieldNumber(Event, i) = FieldNumber(Event, j)

(* Where a classified value passes by design of the lints, by a hash that two *)
(* events share, or by a number that two fields share.                        *)
Exempt(x, f) ==
    \/ x.where = "label" /\ f.class = "secret" /\ TierOf(Event) \notin {"log", "audit"}
    \/ x.where = "slot"
    \/ collide
    \/ SharedNumber(f)

(* No sink behind the scrubber is shown the value of a field declared PII or  *)
(* SECRET, in a payload, a decoded column, a metric point or a label: what    *)
(* the lints let through as a label is a SECRET on a METRIC or TRACE event,   *)
(* and a correlation field is lifted whatever its classification.             *)
ClassifiedIsRedacted ==
    \A s \in Sinks \ {"live_tail", "batch"} : \A x \in shown[s] : ~x.marked =>
        \A f \in Author(x.of) : f.class \in Classified => Exempt(x, f)

FullyAnnotated(d) ==
    /\ d.tier \notin {"", "bogus"} /\ d.sev \notin {"", "bogus"}
    /\ \A i \in DOMAIN d.fields : LET f == d.fields[i] IN
          /\ {f.kind, f.card, f.class} \cap {"", "bogus"} = {}
          /\ f.number # 0 /\ f.type # "secret"

(* A declaration that leaves nothing to defaults means the same in both       *)
(* languages: the same lints, the same field table, the same schema hash, so  *)
(* a consumer built from the .proto finds the schema of a Rust-first producer.*)
(* And the erased path, through the field table, records no measurement the   *)
(* typed project_metrics would not.                                           *)
PathsAgree ==
    LET d == Event
        twin == [d EXCEPT !.path = IF @ = "proto" THEN "derive" ELSE "proto"]
    IN  /\ FullyAnnotated(d) =>
              EmitLints(d) = EmitLints(twin) /\ FieldMetas(d) = FieldMetas(twin) /\ HashInput(d) = HashInput(twin)
        /\ \A i \in DOMAIN points : points[i].of \notin {"", "foreign"} /\ ~collide =>
              \E m \in TypedMetrics(d) : m[1] = points[i].name

(* A Parquet batch encodes: what the scrubber let through decodes, and every  *)
(* child of every struct column is given one value per row.  The exception is *)
(* a batch with a payload that holds a field number twice.                    *)
RowsAligned == encoded = "failed" => repeats
=============================================================================
