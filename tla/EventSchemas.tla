---------------------------- MODULE EventSchemas ----------------------------
(* Event declarations and what is computed from them.  An event is declared   *)
(* with #[derive(Event)] or in a .proto file; both paths yield a schema hash, *)
(* a field table, lints and an encoder, and the sinks decode payloads with    *)
(* the field table alone.                                                     *)
(*   declaration: [path, name, prefixed, tier, sev, fields]                   *)
(*   field:       [name, kind, card, class, metric, type, number]             *)
(* An annotation is a word: "" when it is left out, "bogus" when it is not    *)
(* one the path knows.  number = 0 in a derive means none is given.           *)
(*   payload: a function from places, in wire order, to entries               *)
(*   [number, wire, of, marked]; of is the field whose value it is, marked    *)
(*   says that it is a redaction marker.                                      *)
EXTENDS Naturals, Sequences, SequencesExt, FiniteSets

FieldKinds == {"label", "attribute", "measurement", "trace_id", "span_id",
               "parent_span_id", "timestamp_ns", "duration_ns", "forensic"}
Correlations == {"trace_id", "span_id", "parent_span_id"}
TierWords == {"log", "metric", "trace", "audit"}
SeverityWords == {"trace", "debug", "info", "warn", "error", "fatal"}
CardinalityWords == {"low", "medium", "high", "unbounded"}
MetricWords == {"counter", "gauge", "histogram"}
Classified == {"pii", "secret"}
Reserved == {"ts_ns", "service", "instance", "schema_hash", "callsite_id", "sev",
             "tier", "labels", "payload", "sampling_reason"}

Field ==
    [name : STRING, kind : FieldKinds \cup {"", "bogus"}, card : CardinalityWords \cup {"", "bogus"},
     class : Classified \cup {"internal", "", "bogus"}, metric : MetricWords \cup {"", "bogus"},
     type : {"string", "bytes", "u64", "f64", "bool", "secret"}, number : Nat]

(* What rustc and protoc accept: every field has a name of its own, and in a  *)
(* .proto file a number of its own.                                           *)
Declaration(d) ==
    /\ d \in [path : {"derive", "proto"}, name : STRING, prefixed : BOOLEAN, tier : TierWords \cup {"", "bogus"},
              sev : SeverityWords \cup {"", "bogus"}, fields : Seq(Field)]
    /\ \A i, j \in DOMAIN d.fields : i # j =>
         /\ d.fields[i].name # d.fields[j].name
         /\ d.path = "proto" => d.fields[i].number # d.fields[j].number

(* What a decoder of annotations makes of a word.                             *)
Decode(word, known, omitted, unknown) ==
    IF word = "" THEN omitted ELSE IF word \in known THEN word ELSE unknown

-----------------------------------------------------------------------------
(* The proto path: custom options, each with the default of its absence.      *)
DecodeTier(word)     == Decode(word, TierWords, "log", "unspecified")
DecodeSeverity(word) == Decode(word, SeverityWords, "info", "unspecified")
DecodeFieldKind(word) == Decode(word, FieldKinds, "attribute", "unspecified")
DecodeCardinality(word) == Decode(word, CardinalityWords, "unspecified", "unspecified")
DecodeClassification(word) == Decode(word, {"internal"} \cup Classified, "internal", "unspecified")
DecodeMetricKind(word) == Decode(word, MetricWords, "counter", "counter")

(* The derive path: attribute strings.                                        *)
ParseTier(word)           == DecodeTier(word)
ParseFieldKind(word)      == Decode(word, FieldKinds, "attribute", "attribute")
ParseCardinality(word)    == DecodeCardinality(word)
ParseOnlyPii(word) == IF word = "pii" THEN word ELSE "internal"     \* mutant
ParseClassification(word) == IF word \in Classified THEN word ELSE "internal"

Kind(d, f)  == IF d.path = "proto" THEN DecodeFieldKind(f.kind) ELSE ParseFieldKind(f.kind)
Class(d, f) == IF d.path = "proto" THEN DecodeClassification(f.class) ELSE ParseClassification(f.class)
Card(d, f)  == IF d.path = "proto" THEN DecodeCardinality(f.card) ELSE ParseCardinality(f.card)
TierOf(d)   == IF d.path = "proto" THEN DecodeTier(d.tier) ELSE ParseTier(d.tier)
SevOf(d)    == DecodeSeverity(d.sev)

-----------------------------------------------------------------------------
(* Lints, over what the declaration means.                                    *)
MapKindToLintType(type) == CASE type \in {"u64", "f64"} -> "numeric" [] OTHER -> type
FromRustToken(type)     == CASE type \in {"u64", "f64"} -> "numeric" [] type = "secret" -> "other" [] OTHER -> type
LintType(d, f) == IF d.path = "proto" THEN MapKindToLintType(f.type) ELSE FromRustToken(f.type)

IsLabelCompatible(card) == card \in {"low", "medium"}
IsSnakeCase(name) == name # "NotSnake"      \* the one name of the model that is not

BuildLintInput(d) ==
    [prefixed |-> d.prefixed, tier |-> TierOf(d),
     fields |-> [i \in DOMAIN d.fields |-> LET f == d.fields[i] IN
                 [name |-> f.name, kind |-> Kind(d, f), card |-> Card(d, f), class |-> Class(d, f),
                  metric |-> f.metric # "", type |-> LintType(d, f)]]]

CheckEvent(in) == (IF in.prefixed THEN {} ELSE {"L011"}) \cup (IF in.fields = <<>> THEN {"L009"} ELSE {})

CheckPerField(in, f) ==
    {code \in {"L001", "L002", "L003", "L004", "L006", "L007", "L012", "L014"} :
        CASE code = "L001" -> f.kind = "label" /\ ~IsLabelCompatible(f.card)
          [] code = "L002" -> f.kind = "label" /\ f.class = "pii"
          [] code = "L003" -> f.class = "secret" /\ in.tier \in {"log", "audit"}
          [] code = "L004" -> f.kind = "measurement" /\ ~f.metric
          [] code = "L006" -> in.tier = "audit" /\ f.class \in Classified
          [] code = "L007" -> ~IsSnakeCase(f.name)
          [] code = "L012" -> f.kind \notin Correlations /\ f.name \in Reserved
          [] code = "L014" -> f.kind \in Correlations /\ (f.name # f.kind \/ f.type \notin {"string", "other"})}

EmitLints(d) ==
    LET in == BuildLintInput(d)
    IN  CheckEvent(in) \cup UNION {CheckPerField(in, in.fields[i]) : i \in DOMAIN in.fields}

(* L013 sees the events of one codegen unit: hash[d] is the schema hash.      *)
CrossEventLints(unit, hash) ==
    IF \E a, b \in unit : a # b /\ a.path = "proto" /\ b.path = "proto" /\ hash[a] = hash[b]
    THEN {"L013"} ELSE {}

-----------------------------------------------------------------------------
(* What rustc makes of the generated code.                                    *)
Displayable(type) == type \notin {"bytes", "secret"}

(* The setter's parameter must be assignable to the field.                    *)
SetterCompiles(d, f) ==
    LET kind == Kind(d, f) IN
    \/ d.path = "derive"
    \/ kind \in {"measurement", "timestamp_ns", "duration_ns"} /\ f.type \in {"u64", "f64", "bool"}
    \/ kind \in {"label", "attribute", "forensic"}
    \/ kind \in Correlations \cup {"unspecified"} /\ f.type = "string"

ProjectionCompiles(d, f) == Kind(d, f) \in Correlations \cup {"label"} => Displayable(f.type)

(* self.f as u64, or as f64 for a histogram.                                  *)
MetricsCompile(d, f) ==
    Kind(d, f) = "measurement" => f.type \in {"u64", "f64"} \/ (f.type = "bool" /\ f.metric # "histogram")

ContainerCompiles(d) ==
    d.path = "derive" => TierOf(d) # "unspecified" /\ SevOf(d) # "unspecified"

Compiles(d) ==
    /\ ContainerCompiles(d) /\ EmitLints(d) = {}
    /\ \A i \in DOMAIN d.fields : LET f == d.fields[i] IN
          SetterCompiles(d, f) /\ ProjectionCompiles(d, f) /\ MetricsCompile(d, f)

-----------------------------------------------------------------------------
(* The schema: a hash over a canonical text, and the field table.             *)
ProtoHashInput(d) ==
    [name |-> d.name, tier |-> TierOf(d), sev |-> SevOf(d),
     fields |-> [i \in DOMAIN d.fields |-> LET f == d.fields[i] IN
                 <<f.name, DecodeFieldKind(f.kind), DecodeCardinality(f.card), DecodeClassification(f.class)>>]]

(* The derive hashes the words as they are written.                           *)
DeriveHashInput(d) ==
    [name |-> d.name, tier |-> IF d.tier = "" THEN "log" ELSE d.tier,
     sev |-> IF d.sev = "" THEN "info" ELSE d.sev,
     fields |-> [i \in DOMAIN d.fields |-> LET f == d.fields[i] IN <<f.name, f.kind, f.card, f.class>>]]

HashInput(d) == IF d.path = "proto" THEN ProtoHashInput(d) ELSE DeriveHashInput(d)

FieldNumber(d, i) == IF d.path = "derive" /\ d.fields[i].number = 0 THEN i ELSE d.fields[i].number

FieldRolePath(kind) == IF kind = "unspecified" THEN "attribute" ELSE kind

FieldMetas(d) ==
    [i \in DOMAIN d.fields |-> LET f == d.fields[i] IN
        [name |-> f.name, number |-> FieldNumber(d, i), role |-> FieldRolePath(Kind(d, f)),
         card |-> Card(d, f), class |-> Class(d, f)]]

(* The registry: the last schema of a name, the first of a hash.              *)
Lookup(linked, hash, envHash, name) ==
    LET byHash == SelectInSeq(linked, LAMBDA d : hash[d] = envHash)
        byName == SelectLastInSeq(linked, LAMBDA d : d.name = name)
    IN  IF byHash # 0 THEN <<linked[byHash]>> ELSE IF byName # 0 THEN <<linked[byName]>> ELSE <<>>

-----------------------------------------------------------------------------
(* Emission: labels and correlation slots are lifted out of the fields, and   *)
(* the fields that are not the default of their type are encoded.             *)
Wire(type) == CASE type \in {"u64", "bool"} -> "varint" [] type = "f64" -> "fixed" [] OTHER -> "bytes"

Project(d, roles) == {d.fields[i].name : i \in {j \in DOMAIN d.fields : Kind(d, d.fields[j]) \in roles}}

Place(d, i) == IF d.path = "proto" THEN FieldNumber(d, i) ELSE i

EncodePayload(d, set) ==
    [p \in {Place(d, i) : i \in set} |->
        LET i == CHOOSE j \in set : Place(d, j) = p
        IN  [number |-> FieldNumber(d, i), wire |-> Wire(d.fields[i].type), of |-> d.fields[i].name, marked |-> FALSE]]

(* The typed project_metrics, which records every measurement as declared.    *)
TypedMetrics(d) ==
    {<<d.fields[i].name, DecodeMetricKind(d.fields[i].metric)>> :
        i \in {j \in DOMAIN d.fields : Kind(d, d.fields[j]) = "measurement"}}

-----------------------------------------------------------------------------
(* Decoding with a field table.                                               *)
MetaOf(metas, number) ==
    LET i == SelectInSeq(metas, LAMBDA m : m.number = number) IN IF i = 0 THEN <<>> ELSE <<metas[i]>>

IsClassified(metas, e) == LET m == MetaOf(metas, e.number) IN m # <<>> /\ m[1].class \in Classified

(* scrub_payload.  A cut entry, a group or an unknown wire type is an error.  *)
ScrubFailsOnGroups(payload) == \E p \in DOMAIN payload : payload[p].wire = "group"   \* mutant

ScrubFails(payload) == \E p \in DOMAIN payload : payload[p].wire \in {"cut", "group"}

ScrubKeepsNumbers(payload, metas) ==                                          \* mutant
    [p \in DOMAIN payload |->
        [payload[p] EXCEPT !.marked = @ \/ (IsClassified(metas, payload[p]) /\ payload[p].wire = "bytes")]]

ScrubPayload(payload, metas) ==
    LET kept == {p \in DOMAIN payload : ~IsClassified(metas, payload[p]) \/ payload[p].wire = "bytes"}
    IN  [p \in kept |-> [payload[p] EXCEPT !.marked = @ \/ IsClassified(metas, payload[p])]]

(* The decoders read up to a cut entry; they take a group for a zero.         *)
Readable(payload) == {p \in DOMAIN payload : \A c \in DOMAIN payload : payload[c].wire = "cut" => p < c}

DecodeFails(payload) == \E p \in DOMAIN payload : payload[p].wire = "cut"

(* The places of the entries that the field table knows, and their fields.    *)
Declared(payload, metas) == {p \in Readable(payload) : MetaOf(metas, payload[p].number) # <<>>}
MetaAt(payload, metas, p) == MetaOf(metas, payload[p].number)[1]

(* render_json: one value per name, the last entry wins.                      *)
RenderJson(payload, metas) ==
    LET seen == Declared(payload, metas) IN
    {[name |-> MetaAt(payload, metas, p).name, of |-> payload[p].of,
      marked |-> payload[p].marked \/ IsClassified(metas, payload[p])] :
        p \in {q \in seen : \A r \in seen : r > q => payload[r].number # payload[q].number}}

(* project_metrics_default: the wire type decides the kind of the point.      *)
ProjectMetrics(payload, metas) ==
    [p \in {q \in Declared(payload, metas) :
                MetaAt(payload, metas, q).role = "measurement" /\ payload[q].wire # "bytes"} |->
        [name |-> MetaAt(payload, metas, p).name, of |-> payload[p].of,
         kind |-> IF payload[p].wire = "fixed" THEN "gauge" ELSE "counter"]]

-----------------------------------------------------------------------------
(* Arrow: the type of a column is inferred from the role; a value of another  *)
(* type becomes a null.                                                       *)
InferLeafType(m) ==
    CASE m.role = "label" -> IF IsLabelCompatible(m.card) THEN "DictUtf8" ELSE "Utf8"
      [] m.role = "timestamp_ns" -> "TimestampNs"
      [] m.role = "duration_ns" -> "UInt64"
      [] m.role = "measurement" -> IF m.name = "size_bytes" THEN "UInt64" ELSE "Float64"
      [] OTHER -> "Utf8"

AppendValue(leaf, e, role) ==
    CASE e.wire = "bytes" -> IF leaf \in {"Utf8", "DictUtf8"} THEN "value" ELSE "null"
      [] e.wire = "fixed" /\ role \notin {"measurement", "duration_ns", "timestamp_ns"} ->
             IF leaf \in {"Float64", "Int64", "UInt64"} THEN "value" ELSE "null"
      [] OTHER -> IF leaf \in {"Int64", "UInt64", "Float64", "TimestampNs"} THEN "value" ELSE "null"

(* One row of an event's struct column: what each child is given.  A cell     *)
(* has the place of its entry; a null that stands for no entry has the        *)
(* reason it is there.  The children are indexed by name.                     *)
Null(why) == [why |-> why, at |-> 0, to |-> "null", of |-> "", marked |-> FALSE]

DecodeToArrow(payload, metas) ==
    LET seen == Declared(payload, metas)
        Given(m) == {[why |-> "entry", at |-> p, to |-> AppendValue(InferLeafType(m), payload[p], m.role),
                      of |-> payload[p].of, marked |-> payload[p].marked \/ IsClassified(metas, payload[p])] :
                         p \in {q \in seen : MetaAt(payload, metas, q).name = m.name}}
        Unset(m) == IF \E p \in seen : payload[p].number = m.number THEN {} ELSE {Null("unset")}
    IN  [i \in DOMAIN metas |-> Given(metas[i]) \cup Unset(metas[i])]

(* finish_matched_row fills the children no append touched, and a row that    *)
(* does not match gives every child a null.                                   *)
FinishMatchedRow(row) == [i \in DOMAIN row |-> IF row[i] = {} THEN {Null("untouched")} ELSE row[i]]
AppendUnmatched(metas) == [i \in DOMAIN metas |-> {Null("unmatched")}]

(* StructArray::try_new wants children as long as the struct.                 *)
Aligned(rows) == \A r \in DOMAIN rows : \A i \in DOMAIN rows[r] : \E cell \in rows[r][i] : rows[r][i] = {cell}
=============================================================================
