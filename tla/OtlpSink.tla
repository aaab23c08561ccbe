------------------------------ MODULE OtlpSink ------------------------------
(* The OTLP log, metric and trace sinks (obs-otel): a size and age triggered *)
(* batch, the projection of a batch, with the pairing of Started and         *)
(* Completed events for traces, the synchronous export through the debug or  *)
(* the gRPC exporter, and the retry queue that only shutdown() reads.        *)
EXTENDS SinkCalls

CONSTANTS
    Spans,          \* the pairs (trace_id, span_id)
    NoSpan,         \* both ids empty
    SpanOf,         \* [Envs -> Spans \cup {NoSpan}]
    Role,           \* [Envs -> {"paired", "legacy", "plain"}]
    MaxRecords,     \* Batch::max_records
    RetryCap,       \* RetryQueue::capacity
    None            \* no envelope, no payload

ASSUME OtlpAssumption == None \notin Envs /\ SpanOf \in [Envs -> Spans \cup {NoSpan}]

VARIABLES
    signal,         \* which of the three sinks
    exporter,       \* and with which exporter
    items,          \* BatchInner::items
    pending,        \* SpanPairTracker::pending, [Spans -> Envs \cup {None}]
    retry,          \* RetryQueue::inner, a sequence of payloads
    overflow,       \* RetryQueue::dropped
    exported,       \* how often each envelope was exported
    unanswered,     \* envelopes the collector took in a call that then failed
    gone,           \* envelopes that will never be exported, by cause
    oDelivered,     \* envelopes handed to deliver()
    oWork,          \* where each caller is
    quiet           \* a shutdown ran with no other call since it began

oVars == <<signal, exporter, items, pending, retry, overflow, exported, unanswered, gone,
           oDelivered, oWork, quiet>>

(* A connected GrpcOtlpExporter has a runtime of its own and blocks on it,   *)
(* which Tokio allows only outside of any runtime.                           *)
Exporters == {"debug", "grpc", "grpc_in_runtime"}

Causes == {"overflow", "orphan", "replaced", "no_id", "shutdown", "panic"}
Idle == [pc |-> "idle"]
Busy(todo, closing) ==
    [pc |-> "project", todo |-> todo, out |-> {}, closing |-> closing, first |-> FALSE]

OtlpInit ==
    /\ signal \in {"logs", "metrics", "traces"} /\ exporter \in Exporters
    /\ items = <<>> /\ retry = <<>> /\ overflow = 0
    /\ pending = [s \in Spans |-> None]
    /\ exported = [e \in Envs |-> 0] /\ unanswered = {}
    /\ gone = [c \in Causes |-> {}]
    /\ oDelivered = {}
    /\ oWork = [p \in Procs |-> Idle]
    /\ quiet = FALSE

(* Batch::push: the batch leaves when it is full or old; its age is up to   *)
(* the clock.                                                                *)
PushLosesLast(e, aged) ==
    IF Len(items) + 1 >= MaxRecords \/ aged
    THEN [left |-> <<>>, out |-> items]
    ELSE [left |-> Append(items, e), out |-> <<>>]

Push(e, aged) ==
    IF Len(items) + 1 >= MaxRecords \/ aged
    THEN [left |-> <<>>, out |-> Append(items, e)]
    ELSE [left |-> Append(items, e), out |-> <<>>]

Deliver(p, e, aged) ==
    /\ oWork[p] = Idle /\ e \notin oDelivered
    /\ LET b == Push(e, aged) IN
         /\ items' = b.left
         /\ oWork' = [oWork EXCEPT ![p] = IF b.out = <<>> THEN Idle ELSE Busy(b.out, FALSE)]
    /\ oDelivered' = oDelivered \cup {e}
    /\ quiet' = FALSE
    /\ UNCHANGED <<signal, exporter, pending, retry, overflow, exported, unanswered, gone>>

(* flush() and shutdown() take what is buffered; shutdown() then goes on to  *)
(* the retry queue.  An empty batch is not dispatched.                       *)
FlushOtlp(p, closing) ==
    /\ oWork[p] = Idle
    /\ items' = <<>>
    /\ oWork' = [oWork EXCEPT ![p] =
                   IF items # <<>> THEN Busy(items, closing)
                   ELSE IF closing THEN [pc |-> "retry"] ELSE Idle]
    /\ quiet' = (closing /\ \A q \in Procs \ {p} : oWork[q] = Idle)
    /\ UNCHANGED <<signal, exporter, pending, retry, overflow, exported, unanswered, gone, oDelivered>>

(* OtlpTracePayload::from_envelopes asks the tracker for each envelope ...   *)
Classify(p) ==
    /\ oWork[p].pc = "project" /\ signal = "traces" /\ oWork[p].todo # <<>>
    /\ LET e == Head(oWork[p].todo) IN
       oWork' = [oWork EXCEPT
                  ![p].pc = "classified",
                  ![p].first = \/ Role[e] = "legacy"
                               \/ /\ Role[e] = "paired"
                                  /\ SpanOf[e] \in Spans => pending[SpanOf[e]] = None]
    /\ UNCHANGED <<signal, exporter, items, pending, retry, overflow, exported, unanswered, gone, oDelivered, quiet>>

(* ... and, in a second critical section, files it as Started (note_started) *)
(* or turns it into a span with the Started event it finds (pop_started).    *)
NoteStarted(e) ==
    IF SpanOf[e] = NoSpan
    THEN /\ gone' = [gone EXCEPT !["no_id"] = @ \cup {e}] /\ pending' = pending
    ELSE /\ pending' = [pending EXCEPT ![SpanOf[e]] = e]
         /\ gone' = [gone EXCEPT !["replaced"] = @ \cup ({pending[SpanOf[e]]} \ {None})]

ProjectEnvelope(p) ==
    /\ oWork[p].pc = "classified"
    /\ LET e == Head(oWork[p].todo)
           s == SpanOf[e]
           started == IF s \in Spans THEN {pending[s]} \ {None} ELSE {} IN
       IF oWork[p].first
       THEN /\ NoteStarted(e)
            /\ oWork' = [oWork EXCEPT ![p].pc = "project", ![p].todo = Tail(@)]
       ELSE /\ pending' = IF s \in Spans THEN [pending EXCEPT ![s] = None] ELSE pending
            /\ oWork' = [oWork EXCEPT ![p].pc = "project", ![p].todo = Tail(@),
                                      ![p].out = @ \cup {e} \cup started]
            /\ gone' = gone
    /\ UNCHANGED <<signal, exporter, items, retry, overflow, exported, unanswered, oDelivered, quiet>>

(* Logs and metrics map each envelope on its own.                            *)
ProjectBatch(p) ==
    /\ oWork[p].pc = "project" /\ signal # "traces" /\ oWork[p].todo # <<>>
    /\ oWork' = [oWork EXCEPT ![p].todo = <<>>, ![p].out = ToSet(oWork[p].todo)]
    /\ UNCHANGED <<signal, exporter, items, pending, retry, overflow, exported, unanswered, gone, oDelivered, quiet>>

(* collect_orphaned: the Started events that are too old, up to the clock,   *)
(* leave the tracker and are reported.                                       *)
SweepOrphans(p, old) ==
    /\ oWork[p].pc = "project" /\ oWork[p].todo = <<>>
    /\ signal # "traces" => old = {}
    /\ \A s \in old : pending[s] # None
    /\ pending' = [s \in Spans |-> IF s \in old THEN None ELSE pending[s]]
    /\ gone' = [gone EXCEPT !["orphan"] = @ \cup {pending[s] : s \in old}]
    /\ oWork' = [oWork EXCEPT ![p].pc = "export"]
    /\ UNCHANGED <<signal, exporter, items, retry, overflow, exported, unanswered, oDelivered, quiet>>

Sent(S) == exported' = [e \in Envs |-> exported[e] + IF e \in S THEN 1 ELSE 0]

(* After dispatch(): shutdown() reads the retry queue, the others return.    *)
AfterDispatch(p) ==
    oWork' = [oWork EXCEPT ![p] = IF oWork[p].closing THEN [pc |-> "retry"] ELSE Idle]

(* block_on runs the call, unless this thread is already inside a runtime.   *)
Answers == exporter # "grpc_in_runtime"

(* dispatch() exports the payload.                                           *)
ExportOk(p) ==
    /\ oWork[p].pc = "export" /\ Answers
    /\ Sent(oWork[p].out)
    /\ AfterDispatch(p)
    /\ UNCHANGED <<signal, exporter, items, pending, retry, overflow, unanswered, gone, oDelivered, quiet>>

(* RetryQueue::push refuses the newest payload when the queue is full.       *)
RetryPush(out, taken) ==
    IF Len(retry) >= RetryCap
    THEN /\ overflow' = overflow + 1 /\ retry' = retry
         /\ gone' = IF taken THEN gone ELSE [gone EXCEPT !["overflow"] = @ \cup out]
    ELSE /\ retry' = Append(retry, out) /\ UNCHANGED <<overflow, gone>>

(* export_logs, export_metrics or export_traces returns an error; a call     *)
(* over the network may time out after the collector took the payload.       *)
ExportFails(p, taken) ==
    /\ oWork[p].pc = "export" /\ Answers
    /\ taken => exporter = "grpc"
    /\ IF taken THEN Sent(oWork[p].out) /\ unanswered' = unanswered \cup oWork[p].out
       ELSE UNCHANGED <<exported, unanswered>>
    /\ RetryPush(oWork[p].out, taken)
    /\ AfterDispatch(p)
    /\ UNCHANGED <<signal, exporter, items, pending, oDelivered, quiet>>

(* Otherwise block_on panics: the payload unwinds with the caller, and a     *)
(* shutdown() ends there.                                                    *)
ExportPanics(p) ==
    /\ oWork[p].pc \in {"export", "again"} /\ ~Answers
    /\ gone' = [gone EXCEPT !["panic"] = @ \cup oWork[p].out]
    /\ oWork' = [oWork EXCEPT ![p] = Idle]
    /\ quiet' = FALSE
    /\ UNCHANGED <<signal, exporter, items, pending, retry, overflow, exported, unanswered, oDelivered>>

(* shutdown() pops the queue and exports each payload once more, ignoring    *)
(* the result, until the queue is empty.                                     *)
RetryPop(p) ==
    /\ oWork[p].pc = "retry" /\ retry # <<>>
    /\ retry' = Tail(retry)
    /\ oWork' = [oWork EXCEPT ![p] = [pc |-> "again", out |-> Head(retry)]]
    /\ UNCHANGED <<signal, exporter, items, pending, overflow, exported, unanswered, gone, oDelivered, quiet>>

ExportAgain(p, taken) ==
    /\ oWork[p].pc = "again" /\ Answers
    /\ IF taken THEN Sent(oWork[p].out) /\ gone' = gone
       ELSE /\ gone' = [gone EXCEPT !["shutdown"] = @ \cup (oWork[p].out \ unanswered)]
            /\ exported' = exported
    /\ oWork' = [oWork EXCEPT ![p] = [pc |-> "retry"]]
    /\ UNCHANGED <<signal, exporter, items, pending, retry, overflow, unanswered, oDelivered, quiet>>

RetryEmpty(p) ==
    /\ oWork[p].pc = "retry" /\ retry = <<>>
    /\ oWork' = [oWork EXCEPT ![p] = Idle]
    /\ UNCHANGED <<signal, exporter, items, pending, retry, overflow, exported, unanswered, gone,
                   oDelivered, quiet>>

OtlpNext == \E p \in Procs :
    \/ \E e \in Envs, aged \in BOOLEAN : Deliver(p, e, aged)
    \/ \E closing \in BOOLEAN : FlushOtlp(p, closing)
    \/ Classify(p) \/ ProjectEnvelope(p) \/ ProjectBatch(p)
    \/ \E old \in SUBSET Spans : SweepOrphans(p, old)
    \/ ExportOk(p) \/ ExportPanics(p) \/ RetryPop(p) \/ RetryEmpty(p)
    \/ \E taken \in BOOLEAN : ExportFails(p, taken) \/ ExportAgain(p, taken)

-----------------------------------------------------------------------------
(* The refinement mapping to DeliveryLedger.                                 *)
OtlpLedger == [e \in Envs |->
    IF e \notin oDelivered THEN "new"
    ELSE IF exported[e] > 0 THEN "sent"
    ELSE IF \E c \in Causes : e \in gone[c] THEN "lost" ELSE "held"]

(* The places an undecided envelope can be in.                               *)
OtlpHeld(e) ==
    \/ e \in ToSet(items) \/ \E s \in Spans : pending[s] = e
    \/ \E i \in 1..Len(retry) : e \in retry[i]
    \/ \E p \in Procs : \/ oWork[p].pc \in {"project", "classified", "export"}
                             /\ e \in ToSet(oWork[p].todo) \cup oWork[p].out
                        \/ oWork[p].pc = "again" /\ e \in oWork[p].out

(* No envelope vanishes: what was delivered and is neither exported nor      *)
(* given up is still in the batch, in a call, in the tracker or in the queue.*)
OtlpTracked == \A e \in Envs : OtlpLedger[e] = "held" => OtlpHeld(e)

(* No envelope is exported twice, unless the answer to the first export was  *)
(* lost, and none that was given up is exported.                             *)
OtlpOnce == \A e \in Envs :
    exported[e] + Cardinality({c \in Causes : e \in gone[c]})
      <= IF e \in unanswered THEN 2 ELSE 1

(* A shutdown that no other call overlapped leaves neither a batch nor a     *)
(* payload behind (a Started event may stay in the tracker for ever).        *)
OtlpEmptied ==
    quiet /\ (\A p \in Procs : oWork[p] = Idle) => items = <<>> /\ retry = <<>>
=============================================================================
