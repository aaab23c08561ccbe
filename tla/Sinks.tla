--------------------------------- MODULE Sinks --------------------------------
(* The sinks behind the tier workers: the OTLP, ClickHouse and Parquet export *)
(* sinks, the Prometheus and live-tail registries, and the rolling and the    *)
(* non-blocking writer.  A behaviour is of one of them.                       *)
EXTENDS OtlpSink, ClickHouseSink, ParquetSink, PromRegistry, LiveTail,
        RollingWriter, NonBlockingWriter

CONSTANT Parts      \* the sinks of this instance

VARIABLE sink       \* the one that is under way

exportVars == <<oVars, cVars, pVars>>
vars == <<sink, exportVars, promVars, tailVars, rollVars, nbVars>>

(* The parts that are not under way stay in one of their initial states. *)
Init ==
    /\ sink \in Parts
    /\ OtlpInit /\ ClickHouseInit /\ ParquetInit /\ PromInit /\ TailInit /\ RollInit /\ NbInit
    /\ signal = "metrics" => exporter = "debug"     \* dispatched like logs
    /\ sink # "otlp" => signal = "logs" /\ exporter = "debug"
    /\ sink # "clickhouse" => ~runtime
    /\ sink # "rolling" => cfg.policy = "Never"

Next ==
    \/ sink = "otlp" /\ OtlpNext
         /\ UNCHANGED <<sink, cVars, pVars, promVars, tailVars, rollVars, nbVars>>
    \/ sink = "clickhouse" /\ ClickHouseNext
         /\ UNCHANGED <<sink, oVars, pVars, promVars, tailVars, rollVars, nbVars>>
    \/ sink = "parquet" /\ ParquetNext
         /\ UNCHANGED <<sink, oVars, cVars, promVars, tailVars, rollVars, nbVars>>
    \/ sink = "prom" /\ PromNext /\ UNCHANGED <<sink, exportVars, tailVars, rollVars, nbVars>>
    \/ sink = "tail" /\ TailNext /\ UNCHANGED <<sink, exportVars, promVars, rollVars, nbVars>>
    \/ sink = "rolling" /\ RollNext /\ UNCHANGED <<sink, exportVars, promVars, tailVars, nbVars>>
    \/ sink = "nonblocking" /\ NbNext
         /\ UNCHANGED <<sink, exportVars, promVars, tailVars, rollVars>>

Spec == Init /\ [][Next]_vars

(* The writer thread is scheduled, and recv_timeout's timer fires. *)
FairSpec ==
    /\ Spec
    /\ WF_vars(sink = "nonblocking" /\ WriterThread
               /\ UNCHANGED <<sink, exportVars, promVars, tailVars, rollVars>>)

Ledger == INSTANCE DeliveryLedger WITH
    ledger <- IF sink = "otlp" THEN OtlpLedger
              ELSE IF sink = "clickhouse" THEN ClickHouseLedger ELSE ParquetLedger

(* deliver(), the rolls, exports, retries, give-ups and crashes of each sink   *)
(* implement DeliveryLedger: an envelope is held until it is exported or given *)
(* up, and an export or a loss is never undone.                                *)
LedgerHolds == Ledger!Spec

(* An envelope that was neither exported nor given up can still be found: in   *)
(* the batch or partition buffer, in a call, in the pair tracker or the queue. *)
Tracked == OtlpTracked /\ ClickHouseTracked /\ ParquetTracked

(* Nothing is exported twice, in whatever order deliver(), flush(), shutdown(),*)
(* retries and crashes come; only a ClickHouse INSERT whose answer was lost    *)
(* stores its rows again.                                                      *)
ExportedOnce == OtlpOnce /\ ClickHouseOnce /\ ParquetOnce

(* What the sinks leave behind is what they say: a shutdown no call overlapped *)
(* empties batch and retry queue, a partition over its roll size is being      *)
(* rolled or its last roll failed, and drop_count() counts the abandoned rows. *)
NothingLeft == OtlpEmptied /\ ParquetRolls /\ ClickHouseCounts

(* The caps of the Prometheus registry and of the live-tail registry are       *)
(* exceeded by no more than the callers that passed the check together.        *)
CapsHold == PromCap /\ TailCaps
===============================================================================
