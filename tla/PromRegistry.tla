---------------------------- MODULE PromRegistry ----------------------------
(* The Prometheus registry (obs-prom): recorders find or create the state of *)
(* a series in a concurrent map and then update it outside the map; a        *)
(* scraper evicts idle series and renders the rest.  Each access to the map  *)
(* or to a state's lock is one step.                                         *)
EXTENDS Naturals, Sequences, FiniteSets, SequencesExt

CONSTANTS
    Recorders,      \* threads in PromSink::deliver
    SeriesKeys,     \* the series keys
    MaxSeries,      \* config.max_series
    MaxCalls        \* bound on the record calls

ASSUME PromAssumption == IsFiniteSet(Recorders) /\ Recorders # {} /\ MaxSeries \in Nat

VARIABLES
    series,         \* DashMap: [SeriesKeys -> index into states, 0: absent]
    states,         \* the SeriesStates created so far: [key, value, idle]
    overCap,        \* Inner::dropped
    evicted,        \* Inner::evicted_idle
    calls,          \* record calls so far
    rec,            \* where each recorder is
    scr,            \* where the scraper is
    shown           \* the value each key had in the last scrape that had it

promVars == <<series, states, overCap, evicted, calls, rec, scr, shown>>

Out == [pc |-> "out"]
Live == {k \in SeriesKeys : series[k] # 0}

PromInit ==
    /\ series = [k \in SeriesKeys |-> 0] /\ states = <<>>
    /\ overCap = 0 /\ evicted = 0 /\ calls = 0
    /\ rec = [r \in Recorders |-> Out] /\ scr = Out
    /\ shown = [k \in SeriesKeys |-> [state |-> 0, value |-> 0]]

(* get_or_insert: an existing state is used ...                              *)
Get(r, k) ==
    /\ rec[r] = Out /\ calls < MaxCalls /\ calls' = calls + 1
    /\ rec' = [rec EXCEPT ![r] = IF series[k] # 0 THEN [pc |-> "update", state |-> series[k]]
                                 ELSE [pc |-> "len", key |-> k]]
    /\ UNCHANGED <<series, states, overCap, evicted, scr, shown>>

(* ... a new one is refused and counted when the map is full ...             *)
CheckNoCap(r) ==
    /\ rec[r].pc = "len"
    /\ rec' = [rec EXCEPT ![r].pc = "insert"] /\ overCap' = overCap
    /\ UNCHANGED <<series, states, evicted, calls, scr, shown>>

CheckCap(r) ==
    /\ rec[r].pc = "len"
    /\ IF Cardinality(Live) >= MaxSeries
       THEN rec' = [rec EXCEPT ![r] = Out] /\ overCap' = overCap + 1
       ELSE rec' = [rec EXCEPT ![r].pc = "insert"] /\ overCap' = overCap
    /\ UNCHANGED <<series, states, evicted, calls, scr, shown>>

(* ... and entry().or_insert_with() keeps a state another thread inserted,   *)
(* while the caller goes on with its own.                                    *)
InsertReplaces(r) ==
    /\ rec[r].pc = "insert"
    /\ states' = Append(states, [key |-> rec[r].key, value |-> 0, idle |-> FALSE])
    /\ series' = [series EXCEPT ![rec[r].key] = Len(states')]
    /\ rec' = [rec EXCEPT ![r] = [pc |-> "update", state |-> Len(states')]]
    /\ UNCHANGED <<overCap, evicted, calls, scr, shown>>

Insert(r) ==
    /\ rec[r].pc = "insert"
    /\ states' = Append(states, [key |-> rec[r].key, value |-> 0, idle |-> FALSE])
    /\ series' = [series EXCEPT ![rec[r].key] = IF @ = 0 THEN Len(states') ELSE @]
    /\ rec' = [rec EXCEPT ![r] = [pc |-> "update", state |-> Len(states')]]
    /\ UNCHANGED <<overCap, evicted, calls, scr, shown>>

(* SeriesState::record_counter adds under one lock and touches under another.*)
Update(r) ==
    /\ rec[r].pc = "update"
    /\ states' = [states EXCEPT ![rec[r].state].value = @ + 1]
    /\ rec' = [rec EXCEPT ![r].pc = "touch"]
    /\ UNCHANGED <<series, overCap, evicted, calls, scr, shown>>

Touch(r) ==
    /\ rec[r].pc = "touch"
    /\ states' = [states EXCEPT ![rec[r].state].idle = FALSE]
    /\ rec' = [rec EXCEPT ![r] = Out]
    /\ UNCHANGED <<series, overCap, evicted, calls, scr, shown>>

(* Time passes idle_ttl since the last touch of a series in the map.         *)
GrowIdle(i) ==
    /\ ~states[i].idle /\ series[states[i].key] = i
    /\ states' = [states EXCEPT ![i].idle = TRUE]
    /\ UNCHANGED <<series, overCap, evicted, calls, rec, scr, shown>>

(* render() lists the idle keys first ...                                    *)
ScanIdle ==
    /\ scr = Out
    /\ scr' = [pc |-> "evict", stale |-> {k \in Live : states[series[k]].idle}]
    /\ UNCHANGED <<series, states, overCap, evicted, calls, rec, shown>>

(* ... removes each without looking again ...                                *)
RemoveStale(k) ==
    /\ scr.pc = "evict" /\ k \in scr.stale
    /\ evicted' = evicted + IF series[k] # 0 THEN 1 ELSE 0
    /\ series' = [series EXCEPT ![k] = 0]
    /\ scr' = [scr EXCEPT !.stale = @ \ {k}]
    /\ UNCHANGED <<states, overCap, calls, rec, shown>>

(* ... and collects the states that are left, to read them one by one.       *)
Collect ==
    /\ scr.pc = "evict" /\ scr.stale = {}
    /\ scr' = IF Live = {} THEN Out ELSE [pc |-> "read", todo |-> {series[k] : k \in Live}]
    /\ UNCHANGED <<series, states, overCap, evicted, calls, rec, shown>>

RenderSeries(i) ==
    /\ scr.pc = "read" /\ i \in scr.todo
    /\ shown' = [shown EXCEPT ![states[i].key] = [state |-> i, value |-> states[i].value]]
    /\ scr' = IF scr.todo = {i} THEN Out ELSE [scr EXCEPT !.todo = @ \ {i}]
    /\ UNCHANGED <<series, states, overCap, evicted, calls, rec>>

PromNext ==
    \/ \E r \in Recorders : \/ \E k \in SeriesKeys : Get(r, k)
                            \/ CheckCap(r) \/ Insert(r) \/ Update(r) \/ Touch(r)
    \/ \E i \in DOMAIN states : GrowIdle(i)
    \/ ScanIdle \/ Collect
    \/ \E k \in SeriesKeys : RemoveStale(k)
    \/ \E i \in DOMAIN states : RenderSeries(i)

-----------------------------------------------------------------------------
(* Callers that passed the cap check and have not inserted yet.              *)
Inserting == {r \in Recorders : rec[r].pc = "insert"}

(* The map holds at most max_series series and one more for each other       *)
(* recorder that can have passed the check at the same time.                 *)
PromCap == Cardinality(Live) + Cardinality(Inserting) <= MaxSeries + Cardinality(Recorders) - 1

(* A counter goes down from one scrape to the next only when its series was  *)
(* evicted in between: two threads that create it together never swap it.    *)
PromMonotone == [][\A k \in SeriesKeys :
    shown'[k].value < shown[k].value =>
        shown'[k].state # shown[k].state /\ evicted > 0]_promVars
=============================================================================
