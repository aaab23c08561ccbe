---------------------------- MODULE TracingBridge -----------------------------
(* The bridge between tracing and obs, both directions installed together: *)
(* TracingToObsLayer lifts tracing events and spans into envelopes         *)
(* (direction_a.rs), ObsToTracingSink dispatches envelopes as tracing      *)
(* events (direction_b.rs), with callsite interning (interning.rs), field  *)
(* promotion and redaction.                                                *)
(*                                                                         *)
(* Each thread has a stack of calls: an emit of the application, the       *)
(* layer's on_event, the sink's deliver.  IN_TRACING_BRIDGE and CAN_ENTER  *)
(* are cells of the thread, the registry, the promotions and the queue of  *)
(* the LOG worker are shared.                                              *)
EXTENDS Integers, Sequences, FiniteSets, SequencesExt

CONSTANTS
    Thread,        \* application threads
    Worker,        \* the thread that runs the LOG tier worker
    Site,          \* tracing callsites
    Span,          \* tracing spans
    Value,         \* values of the promoted field
    Modes,         \* how the two directions are set up, and what the application does
    RefreshCount,  \* DEFAULT_REFRESH_EVENT_COUNT
    PromoteCap,    \* cap_for the promoted field's cardinality
    MaxHops,       \* bound on how often an event may cross the bridge
    MaxEntered     \* bound on the entries into spans that a thread has open

ASSUME BridgeAssumption ==
    /\ Worker \notin Thread /\ IsFiniteSet(Thread) /\ Site # {}
    /\ "none" \notin Thread \union {Worker} \union Span /\ {"none", "prewarm"} \cap Site = {}
    /\ RefreshCount \in Nat \ {0} /\ PromoteCap \in Nat \ {0}
    /\ MaxHops \in Nat
    /\ Modes \subseteq [dynamic : BOOLEAN, queued : BOOLEAN, interning : BOOLEAN, prewarm : BOOLEAN,
                        spans : {"Off", "Both", "Suppressed"},
                        does : SUBSET {"native", "trace", "promote", "typed", "pii", "span"}, ops : Nat]

VARIABLES
    mode,          \* the set-up chosen
    calls,         \* calls in progress, per thread, innermost last
    in_bridge,     \* IN_TRACING_BRIDGE
    can_enter,     \* CAN_ENTER
    lock,          \* StandardObserver::sync_dispatch_lock: its holder, or none
    queue,         \* the LOG worker's channel
    registry,      \* ObsCallsiteRegistry: events_since_refresh of the callsites known
    warmed,        \* PREWARM_DONE
    old,           \* callsites registered longer ago than the refresh interval
    promotion,     \* FieldPromotions: samples and overflowed
    seen,          \* fields the redactor has reported
    ctx,           \* BridgedSpanCtx in the extensions of the spans
    closed,        \* spans closed
    entered,       \* entries into spans open on a thread, latest last
    frames,        \* scope frames on a thread, innermost last
    crossed,       \* ghost: a span was exited before one entered after it
    ops,           \* ghost: operations of the application so far
    sent,          \* ghost: envelopes handed to the observer
    since,         \* ghost: interned envelopes since the last registration that went out
    missed         \* ghost: registrations that did not go out since

vars == <<mode, calls, in_bridge, can_enter, lock, queue, registry, warmed, old, promotion,
          seen, ctx, closed, entered, frames, crossed, ops, sent, since, missed>>
spanVars == <<ctx, closed, entered, frames, crossed>>
tables == <<registry, promotion, seen, warmed>>
ledger == <<sent, since, missed>>

AnyThread == Thread \union {Worker}
None == "none"
Given == "given"

(* BridgedSpanCtx: the trace, the span and its parent. *)
NoCtx == [trace |-> None, id |-> None, parent |-> None]

(* An envelope: what it is, the callsite it is interned under, its         *)
(* correlation, the promoted label, and how often it crossed the bridge.   *)
(* Ghosts: the span it was made in, and whether the thread's spans were    *)
(* nested then.                                                            *)
Envelope(kind, hops) ==
    [kind |-> kind, site |-> None, ctx |-> NoCtx, at |-> None, nested |-> TRUE, label |-> None, hops |-> hops]

BridgeInit ==
    /\ mode \in Modes
    /\ calls = [t \in AnyThread |-> <<>>]
    /\ in_bridge = [t \in AnyThread |-> FALSE]
    /\ can_enter = [t \in AnyThread |-> TRUE]
    /\ lock = None
    /\ queue = <<>>
    /\ registry = <<>>
    /\ warmed = FALSE
    /\ old = {}
    /\ promotion = [samples |-> {}, overflowed |-> FALSE]
    /\ seen = FALSE
    /\ ctx = <<>>
    /\ closed = {}
    /\ entered = [t \in AnyThread |-> <<>>]
    /\ frames = [t \in AnyThread |-> <<>>]
    /\ crossed = [t \in AnyThread |-> FALSE]
    /\ ops = 0
    /\ sent = {}
    /\ since = [s \in Site |-> 0]
    /\ missed = [s \in Site |-> 0]

-------------------------------------------------------------------------------
(* The call stack of a thread.                                             *)

Top(t) == Last(calls[t])
At(t, fn, at) == calls[t] # <<>> /\ Top(t).fn = fn /\ Top(t).at = at

Goto(cs, at) == [cs EXCEPT ![Len(cs)].at = at]
Stepped(t, at) == calls' = [calls EXCEPT ![t] = Goto(@, at)]
Returned(t) == calls' = [calls EXCEPT ![t] = Front(@)]

(* A field the envelope has, or that of the innermost frame that has one. *)
Inherited(own, values) ==
    LET set == {i \in DOMAIN values : values[i] # None}
    IN IF own # None \/ set = {} THEN own ELSE values[Max(set)]

(* auto_fill_envelope: field by field, from all the frames of the thread.  *)
Fill(t, env) ==
    LET fs == frames[t]
    IN [env EXCEPT !.ctx =
          [trace |-> Inherited(env.ctx.trace, [i \in DOMAIN fs |-> fs[i].trace]),
           id |-> Inherited(env.ctx.id, [i \in DOMAIN fs |-> fs[i].id]),
           parent |-> Inherited(env.ctx.parent, [i \in DOMAIN fs |-> fs[i].parent])]]

(* Ghosts: what a consumer that reads only what goes out knows of the      *)
(* callsite of an envelope.                                                *)
IsRegistration(env) == env.kind = "registered" /\ env.site \in Site
Counted(env, out) ==
    CASE IsRegistration(env) /\ out -> [since EXCEPT ![env.site] = 0]
      [] env.kind = "event" /\ env.site # None -> [since EXCEPT ![env.site] = @ + 1]
      [] OTHER -> since
Missed(env, out) ==
    IF IsRegistration(env) THEN [missed EXCEPT ![env.site] = IF out THEN 0 ELSE @ + 1] ELSE missed

(* try_send: into the LOG worker's channel. *)
Queued(t, env, cs) ==
    /\ mode.queued
    /\ queue' = Append(queue, env)
    /\ calls' = [calls EXCEPT ![t] = cs]
    /\ UNCHANGED lock

(* Without workers the envelope is delivered on this thread under the      *)
(* lock, so the thread waits while the lock is held, by itself too.        *)
DispatchedInline(t, env, cs) ==
    /\ ~mode.queued
    /\ lock = None
    /\ lock' = t
    /\ calls' = [calls EXCEPT ![t] = Append(cs, [fn |-> "deliver", at |-> "start", env |-> env])]
    /\ UNCHANGED queue

(* The limits, the filter or the sampler drop the envelope, or the channel *)
(* is full.                                                                *)
Swallowed(t, cs) ==
    /\ calls' = [calls EXCEPT ![t] = cs]
    /\ UNCHANGED <<queue, lock>>

(* observer().emit_envelope(env), after which the caller is at next.       *)
(* Inside a guarded emit the observer is the NoopObserver.                 *)
Emit(t, env, next) ==
    LET filled == Fill(t, env)
        cs == Goto(calls[t], next)
    IN \E out \in BOOLEAN :
         /\ out => can_enter[t] /\ (Queued(t, filled, cs) \/ DispatchedInline(t, filled, cs))
         /\ ~out => Swallowed(t, cs)
         /\ sent' = IF can_enter[t] THEN sent \union {filled} ELSE sent
         /\ since' = Counted(env, out)
         /\ missed' = Missed(env, out)

-------------------------------------------------------------------------------
(* The application.                                                        *)

Free(t) == calls[t] = <<>> /\ ops < mode.ops

(* A native event: through enter_emit_envelope, which takes the re-entry   *)
(* guard, or straight through observer().emit_envelope (forensic!, the     *)
(* HTTP layers, self-events).                                              *)
Native(t, guarded) ==
    /\ "native" \in mode.does /\ Free(t)
    /\ ops' = ops + 1
    /\ calls' = [calls EXCEPT ![t] = <<[fn |-> "emit", at |-> "start", guarded |-> guarded]>>]
    /\ UNCHANGED <<mode, in_bridge, can_enter, lock, queue, tables, old, spanVars, ledger>>

StartEmit(t) ==
    /\ At(t, "emit", "start")
    /\ Emit(t, [Envelope("native", 0) EXCEPT !.at = IF entered[t] = <<>> THEN None ELSE Last(entered[t]),
                                              !.nested = ~crossed[t]],
            IF Top(t).guarded THEN "guarded" ELSE "end")
    /\ can_enter' = [can_enter EXCEPT ![t] = ~Top(t).guarded]
    /\ UNCHANGED <<mode, in_bridge, tables, old, spanVars, ops>>

EndEmit(t) ==
    /\ calls[t] # <<>> /\ Top(t).fn = "emit" /\ Top(t).at \in {"guarded", "end"}
    /\ Returned(t)
    /\ can_enter' = [can_enter EXCEPT ![t] = TRUE]
    /\ UNCHANGED <<mode, in_bridge, lock, queue, tables, old, spanVars, ops, ledger>>

(* A call of the layer for an event of a callsite.  A tracing event the    *)
(* sink dispatched carries its crossings.                                  *)
EventCall(s, v, target, hops) ==
    [fn |-> "on_event", at |-> "start", site |-> s, value |-> v, target |-> target,
     env |-> Envelope("event", hops), stale |-> FALSE]

(* tracing::event! with a promoted field, on a thread of the application.  *)
Trace(t, s, v) ==
    /\ "trace" \in mode.does /\ Free(t)
    /\ ops' = ops + 1
    /\ calls' = [calls EXCEPT ![t] = <<EventCall(s, v, "app", 0)>>]
    /\ UNCHANGED <<mode, in_bridge, can_enter, lock, queue, tables, old, spanVars, ledger>>

-------------------------------------------------------------------------------
(* Direction A: TracingToObsLayer.                                         *)

(* Mutant of Skips: neither the reserved target nor the cell is looked at. *)
SkipsNothing(t, call) == FALSE

(* on_event returns at once for the reserved target, and when this thread  *)
(* is already lifting an event.                                            *)
Skips(t, call) == call.target = "obs.bridge" \/ in_bridge[t]

OnEvent(t) ==
    /\ At(t, "on_event", "start")
    /\ IF Skips(t, Top(t))
         THEN Returned(t) /\ UNCHANGED in_bridge
         ELSE /\ Stepped(t, IF mode.prewarm THEN "warm" ELSE "record")
              /\ in_bridge' = [in_bridge EXCEPT ![t] = TRUE]
    /\ UNCHANGED <<mode, can_enter, lock, queue, tables, old, spanVars, ops, ledger>>

(* The EnvFilter of with_filter does not enable the event. *)
Filtered(t) ==
    /\ At(t, "on_event", "start")
    /\ Top(t).target = "app"
    /\ Returned(t)
    /\ UNCHANGED <<mode, in_bridge, can_enter, lock, queue, tables, old, spanVars, ops, ledger>>

(* PREWARM_CALLSITES.  Their ids hash a crate name and no line, so they are *)
(* the ids of no callsite the application has.                             *)
PrewarmCallsites == {"prewarm"}

(* The first event lifted in the process registers the well-known callsites. *)
Prewarm(t) ==
    /\ At(t, "on_event", "warm")
    /\ IF warmed
         THEN Stepped(t, "record") /\ UNCHANGED <<registry, warmed, lock, queue, ledger>>
         ELSE \E s \in PrewarmCallsites :
                /\ registry' = [x \in DOMAIN registry \union PrewarmCallsites |->
                                   IF x = s THEN 0 ELSE registry[x]]
                /\ warmed' = TRUE
                /\ Emit(t, [Envelope("registered", Top(t).env.hops) EXCEPT !.site = s], "record")
    /\ UNCHANGED <<mode, in_bridge, can_enter, promotion, seen, old, spanVars, ops>>

(* FieldPromotions::admit_with_target. *)
Admitted(v) ==
    ~promotion.overflowed /\ (v \in promotion.samples \/ Cardinality(promotion.samples) < PromoteCap)

(* The current span of the tracing registry: the one entered last that was *)
(* not entered already.                                                    *)
CurrentSpan(t) ==
    LET es == entered[t]
    IN IF es = <<>> THEN None
       ELSE es[Max({i \in DOMAIN es : \A j \in DOMAIN es : j < i => es[j] # es[i]})]

(* collect_span_context: the innermost span the event is in. *)
SpanCtx(t) == IF entered[t] = <<>> THEN NoCtx ELSE ctx[CurrentSpan(t)]

(* The value that crosses the cap closes the field for good and is         *)
(* reported once, from inside the layer.                                   *)
Overflow(t) ==
    /\ At(t, "on_event", "record")
    /\ Top(t).value # None /\ ~promotion.overflowed /\ ~Admitted(Top(t).value)
    /\ promotion' = [promotion EXCEPT !.overflowed = TRUE]
    /\ Emit(t, Envelope("cardinality_high", 0), "record")
    /\ UNCHANGED <<mode, in_bridge, can_enter, registry, seen, warmed, old, spanVars, ops>>

(* pick_typed: the first typed promoter whose matcher takes the callsite;  *)
(* which callsites those are is a choice of the application.               *)
PickTyped(typed) == typed => "typed" \in mode.does

(* record_to_envelope up to interning: the correlation of the span, the    *)
(* promoted label when the allowlist admits the value.  A callsite a typed *)
(* promoter takes skips promotion and interning.                           *)
Record(t, typed) ==
    /\ PickTyped(typed)
    /\ At(t, "on_event", "record")
    /\ typed \/ Top(t).value = None \/ Admitted(Top(t).value) \/ promotion.overflowed
    /\ LET v == Top(t).value
           env == [Top(t).env EXCEPT !.ctx = SpanCtx(t),
                       !.at = CurrentSpan(t),
                       !.label = IF ~typed /\ v # None /\ Admitted(v) THEN v ELSE None]
       IN /\ calls' = [calls EXCEPT ![t][Len(calls[t])] =
                         [@ EXCEPT !.env = env, !.at = IF mode.interning /\ ~typed THEN "intern" ELSE "emit"]]
          /\ promotion' = IF typed \/ v = None \/ ~Admitted(v) THEN promotion
                          ELSE [promotion EXCEPT !.samples = @ \union {v}]
    /\ UNCHANGED <<mode, in_bridge, can_enter, lock, queue, registry, seen, warmed, old, spanVars, ops, ledger>>

(* The default redactor reports a suspicious field name once, from inside  *)
(* the layer.                                                              *)
Redact(t) ==
    /\ "pii" \in mode.does
    /\ At(t, "on_event", "record")
    /\ ~seen
    /\ seen' = TRUE
    /\ Emit(t, Envelope("pii_suspected", 0), "record")
    /\ UNCHANGED <<mode, in_bridge, can_enter, registry, promotion, warmed, old, spanVars, ops>>

(* Mutant of Refreshes: only the age of the registration counts. *)
RefreshesByAge(s, count) == s \in old

(* The registration of a callsite is due again. *)
Refreshes(s, count) == count >= RefreshCount \/ s \in old

(* intern_or_lookup: insert_if_absent, or observe the known record. *)
Intern(t) ==
    /\ At(t, "on_event", "intern")
    /\ LET s == Top(t).site
           known == s \in DOMAIN registry
           count == IF known THEN registry[s] + 1 ELSE 0
           due == ~known \/ Refreshes(s, count)
       IN /\ registry' = [x \in DOMAIN registry \union {s} |-> IF x = s THEN count ELSE registry[x]]
          /\ calls' = [calls EXCEPT ![t][Len(calls[t])] =
                 [@ EXCEPT !.env.site = s, !.stale = known,
                           !.at = IF due THEN "register" ELSE "emit"]]
    /\ UNCHANGED <<mode, in_bridge, can_enter, lock, queue, promotion, seen, warmed, old, spanVars, ops, ledger>>

(* emit_registered. *)
Register(t) ==
    /\ At(t, "on_event", "register")
    /\ Emit(t, [Envelope("registered", Top(t).env.hops) EXCEPT !.site = Top(t).site],
            IF Top(t).stale THEN "reset" ELSE "emit")
    /\ UNCHANGED <<mode, in_bridge, can_enter, tables, old, spanVars, ops>>

(* reset_count after a refresh. *)
ResetCount(t) ==
    /\ At(t, "on_event", "reset")
    /\ registry' = [registry EXCEPT ![Top(t).site] = 0]
    /\ Stepped(t, "emit")
    /\ UNCHANGED <<mode, in_bridge, can_enter, lock, queue, promotion, seen, warmed, old, spanVars, ops, ledger>>

(* The refresh interval passes.  registered_ns is never written again. *)
Age(s) ==
    /\ s \in DOMAIN registry /\ s \notin old
    /\ old' = old \union {s}
    /\ UNCHANGED <<mode, calls, in_bridge, can_enter, lock, queue, tables, spanVars, ops, ledger>>

EmitBridged(t) ==
    /\ At(t, "on_event", "emit")
    /\ Emit(t, Top(t).env, "leave")
    /\ UNCHANGED <<mode, in_bridge, can_enter, tables, old, spanVars, ops>>

Leave(t) ==
    /\ At(t, "on_event", "leave")
    /\ in_bridge' = [in_bridge EXCEPT ![t] = FALSE]
    /\ Returned(t)
    /\ UNCHANGED <<mode, can_enter, lock, queue, tables, old, spanVars, ops, ledger>>

-------------------------------------------------------------------------------
(* Spans.  Ids are the spans themselves, a trace is named by its root or   *)
(* given by the application.                                               *)

(* An envelope about a span is emitted with the cell set. *)
SpanCall(sp, kind, c) ==
    <<[fn |-> "on_event", at |-> "emit", site |-> None, value |-> None, target |-> "app", stale |-> FALSE,
       env |-> [Envelope(kind, 0) EXCEPT !.ctx = c, !.at = sp]]>>

(* on_new_span: the trace of the current span, or a fresh one. *)
TraceOf(t, sp) == IF entered[t] = <<>> THEN sp ELSE ctx[CurrentSpan(t)].trace

(* A span may set its trace_id itself, with a field of that name. *)
OnNewSpan(t, sp, given) ==
    /\ "span" \in mode.does /\ Free(t) /\ sp \notin DOMAIN ctx
    /\ ops' = ops + 1
    /\ LET c == [trace |-> IF given THEN Given ELSE TraceOf(t, sp), id |-> sp,
                 parent |-> IF entered[t] = <<>> THEN None ELSE ctx[CurrentSpan(t)].id]
       IN /\ ctx' = [x \in DOMAIN ctx \union {sp} |-> IF x = sp THEN c ELSE ctx[x]]
          /\ IF mode.spans = "Both"
               THEN /\ calls' = [calls EXCEPT ![t] = SpanCall(sp, "span_entered", c)]
                    /\ in_bridge' = [in_bridge EXCEPT ![t] = TRUE]
               ELSE UNCHANGED <<calls, in_bridge>>
    /\ UNCHANGED <<mode, can_enter, lock, queue, tables, old, closed, entered, frames, crossed, ledger>>

(* A span may be entered again, on the same or another thread. *)
OnEnter(t, sp) ==
    /\ Free(t) /\ sp \in DOMAIN ctx \ closed
    /\ Len(entered[t]) < MaxEntered
    /\ entered' = [entered EXCEPT ![t] = Append(@, sp)]
    /\ frames' = [frames EXCEPT ![t] = Append(@, ctx[sp])]
    /\ UNCHANGED <<mode, calls, in_bridge, can_enter, lock, queue, tables, old, ctx, closed, crossed, ops, ledger>>

(* Mutant of PopFrame: the frame stays. *)
PopFrameNot(fs) == fs

PopFrame(fs) == Front(fs)

(* on_exit of the span that entry i is of, which the registry takes for    *)
(* the latest into that span.  The layer pops the frame on top, whichever  *)
(* span exits.                                                             *)
OnExit(t, i) ==
    LET es == entered[t]
    IN /\ Free(t) /\ i \in DOMAIN es
       /\ \A j \in DOMAIN es : j > i => es[j] # es[i]
       /\ entered' = [entered EXCEPT ![t] = RemoveAt(es, i)]
       /\ frames' = [frames EXCEPT ![t] = PopFrame(@)]
       /\ crossed' = [crossed EXCEPT ![t] = Len(es) # 1 /\ (@ \/ i # Len(es))]
       /\ UNCHANGED <<mode, calls, in_bridge, can_enter, lock, queue, tables, old, ctx, closed, ops, ledger>>

(* The last handle of a span goes that is not entered and has no open      *)
(* child.                                                                  *)
OnClose(t, sp) ==
    /\ Free(t) /\ sp \in DOMAIN ctx \ closed
    /\ \A u \in AnyThread : ~Contains(entered[u], sp)
    /\ \A child \in DOMAIN ctx \ closed : ctx[child].parent # sp
    /\ closed' = closed \union {sp}
    /\ ops' = ops + 1
    /\ IF mode.spans # "Suppressed"
         THEN /\ calls' = [calls EXCEPT ![t] = SpanCall(sp, "span_completed", ctx[sp])]
              /\ in_bridge' = [in_bridge EXCEPT ![t] = TRUE]
         ELSE UNCHANGED <<calls, in_bridge>>
    /\ UNCHANGED <<mode, can_enter, lock, queue, tables, old, ctx, entered, frames, crossed, ledger>>

-------------------------------------------------------------------------------
(* Direction B: ObsToTracingSink, behind the LOG worker or inline.         *)

WorkerReceives ==
    /\ calls[Worker] = <<>> /\ queue # <<>>
    /\ calls' = [calls EXCEPT ![Worker] = <<[fn |-> "deliver", at |-> "start", env |-> Head(queue)]>>]
    /\ queue' = Tail(queue)
    /\ UNCHANGED <<mode, in_bridge, can_enter, lock, tables, old, spanVars, ops, ledger>>

(* deliver returns at once inside a lift of this thread. *)
Deliver(t) ==
    /\ At(t, "deliver", "start")
    /\ Stepped(t, IF in_bridge[t] THEN "end" ELSE "resolve")
    /\ UNCHANGED <<mode, in_bridge, can_enter, lock, queue, tables, old, spanVars, ops, ledger>>

(* An interned envelope whose callsite the registry does not know is       *)
(* reported, under the unknown id.                                         *)
Unresolved(env) == env.site # None /\ env.site \notin DOMAIN registry

Resolve(t) ==
    /\ At(t, "deliver", "resolve")
    /\ IF Unresolved(Top(t).env)
         THEN Emit(t, [Envelope("unresolved", 0) EXCEPT !.site = Top(t).env.site], "dispatch")
         ELSE Stepped(t, "dispatch") /\ UNCHANGED <<queue, lock, ledger>>
    /\ UNCHANGED <<mode, in_bridge, can_enter, tables, old, spanVars, ops>>

(* The target of what is dispatched: the event's full name, from           *)
(* synthetic_metadata, or the reserved one, from bridge_metadata.          *)
SyntheticMetadata == "event_name"
BridgeMetadata == "obs.bridge"
DispatchTarget == IF mode.dynamic THEN SyntheticMetadata ELSE BridgeMetadata

(* The event reaches the layer like any other tracing event. *)
Dispatch(t) ==
    /\ At(t, "deliver", "dispatch")
    /\ Top(t).env.hops < MaxHops
    /\ LET s == CHOOSE s \in Site : TRUE
       IN calls' = [calls EXCEPT ![t] = Append(Goto(@, "end"),
                     EventCall(s, None, DispatchTarget, Top(t).env.hops + 1))]
    /\ UNCHANGED <<mode, in_bridge, can_enter, lock, queue, tables, old, spanVars, ops, ledger>>

(* The dispatcher does not enable the event, or the bound on crossings is reached. *)
NotEnabled(t) ==
    /\ At(t, "deliver", "dispatch")
    /\ Stepped(t, "end")
    /\ UNCHANGED <<mode, in_bridge, can_enter, lock, queue, tables, old, spanVars, ops, ledger>>

EndDeliver(t) ==
    /\ At(t, "deliver", "end")
    /\ Returned(t)
    /\ lock' = IF lock = t THEN None ELSE lock
    /\ UNCHANGED <<mode, in_bridge, can_enter, queue, tables, old, spanVars, ops, ledger>>

BridgeNext ==
    \/ \E t \in AnyThread :
         \/ StartEmit(t) \/ EndEmit(t)
         \/ OnEvent(t) \/ Filtered(t) \/ Prewarm(t) \/ Redact(t) \/ Overflow(t) \/ \E typed \in BOOLEAN : Record(t, typed)
         \/ Intern(t) \/ Register(t) \/ ResetCount(t) \/ EmitBridged(t) \/ Leave(t)
         \/ Deliver(t) \/ Resolve(t) \/ Dispatch(t) \/ NotEnabled(t) \/ EndDeliver(t)
    \/ \E t \in Thread :
         \/ \E g \in BOOLEAN : Native(t, g)
         \/ \E s \in Site, v \in IF "promote" \in mode.does THEN Value ELSE {None} : Trace(t, s, v)
         \/ \E i \in DOMAIN entered[t] : OnExit(t, i)
         \/ \E sp \in Span : OnEnter(t, sp) \/ OnClose(t, sp) \/ \E given \in BOOLEAN : OnNewSpan(t, sp, given)
    \/ \E s \in Site : Age(s)
    \/ WorkerReceives

BridgeSpec == BridgeInit /\ [][BridgeNext]_vars

-------------------------------------------------------------------------------
(* Properties.                                                             *)

(* A thread waits for the lock it holds: sync_dispatch_lock is not re-entrant. *)
SelfDeadlocked(t) ==
    /\ lock = t
    /\ can_enter[t]
    /\ calls[t] # <<>>
    /\ \/ Top(t).fn = "on_event" /\ Top(t).at \in {"register", "emit"}
       \/ Top(t).fn = "on_event" /\ Top(t).at = "warm" /\ ~warmed
       \/ Top(t).fn = "deliver" /\ Top(t).at = "resolve" /\ Unresolved(Top(t).env)

(* Nothing crosses the bridge and comes back: no envelope is made from a   *)
(* tracing event that ObsToTracingSink dispatched, and no thread blocks on *)
(* itself in the attempt.                                                  *)
LoopBroken ==
    /\ \A e \in sent : e.hops = 0
    /\ \A t \in AnyThread : ~SelfDeadlocked(t)

(* The same where the reserved target is used (with_dynamic_target(false)). *)
LoopBrokenByTarget == ~mode.dynamic => LoopBroken

(* Threads that lift tracing events. *)
Lifting == IF mode.dynamic /\ mode.queued THEN AnyThread ELSE Thread

(* A consumer that joins the stream late meets a registration of every     *)
(* callsite within RefreshCount interned events for each thread that lifts,*)
(* since each may reset the count after the others have gone on; and as    *)
(* many again for each registration that was dropped on the way, because   *)
(* the count is reset all the same.  Not so where the layer may run inside *)
(* a call of its own thread.  The sink in the process resolves every       *)
(* callsite it is handed.                                                  *)
LateConsumerResolves ==
    /\ mode.queued \/ ~mode.dynamic =>
          \A s \in Site : since[s] <= RefreshCount * Cardinality(Lifting) * (1 + missed[s])
    /\ \A e \in sent : e.kind # "unresolved"

(* Inside a span, tracing events carry the ids of the current span, and    *)
(* native events, through the scope frames, those of the span entered last *)
(* as long as no span of the thread was exited before one entered after    *)
(* it.  Outside all spans neither carries any.  A span created inside      *)
(* another has its trace, unless it is given one.                          *)
SpanCorrelates ==
    /\ \A e \in sent : e.kind \in {"native", "event"} /\ e.hops = 0 =>
          IF e.at = None THEN e.ctx = NoCtx
          ELSE e.nested => /\ e.ctx.trace = ctx[e.at].trace /\ e.ctx.id = e.at
                           /\ e.ctx.parent = ctx[e.at].parent \/ ctx[e.at].parent = None
    /\ \A sp \in DOMAIN ctx : ctx[sp].parent # None => ctx[sp].trace \in {Given, ctx[ctx[sp].parent].trace}
===============================================================================
