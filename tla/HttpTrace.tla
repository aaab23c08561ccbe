------------------------------- MODULE HttpTrace ------------------------------
(* Trace context across HTTP calls: the client layer writes a traceparent  *)
(* header from the scope its call is made in, the server layer reads it,   *)
(* opens a span and pushes a scope frame around every poll of the handler  *)
(* (obs-tower client.rs and server.rs, propagator.rs).  The handlers of    *)
(* several requests take turns on the threads of one process and make      *)
(* calls of their own; headers may be dropped or mangled on the way and    *)
(* futures dropped at any await.                                           *)
EXTENDS Integers, Sequences, FiniteSets, SequencesExt

CONSTANTS
    Runner,       \* executor threads
    Call          \* calls made, each at most once

VARIABLES
    running,      \* handlers a thread is polling, innermost last
    scopes,       \* scope frames of the thread
    client,       \* ObsHttpClientFuture, per call
    server,       \* ObsHttpFuture, per call
    header,       \* the traceparent header of the request
    events        \* envelopes of the two layers

httpVars == <<running, scopes, client, server, header, events>>

(* fresh_span_id and fresh_trace_id: a span is named by the side and the   *)
(* call that opens it, a trace by the span that roots it.                  *)
Nowhere == "none"

ASSUME CallAssumption == Nowhere \notin Call

SpanOf(side, c) == <<side, c>>
NoSpan == <<Nowhere, Nowhere>>

Context(trace, span, parent) == [trace |-> trace, span |-> span, parent |-> parent]
NoContext == Context(NoSpan, NoSpan, NoSpan)

(* A header is a trace, a span and the sampled flag; extract_w3c reads a   *)
(* mangled one (a wrong version, length, number of parts or digit) like an *)
(* absent one.                                                             *)
Header(trace, span) == [trace |-> trace, span |-> span]
NoHeader == Header(NoSpan, NoSpan)

HttpInit ==
    /\ running = [t \in Runner |-> <<>>]
    /\ scopes = [t \in Runner |-> <<>>]
    /\ client = [c \in Call |-> [at |-> "none", ctx |-> NoContext, within |-> Nowhere]]
    /\ server = [c \in Call |-> [at |-> "none", ctx |-> NoContext, trusted |-> FALSE]]
    /\ header = [c \in Call |-> NoHeader]
    /\ events = {}

(* The envelopes, with the ids each one sets itself. *)
Event(kind, c, ctx) == [kind |-> kind, call |-> c, ctx |-> ctx]
ClientStarted(c, h) == Event("client_started", c, Context(h.trace, NoSpan, NoSpan))
ClientCompleted(c, ctx) == Event("client_completed", c, Context(ctx.trace, ctx.span, NoSpan))
RequestStarted(c, ctx) == Event("server_started", c, Context(ctx.trace, NoSpan, ctx.parent))
RequestCompleted(c, ctx) == Event("server_completed", c, ctx)

(* auto_fill_envelope: what an envelope leaves empty comes from the        *)
(* innermost frame.                                                        *)
Filled(e, fs) ==
    IF fs = <<>> THEN e
    ELSE LET f == Last(fs)
             pick(own, of) == IF own = NoSpan THEN of ELSE own
         IN [e EXCEPT !.ctx = Context(pick(e.ctx.trace, f.trace), pick(e.ctx.span, f.span),
                                      pick(e.ctx.parent, f.parent))]

-------------------------------------------------------------------------------
(* The client layer.                                                       *)

(* active_correlation: the trace of the innermost frame, if there is one. *)
ActiveTrace(fs, fresh) == IF fs = <<>> THEN fresh ELSE Last(fs).trace

(* The context of an outbound call: the active trace or a fresh one, and a *)
(* fresh span.                                                             *)
Outbound(c, fs) == Header(ActiveTrace(fs, SpanOf("client", c)), SpanOf("client", c))

(* ObsHttpClientService::call, from the handler the thread is polling or   *)
(* from code outside any request.                                          *)
ClientCall(t, c) ==
    /\ client[c].at = "none"
    /\ LET h == Outbound(c, scopes[t])
       IN /\ header' = [header EXCEPT ![c] = h]
          /\ client' = [client EXCEPT ![c] =
                 [at |-> "sent", ctx |-> Context(h.trace, h.span, NoSpan),
                  within |-> IF running[t] = <<>> THEN Nowhere ELSE Last(running[t])]]
          /\ events' = events \union {Filled(ClientStarted(c, h), scopes[t])}
    /\ UNCHANGED <<running, scopes, server>>

(* The call's future is ready, with a response or an error, or is dropped. *)
ClientReady(t, c) ==
    /\ client[c].at = "sent"
    /\ client[c].within # Nowhere => running[t] # <<>> /\ Last(running[t]) = client[c].within
    /\ client' = [client EXCEPT ![c].at = "done"]
    /\ events' = events \union {Filled(ClientCompleted(c, client[c].ctx), scopes[t])}
    /\ UNCHANGED <<running, scopes, server, header>>

ClientDropped(c) ==
    /\ client[c].at = "sent"
    /\ client' = [client EXCEPT ![c].at = "dropped"]
    /\ UNCHANGED <<running, scopes, server, header, events>>

(* A hop on the way drops or mangles the header. *)
HeaderLost(c) ==
    /\ client[c].at = "sent" /\ server[c].at = "none" /\ header[c] # NoHeader
    /\ header' = [header EXCEPT ![c] = NoHeader]
    /\ UNCHANGED <<running, scopes, client, server, events>>

-------------------------------------------------------------------------------
(* The server layer.                                                       *)

(* extract_w3c finds a traceparent it can read. *)
Extracted(c) == header[c] # NoHeader

(* The context of a request: the header's trace with its span as parent,   *)
(* or a fresh trace; always a fresh span.                                  *)
Inbound(c) ==
    IF Extracted(c) THEN Context(header[c].trace, SpanOf("server", c), header[c].span)
    ELSE Context(SpanOf("server", c), SpanOf("server", c), NoSpan)

(* ObsHttpService::call.  It runs where the request is accepted, outside   *)
(* the polls of other handlers.                                            *)
ServerCall(t, c, emit_started) ==
    /\ client[c].at # "none" /\ server[c].at = "none" /\ running[t] = <<>>
    /\ LET ctx == Inbound(c)
       IN /\ server' = [server EXCEPT ![c] =
                 [at |-> "open", ctx |-> ctx, trusted |-> Extracted(c)]]
          /\ events' = IF emit_started
                         THEN events \union {Filled(RequestStarted(c, ctx), scopes[t])}
                         ELSE events
    /\ UNCHANGED <<running, scopes, client, header>>

(* Future::poll: RequestScopeGuard pushes the frame and the handler runs,  *)
(* on any thread, also from within the poll of the handler that made the   *)
(* call in this process.                                                   *)
PollBegins(t, c) ==
    /\ server[c].at = "open"
    /\ \A u \in Runner : ~Contains(running[u], c)
    /\ running[t] # <<>> => client[c].within = Last(running[t])
    /\ running' = [running EXCEPT ![t] = Append(@, c)]
    /\ scopes' = [scopes EXCEPT ![t] = Append(@, server[c].ctx)]
    /\ UNCHANGED <<client, server, header, events>>

(* Mutant of PopScope: Poll::Pending leaves the frame. *)
PopScopeOnReady(fs) == fs

PopScope(fs) == Front(fs)

PollPending(t) ==
    /\ running[t] # <<>>
    /\ running' = [running EXCEPT ![t] = Front(@)]
    /\ scopes' = [scopes EXCEPT ![t] = PopScope(@)]
    /\ UNCHANGED <<client, server, header, events>>

(* The handler answers, with a status or an error: the request event is    *)
(* emitted while the frame is still there, unless emit_metrics is off.     *)
PollReady(t, emit_metrics) ==
    /\ running[t] # <<>>
    /\ LET c == Last(running[t])
           ctx == server[c].ctx
       IN /\ server' = [server EXCEPT ![c].at = "done"]
          /\ events' = IF emit_metrics
                         THEN events \union {Filled(RequestCompleted(c, ctx), scopes[t])}
                         ELSE events
    /\ running' = [running EXCEPT ![t] = Front(@)]
    /\ scopes' = [scopes EXCEPT ![t] = Front(@)]
    /\ UNCHANGED <<client, header>>

(* The connection goes away and the handler's future is dropped. *)
ServerDropped(c) ==
    /\ server[c].at = "open"
    /\ \A u \in Runner : ~Contains(running[u], c)
    /\ server' = [server EXCEPT ![c].at = "dropped"]
    /\ UNCHANGED <<running, scopes, client, header, events>>

HttpNext ==
    \/ \E t \in Runner :
         \/ \E c \in Call : ClientCall(t, c) \/ ClientReady(t, c) \/ PollBegins(t, c)
         \/ \E c \in Call, on \in BOOLEAN : ServerCall(t, c, on)
         \/ PollPending(t)
         \/ \E on \in BOOLEAN : PollReady(t, on)
    \/ \E c \in Call : ClientDropped(c) \/ HeaderLost(c) \/ ServerDropped(c)

HttpSpec == HttpInit /\ [][HttpNext]_httpVars

-------------------------------------------------------------------------------
(* Properties.                                                             *)

(* A request tree is one trace: what a handler calls carries the handler's *)
(* trace, a call made outside any handler roots a trace of its own, a      *)
(* server that could read the header continues the caller's trace as a     *)
(* child of the caller's span, and every event of either layer lies in the *)
(* trace of its own call, whatever else ran on the thread.                 *)
TraceContinues ==
    /\ \A c \in Call : client[c].at # "none" =>
          client[c].ctx.trace = IF client[c].within = Nowhere THEN SpanOf("client", c)
                                ELSE server[client[c].within].ctx.trace
    /\ \A c \in Call : server[c].trusted =>
          /\ server[c].ctx.trace = client[c].ctx.trace
          /\ server[c].ctx.parent = client[c].ctx.span
          /\ server[c].ctx.span # client[c].ctx.span
    /\ \A e \in events :
          e.ctx.trace = (IF e.kind \in {"client_started", "client_completed"}
                           THEN client[e.call].ctx.trace ELSE server[e.call].ctx.trace)
===============================================================================
