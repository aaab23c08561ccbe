# A TLA+ model of obs

obs is a wide-events observability SDK in Rust. Application code emits typed
events. The standard observer fills in correlation from the open scopes, filters
and samples each envelope and hands it to the worker of its tier; the worker
scrubs it and delivers it to the tier's sink. Sinks write, batch, retry, spool to
disk and upload. At the edges, events are declared in Rust or in `.proto` files,
`tracing` is bridged in both directions, HTTP middleware carries the trace
context, and an initialiser puts everything in place. This directory holds TLA+
models of these parts, the TLC configurations that check them, and the theorems
proved about them with TLAPS.

## 1. The system

| Part (source) | State | Operations | Interacts with | What makes it correct |
|---|---|---|---|---|
| Callsite cache (`obs-core/src/callsite.rs`, `emit.rs`) | two atomics per callsite | emit, probe, cache | observer's filter and generation | a decision follows a filter that was in force during the emit |
| Observer resolution (`observer/mod.rs`, `in_memory.rs`) | global, thread and task slots, override count, re-entry flag | install, override, poll, resolve, enter | every emit | an emit reaches the observer in force where it was made; nested emits do not recurse |
| Event filter (`filter.rs`) | default level, static and dynamic directives | parse and add a directive, per-callsite and per-envelope decision | callsite cache, pipeline | both stages agree |
| Config watcher (`config_watcher.rs`) | last fire time | receive, debounce, reload | file system, observer | the last save takes effect |
| Scope stack (`scope/`, `instrumented.rs`) | frames per thread, tail rings | guards, instrumented polls, auto-fill, tail flush | pipeline, tower middleware, tracing bridge | correlation belongs to the emitting task |
| Emit pipeline (`observer/standard.rs`, `sampling.rs`) | configuration, filter | limits, filter, sampler, tail buffering | scopes, workers | what is sampled out stays out |
| Tier worker (`observer/workers.rs`) | bounded channel, flag, sender, join handle | try_send, drain, flush, shutdown | observer, sink | accepted envelopes reach the sink in order; shutdown ends |
| Audit path (`audit_spool.rs`, `observer/standard.rs`) | channel, spool file with CRC sidecar, directory | enqueue or spool, fsync, recover | tier worker, file system, restart | an acknowledged AUDIT record is not lost without a cause |
| Batching sink (`obs-sink-batch`) | ingress channel, partitions, spool, retry state | deliver, flush, upload, retry, spool, re-ship, escalate, drain | tier worker, backend, file system | accounting, no double store without a lost answer, nothing stays in memory |
| OTLP, Parquet, ClickHouse sinks | batch or partition buffers, pair tracker, retry queue, files | deliver, roll, export, retry, flush, shutdown, sweep | worker, network, disk | one ledger: held, then exported or given up |
| Prometheus (`obs-prom`) | concurrent series map | get-or-insert, update, evict, render | workers, scrape | cap, counters do not go back |
| Live tail (`obs-live-tail`) | concurrent subscriber map, channels | subscribe, deliver, sweep, unsubscribe, read | worker, subscribers | caps; delivered in order or counted |
| Writers (`sink/writer.rs`, `sink/ndjson.rs`) | channel and thread; current file, directory | write, rotate, evict, drop guard | local sinks, file system | a line is written or counted as dropped; retention takes the oldest |
| Schemas (`obs-macros`, `obs-build`, `registry/`, `wire/fields.rs`, sinks' views) | field tables, registry | declare, lint, encode, look up, scrub, decode, project | worker, every sink | a classified value is shown nowhere; both declaration paths mean the same |
| Tracing bridge (`obs-tracing-bridge`) | per-thread flags, registry of callsites, promotions, spans | on_event, intern, promote, redact, enter, exit, deliver, dispatch | `tracing`, observer, worker | no echo; callsites resolve; spans correlate |
| Tower (`obs-tower`, `propagator.rs`) | per-request context and frame | call, poll, inject, extract, drop | scopes, HTTP | a request tree is one trace |
| Configuration and start-up (`config.rs`, `obs-kit/src/init.rs`, `panic_hook.rs`) | global observer, guards, hook, file | load, validate, build, install, reload, shut down | everything | what is installed is sound |

The hard behaviours are: threads that race through atomics or concurrent maps
without a lock (callsite cache, worker flag, series and subscriber maps); tasks
that share a thread (scopes, HTTP requests); a timeout that cancels a shutdown
half-way; a process or a host that stops between two disk operations and recovers
in the next process (audit spool, batch spool, Parquet files); uploads and exports
whose answer is lost; several shutdown paths at once (application,
`InitGuard::drop`, panic hook); reloads during emits; calls that re-enter the
library (self-events, the bridge).

`PROJECT.json` lists all components with their status, the mapping of
definitions to source lines, and the hazards with the properties aimed at each.

## 2. Modules

One module per component. An `MC` module gives constants their values; where it
covers several components (`MCEmitPath`, `MCBoundaries`, and `MCSinks` with its
composition `Sinks`), a behaviour is one of a single component and the others rest in an initial state, so the state
spaces add up instead of multiplying. Where components meet, the neighbour appears
as an environment action that allows everything the neighbour can do; `SchemaFlow`,
`TracingBridge`, `ScopeStack` and `AuditSpool` compose several components directly.

### The observer

**TierWorker** models one per-tier worker. `try_send` (`Refused`, `TrySend`), the
drain task (`Recv`, `Deliver`, `Check`, `Drain`, `TaskFlush`, `Exit`), each call of
`shutdown()` (`StoreFlag`, `TakeSender`, `LockJoin`, `Joined`, `SinkShutdown`) and the
timeout of `shutdown_blocking` that cancels a call at an await point
(`Timeout`), and `flush()` (`FlushCall`, `FlushSink`). A step is a critical section of the
sender's mutex, one atomic access or one poll of the receiver. `mark` remembers
how much had been accepted when a shutdown was first requested; `stranded` is
what the channel held when the receiver was dropped. An envelope that the
scrubber rejects is processed without being delivered. **BoundedFifo** is the abstract
specification of a worker, which TierWorker implements (`FifoHolds`): envelopes are sent
and received once and in order, at most `Bound` wait, and it closes only when asked,
with what was sent before received and synced. The mapping takes the channel's slots
and the envelope in hand for the bound, and the end of the drain task for the close.

**AuditSpool** models the AUDIT path over several processes: `dispatch_audit`
(enqueue, wait, spool, and the three reactions to a spool failure), the spool file
with its CRC sidecar, synced prefix and size limit, recovery at start-up record by
record and file by file with its error paths, shutdown, the kill of the process and
the crash of the host (which also takes what is not synced). A torn write is a
record `Torn`. `lost` names the cause for each acknowledged record that is gone.

**CallsiteCache** models one callsite: each relaxed load and store of the cache is a
step and the two of one emit happen in either order; `reload_config` replaces the
filter and bumps the generation in two steps; emits nest inside `emit_envelope`
and may panic there.

**ObserverSlots** models which observer an emit reaches: the global slot, guards on a
thread, a task's slot around each poll, and `OVERRIDE_COUNT`, read before the slots
are looked at. `meant` records the observer in force where the emit was made, the
in-memory rings where it went.

**EventFilter** models `obs::Filter`: directives as they are written, each part well
formed or not (`ParseDirective`, `Refuse`), as they are stored, and the two decision
stages. Names are sequences of segments, so segment matching is the prefix order; the
length in characters that the code compares is a constant function.

**ConfigWatcher** models saves in place (half written for a while) and by rename, the
events they cause, the leading-edge debounce and the reload.

**ScopeStack** models the stack of scope frames per thread, guards, spans of the
tracing bridge, instrumented futures (also the per-poll frame of the tower
middleware), cancellation, and the pipeline an envelope takes: auto-fill, limits,
filter, sampler, tail ring, and the re-emission of the ring when a guard drops
after an error. One correlation field stands for all; its value names the task and
depth it came from, so that a property can tell whose it is. The filter is a
severity floor here, and a fractional sampling rate keeps or drops at choice.

### The sinks

**BatchSink** models `BatchingSink<B>`: `deliver()`, the worker's biased `select!`
(signal, channel, age, retry tick, in this order), admission with count and bytes
triggers and the ring bound, upload with a retry budget, lost answers, the spool
with its cap and torn writes, re-shipping, escalation to `failed/`, shutdown and
kill. Sizes are small numbers, time is the choice between branches that are ready.

**DeliveryLedger** is the abstract specification of an export sink: an envelope is
new, held, then exported or lost, and neither is taken back. **OtlpSink** (batch,
projection with the pairing of Started and Completed, debug and gRPC exporter, retry
queue), **ClickHouseSink** (buffer, INSERT with attempts and lost answers, back-off
that panics on a runtime) and **ParquetSink** (partition buffers, temporary file,
rename, crash, sweep) implement it; each defines its ledger (`OtlpLedger`, ...) and
**Sinks**, which composes all modules of this section but BatchSink, instantiates the
abstract specification with the ledger of the sink at work. `SinkCalls` holds their common constants: several callers are in the sink at
once, because without a runtime every emitting thread delivers itself.

**PromRegistry** models the concurrent map of series and the state each recorder holds
outside it; **LiveTail** the subscriber map, the caps, the walk of a delivery and the
sweeps; **RollingWriter** a line as several writes, rotation before each, retention
and restarts; **NonBlockingWriter** handles, channel, writer thread and guard.

### The edges

**EventSchemas** holds pure definitions: what an annotation, a lint, a field table, a
hash input, an encoder, the scrubber, the decoder and the Parquet column builder
compute, for both declaration paths. **SchemaFlow** moves an event through them:
build, link, emit (or receive from another producer), scrub, deliver to each sink,
encode. A payload is a function from places in wire order to entries; a value is the
name of the field it belongs to, so a property can tell whether a sink was shown it.
`Declaration` is what rustc and protoc accept: names of fields differ, and in a
`.proto` file their numbers do.

**TracingBridge** models both directions installed together. Each thread has a stack of
calls (`Native` emits, `OnEvent`, `Deliver`), so that re-entry is visible; the dispatch
is inline under the observer's lock or through a worker's queue, according to the
mode. `hops` counts how often an event has crossed.

**HttpTrace** models client and server layer around handlers that take turns on threads,
call out, lose headers and are dropped. **Startup** models the sources of the
configuration, `build()`, `install()` step by step, guards, hook, reloads and signals,
for several installs in one process.

### Proofs

**SequenceLemmas** holds what the proofs need to know of channels, buffers and
directories kept as sequences. **WorkerProofs** (the worker, and SchemaFlow: what it
scrubs and hands to the sinks), **EmitPathProofs** (callsite cache, observer slots,
filter, watcher), **ScopeStackProofs**, **AuditSpoolProofs**,
**BatchSinkProofs**, **SinksProofs** and **BoundaryProofs** (start-up, HTTP, tracing
bridge) hold the theorems of section 4.

## 3. Runs

| Run | Instance | What it shows |
|---|---|---|
| `tier_worker` | 2 envelopes, capacity 1, 2 concurrent `shutdown()` calls, timeouts allowed, with fairness | accepted = processed, in hand, queued, stranded, in order (`Conservation`); the worker implements BoundedFifo (`FifoHolds`): in particular the task ends only after a request, with all earlier envelopes delivered and flushed; the sink outlives the task unless a call was cancelled; every call returns; what was accepted before a request is delivered |
| `audit_spool` | 2 envelopes, capacity 1, spool of 2 records, batch fsync of 2, 3 processes, 2 I/O errors, with fairness | `Accounted`, `CleanShutdown`, `SyncWindow` (what a host crash can take), `AtMostOncePlusRedone` (duplicates need an interrupted recovery), recovery ends |
| `audit_spool_unlinked` | 1 process, no errors | **violated**: recovery removes the file the process has just opened (`SpooledIsRecoverable`) |
| `batch_sink` | 3 envelopes in 2 partitions, two sizes, one without a key, channel of 1, triggers at 2 events or 4 bytes, 2 attempts, spool of 2, 2 failures of upload or disk, 2 processes, with fairness | `Accounted`, `StoredOnce`; memory empties again and again (`LeavesMemory`); the spool empties (`SpoolDrains`) |
| `emit_path` | cache: 1 emitting thread, 2 reloaders, 3 reloads; filter: every filter of up to 3 directives over 5 targets; slots: 2 threads, 1 task, 2 observers, 2 nested guards; watcher: 3 saves | `DecisionIsCurrent`, `CacheAgrees`, `StagesAgree`, `OverrideSeen`, `ReloadsLatest` |
| `event_filter_module` | 1 directive | **violated**: a module directive admits a callsite whose events are then refused (`AlwaysIsAllowed`) |
| `scope_stack` | 2 tasks (one instrumented) on a thread, 2 events of 3 kinds, 3 frame shapes, 2 configurations, ring of 1, 2 nested guards | `OwnStack` and `OwnTrace` (no frame outlives its poll, no foreign correlation), `TailCopies` |
| `sinks` | 2 callers, 3 envelopes, each failure that a sink handles, 1 crash, 2 recorders and subscribers, 2 writers, 5 rolling policies, with fairness of the writer thread | `LedgerHolds` (the refinement), `Tracked`, `ExportedOnce`, `NothingLeft`, `CapsHold`, `PromMonotone`, `TailInOrder`, `Kept`, `LinesAccounted`, `Drains` |
| `nonblocking_idle` | 1 handle, 2 lines | **violated**: a line is refused although the channel has room, after 200 ms without one (`DropsOnlyAtOverflow`) |
| `schema_flow` | the declarations of `MCDeclarations` on both paths, with and without a hash collision, native and foreign payloads | `ClassifiedIsRedacted`, `PathsAgree`, `RowsAligned` |
| `boundaries` | bridge: 2 threads, a worker, 4 set-ups, a refresh count of 2, up to 6 operations; HTTP: 2 calls, possibly nested, on 2 threads; start-up: 2 installs, 3 plans, 6 texts, 2 reloads | `LoopBrokenByTarget`, `LateConsumerResolves`, `SpanCorrelates`, `TraceContinues`, `InstalledIsSound` |
| `bridge_echo` | 1 native event, defaults of both directions | **violated**: the bridge lifts its own output (`LoopBroken`) |

Each property of a passing run has a mutant in `PROJECT.json`, a definition changed
as a bug would change it, under which TLC finds the property violated.

**Exceptions a property states.** Where the code has a gap, the property names it, so
that the rest is still checked: `SinkOutlivesTaskUncancelled` excludes cancelled
shutdowns, `Accounted` lists causes of loss, `StagesAgree` excludes directives that
match a module, `ReloadsLatest` a last event inside the debounce window, `CapsHold`
allows the callers that passed the check together, `ExportedOnce` an export whose
answer was lost, `ClassifiedIsRedacted` what `Exempt` lists, `RowsAligned` a repeated
field number, `LoopBrokenByTarget` the dynamic target, `LateConsumerResolves` the
dynamic target dispatched inline inside a guarded emit, `InstalledIsSound` a failed
bridge. Section 5 describes each gap.

**Bounds.** The counters `MaxBoots`, `MaxFaults`, `MaxFails`, `MaxCrashes`, `MaxReloads`,
`MaxSaves` and `MaxCalls` bound the environment, `MaxHeld`, `MaxGuards` and
`MaxDirectives` the size of what a program builds, `MaxLines`, `MaxMessages`, `MaxEmits`
and `ops` what it sends; each envelope is emitted once. A channel of one slot with two
or three envelopes reaches empty, full and refused; two processes suffice for a crash
and a recovery, a third for a crash during recovery; two failing uploads exhaust a
budget of two. Two callers and a batch of two give a full batch, one left over and a
call that overlaps shutdown; a retry queue of one overflows at the second failure. A
cap of one series or subscriber with two callers shows the race for the last place.
In `scope_stack` a ring of one evicts at the second event, and two nested guards with
an outer seed give three frames through which a copy can travel; threads share nothing
but the configuration there, so one is enough. Three directives allow a shorter, a
longer and a competing one of another kind. Two HTTP calls can nest or run side by
side. Two installs let the guard of one meet the observer of the other.

**Deadlock** is checked in `tier_worker`. All other models may stop: their envelopes
are emitted, their processes ended, their calls returned. `LoopBroken` looks for the
one self-deadlock we know of directly.

**Fairness.** `tier_worker`: weak fairness of the drain task and of each begun
`shutdown()` call (the runtime polls a woken task; `SinkShutdown` and `Joined` are
awaits that are woken). Nothing obliges anyone to emit, to call `shutdown()` or to
time out. `audit_spool`: weak fairness of recovery and of the end of the wait in
`dispatch_audit` (a loop over a clock), none of the sink. `batch_sink`: weak fairness
of the worker's own steps, strong fairness of the age flush, whose branch precedes the
retry tick in the biased `select!`, and weak fairness of the tick; failures are finite
in number. An endless stream of envelopes is outside this run: with a channel that is
never empty the biased `select!` would never reach the timers. `sinks`: weak fairness of
the writer thread, which the operating system schedules and whose `recv_timeout`
returns. The other runs check safety.

## 4. Proofs

`WorkerProofs` proves of TierWorker, for every capacity and any set of envelopes and callers:

- `TypeCorrect`: the type invariant, with the length of the channel bounded by
  `max(Capacity, 1)`;
- `ConservationHolds`: accepted envelopes are, in order, those processed, the one
  in hand, those queued and those stranded;
- `ExitIsCleanHolds`: when the task has ended, a shutdown was requested, and what
  was accepted before the request has been delivered and flushed;
- `SinkOutlivesTaskHolds`: as long as no call was cancelled, `Sink::shutdown` runs
  only after the task has ended, for any number of concurrent calls;
- `WorkerIsFifo`: TierWorker implements BoundedFifo. The initial states map to initial
  states and `FifoStep` maps every step to a step of the FIFO or a stutter: `TrySend` to
  `Send`, `Deliver` to `Receive`, both flushes to `Sync`, the first request to `Ask`, `Exit`
  to `Close`, all others to stutters. The run's two envelopes never exceed the bound of
  two; the theorem has it for every capacity and any number of envelopes.

`Conservation` and `ExitIsClean` are not inductive alone. The invariant `WorkerInv`
adds `TaskShape` (what the position of the task says of the envelope in hand, the
channel and the flushed prefix: in particular that the task is past its loop only
when the flag is up, or the sender gone, with everything up to `mark` taken from the
channel) and `ShutdownShape` (flag, mark and sender in step with the positions of
the calls). The join argument needs `JoinInv` on top: while nobody was cancelled, a
missing join handle belongs to the call that holds the mutex, or the task has
ended; it is relative to `NoneCancelled`, which a `Timeout` step falsifies for good.
The refinement needs `AcceptedEmitted` (what was accepted was emitted, hence is
accepted once) and `Waiting`, which reads off `Conservation` and `TaskShape` that no
more than the channel and one in hand wait, and that the envelope in hand is the next
one the FIFO hands on; that the close is clean is `ShutdownShape` at `"exit"`.
The assumptions are `CapacityAssumption` (a natural number; the code takes
`max(1)`), `CallersAssumption` and `TimeoutAssumption`.

### The emit path

`EmitPathProofs` proves, of the callsite cache, for any number of reloaders and of
reloads:

- `GuardIsBalancedHolds`, for any set of threads: `CAN_ENTER` is taken exactly while a
  thread is inside `emit_envelope`, unless a panic unwound through it. The inductive
  invariant `GuardInv` adds `RestsUnnested`: a thread that is idle or inside the
  observer is in no nested emit, so the emit that returns is the one that took the
  guard;
- `DecisionIsCurrentHolds`, for one emitting thread and one `StandardObserver`: an emit
  is decided as the filter answered at some moment since it began;
- `CacheAgreesHolds`, under the same assumption: at rest, what is cached under the
  current generation is the filter's own answer.

The last two need `CacheInv`. An answer may be read, then outdated by a bump, then
stored: `Storing` says that what is being stored is in force *or* is stored under a
generation that has already passed, `CacheGood` that outside the two stores a cached
answer under an observer's generation is in force, `Loading` that what a thread has
loaded is still what is cached and lies in the ghost `valid`, `Emitting` that `valid`
has every answer in force, and `Generations` that the `NoopObserver`'s generation 0 is
never that of a `StandardObserver`, which is what keeps the two apart in the one
cache. One emitting thread is a hypothesis, not a convenience: with two the cache
tears (section 5). So is one `StandardObserver`: two that count their generations
independently meet at equal numbers.

Of what the cache asks:

- `WatcherReloadsLatest`: `ReloadsLatest` for any number of saves. `WatchInv` says why a
  stale configuration is never final: it is up to date, or an event that is *relevant*
  is still in the channel, or the debounce skipped one, or the file is half written,
  or the watcher is gone;
- `OverrideIsSeen`: `OverrideSeen` for any threads, tasks, observers, nesting of guards and
  ring size. `SlotInv` adds that guards restore in order what they found (`Restores`),
  that a task's slot is the thread's while it is polled (`Polled`), that
  `OVERRIDE_COUNT` is at least the number of live guards and scoped tasks (`Counted`,
  an argument on cardinalities), hence that a thread that saw zero and went for the
  global slot has no override (`Looked`), and that each ring is the youngest part of
  what was meant for its observer (`Rings`);
- `FilterStagesAgree`: `StagesAgree` for any targets, labels and number of directives. It
  needs that stored directives have targets of at least one segment (`Targeted`).

### Scopes

`ScopeStackProofs` proves `StackIsOwn`, `TraceIsOwn` and `TailCopiesHold`, for any number of threads, tasks
and events, any ring and any configurations, under `Holds = {}`: no task keeps a guard
across an `.await`. The hypothesis is the library's documented rule, and the theorems
are false without it (section 5). `ScopeInv` says that a thread between polls has an
empty stack, that one which polls a task has as many frames as the task's open guards
and seed account for, each of them and each envelope in their rings being the
task's own, and that no task is polled on two threads.

`TailCopiesHold` needs `TailInv` on top, because an envelope may lie in a ring while
frames below it come and go, and is copied from ring to ring on its way out. For each
envelope in the ring of frame *i*, or waiting to be flushed, `Awaits` says that it was
sent before, that its copies agree with it, that no frame below *i* could still fill an
empty correlation, and that the copies sent plus the scopes below *i* are no more than
the scopes that were open at the emit: each of these scopes pays for one copy, and pays
when its guard drops. `NoneTwice` adds that a thread's rings hold an event once, and
`ErrorSeen` that a frame marked `seen_error`, or a flush under way, has an error of the
same task behind it.

### Audit path and batching sink

`AuditSpoolProofs` proves, for any envelopes, capacity, spool size, batch size, number of
processes and of I/O errors:

- `AuditIsAccounted` and `ShutdownIsClean` from `AuditInv`: what `dispatch_audit` answered
  says where the envelope is (`queued`: in the channel, delivered, or lost with it;
  `spooled`: on disk, sent on, or lost for a named cause), and what `recover_one` has
  read of a file has been passed on (`ReadKept`), so that the file may be deleted;
- `CrashWindow` from `WindowInv`: the writer's counters bound the number of acknowledged
  records beyond the synced prefix. It needs `Settled`: whoever has a record in the
  open file has left `dispatch_audit`;
- `DeliveredOncePlusRedone` from `CopyInv`: a record is written once in the life of an
  envelope (`WrittenOnce`), an envelope that `dispatch_audit` has not placed yet is
  nowhere (`NowhereYet`), and as long as its record has not been read from the disk the
  channel and the sink hold one copy less than the bound allows (`RoomLeft`), so that
  reading it keeps the bound.

`BatchSinkProofs` proves, for any envelopes, keys, sizes, triggers, retry limits, spool
cap, failures and restarts:

- `AcceptedIsAccounted` from `BatchInv`: an accepted envelope is in memory, or in a file,
  stored or lost for a cause; a file is removed only when what it held is stored;
- `StoredAtMostOnce` from `OnceInv`, the largest invariant here: no two files hold an
  envelope and what a retry tick has listed agrees with the spool (`RecordShape`); a
  retry tick and a flush do not overlap, and a batch shipped again is what its file
  holds (`WorkShape`); buffers, batches and files keep to their partition (`KeyShape`);
  memory and spool are disjoint (`OnePlace`); what may still be uploaded has been
  stored no more often than answers were lost or files could not be removed
  (`Counts`).

### Sinks

`SinksProofs` proves, of the composition `Sinks` and for all values of its constants, all
safety properties of the run `sinks`. Each sink has an
inductive invariant of its own, and `PartSteps` says that a step of Sinks is a step of
one of them or leaves it alone.

- `LedgerHoldsAlways`: Sinks implements DeliveryLedger. `LedgerMoves` is what a step may
  do to a ledger: nothing, one envelope from new to held, or a set of held ones all
  sent or all lost. Every action of the three export sinks is shown to make such a
  move (`OtlpStep`, `ClickHouseMoves`, `ParquetMoves`), and such a move is a step of
  `Ledger!Next` or a stutter.
- `TrackedHolds`, `ExportedOnceHolds`, `NothingLeftHolds`. For ClickHouse, `Apart`: an
  envelope is in the buffer, in one call, acknowledged or given up. For Parquet,
  `ParquetPlaces`: in its own partition's buffer, in one file of it, or lost in a crash.
  For OTLP, `Spread` gives an
  envelope one place among batch, pair tracker, retry queue and calls; `Fate` says how
  its exports, the causes it was given up for and the answers it lost add up;
  `AnswersLost` says where an unanswered envelope can be, and `Alone` what a
  shutdown has emptied so far while no other call overlapped it.
- `CapsHoldAlways`: a caller passes the check while fewer than the cap are present, and
  no more than all callers are between check and insertion (`PromCap` and `Within`,
  arguments on cardinalities).
- `PromMonotoneHolds`: the value of a state never goes down, and what is shown for a
  series is the value of a state with its key (`PromIndices`, `PromShown`).
- `LinesAccountedHolds`: in `NbInv` a line is in one of seven places (`Parted`), the
  buffers of a handle and the output repeat none, a thread about to leave has
  written what the guard's drop found under way (`NbPhases`), and a refused buffer is
  one drop and at most `MaxBatch` lines (`NbDrops`).
- `TailInOrderHolds`, for any number of messages, subscribers, filters and channel sizes.
  `TailLine` counts instead of comparing sequences: what a subscriber has been shown
  rises, lies behind every message still to come, and messages delivered, missed and owed
  to it by the walk under way are together the messages its filter has met.
- `FilesAccountedHolds` and `KeptHolds`, for any policy, sizes, clock, I/O errors and
  restarts. The first half of `Kept` holds always: a piece that `write()` acknowledged is
  in one listed file or went with one, and a file holds its pieces in the order of the
  writes. The second half, that retention takes the oldest pieces first and never the
  file being written, holds under `Fits`: a writer keeps at least one file, and it starts
  again only under a policy whose names do not count from zero. With `keep = 0`,
  `maybe_evict_old` (`writer.rs:483`) removes the file just opened. `ROLL_COUNTER`
  (`writer.rs:510`) starts over with the process, so size-based names of the process
  before are opened again for appending and then hold newer pieces than files after
  them. `DiskAges` is the invariant behind it: the directory is in the order
  of the names, later files hold later pieces, and the file being written is the last.

### Edges

`BoundaryProofs` proves `InstallIsSound`, for any number of installs, plans, file contents,
saves, reloads and signals (`StartInv`: every observer is sound once its workers are
spawned, and an `install()` that has not got that far has none and is not the global
one), and `RequestTreeIsOneTrace`, for any threads and calls (`HttpInv`: a frame on a
thread is that of the request polled there, and the context a client holds, a server
opened and an event carries each name a span that exists in the same trace).

Of the bridge it proves, for any set-ups, threads, callsites, spans and any refresh
count, promotion cap and bound on crossings:

- `LoopIsBroken` and `SpansAreCorrelated` from `BridgeInv`. `StacksOk` says what each call on
  a thread's stack may be, by its kind and its place: a call of the layer above the
  bottom of the stack was made by the sink, so that with the reserved target it is
  still at its start; what it has recorded is the correlation of where the thread
  *is*, because no span is entered or left under a call. `GuardsOk` says that the holder of
  the lock delivers, which rules out that it waits for the lock, `SpansOk` that the scope
  frames of a thread are the contexts of its entered spans, `QueueOk` that what is
  underway to the worker is about known callsites.
- `LateConsumerIsServed` from `CountsOk`, a potential argument. Threads count, register and
  reset without a lock around the three, so a thread that found the registration due may
  reset a count that others have started anew: it allows `RefreshCount` further envelopes
  of its own. Envelopes sent, threads about to send, `RefreshCount` for each thread about
  to reset, and what is left of the count are together at most `RefreshCount` times the
  number of threads; and if all of them found it due, the count still stands at the
  threshold. Once the registration is older than the refresh interval the count no
  longer matters (`OldOk`).

The bound is exact: two threads that interleave so can send twice the refresh count
between two registrations.

### Schemas

`WorkerProofs` proves of SchemaFlow, for any declarations of an event and its neighbour,
any number of fields, and any number of native and foreign events:

- `ClassifiedIsRedactedHolds`: no sink behind `ScrubbedEnvelope::scrub` is shown a value of
  a field declared PII or SECRET, outside `Exempt`;
- `PathsAgreeHolds`: a declaration without defaults means the same in both languages, and
  the metric points projected from a field table are measurements of the declaration;
- `RowsAlignedHolds`: a Parquet batch encodes unless a payload repeated a field number.

`FlowInv` follows one envelope. `EnvOk` says what an emitter may send: each entry carries
the number of the field whose value it is, or is foreign; labels and hash are the
event's own, or there are none and the hash is that of a schema not linked here. `ScrubOk`
says what the worker hands on: entries of the original, with their numbers, markers only on
bytes, and, unless two hashes collide, an unmarked value is no classified field's but for a
shared number (`Harmless`). The argument has three parts: the lookup answers with the
event's own schema or none (`LookupIs`), the field table says of a number what the
declaration says of the first field that has it (`FieldFound`), and each sink shows labels,
slots and values of the scrubbed payload, nothing else (`ShownIs`). `RowIsAligned` shows
that a column is given one cell per row because field names differ and no number repeats.
`DeclarationAssumption` is `Declaration` for the given declarations, with the names that
the model reserves (`"foreign"`, `"elsewhere"`, the empty name) taken by no field or event.

### Assumptions and what is not proved

The assumptions on constants stand in the modules, and TLC evaluates them on the runs:
caps, capacities and bounds are natural numbers, positive where the code makes them so
(`AuditSpool`, `BatchAssumption`, `SlotAssumption`, `PromAssumption`, `TailAssumption`,
`NonBlockingAssumption`); markers such as `Torn`, `NoKey`, `None`, `Nowhere`, `Noop` and
`"noop"` are none of the values they mark the absence of; recorders, callers and clients
are finite sets; targets are sequences of at least one segment whose length grows with
them (`FilterAssumption`). The bounds on the environment (`MaxFails`, `MaxSaves` and the
like) are arbitrary in every theorem. The bridge's threads are
a finite set, there is a callsite, and `"none"` is neither a thread nor a span
(`BridgeAssumption`).

Only model-checked are:

- liveness (`ShutdownReturns`, `AcceptedIsDelivered`, `RecoveryEnds`, `LeavesMemory`,
  `SpoolDrains`, `Drains`): fairness and ENABLED are beyond the prover;
- the properties of the four runs that find a violation.

Every safety property of a passing run has a theorem. Some hold under a hypothesis that
the run's instance satisfies, and the theorem states it: no cancelled shutdown, one
emitting thread, no guard across an `.await`, `Fits`.

## 5. What the code does not keep

Four runs show disagreements between the code and its own comments or docs (above
and in `PROJECT.json`). The following were met while modelling; the models follow the
code, and there is no run of its own for them.

**Worker, audit path, batching sink**

- `workers.rs:163`: an envelope `try_send` accepts between the flag and the drop of the
  sender may be dropped with the receiver (`stranded`), against the comments at
  lines 76 and 86. `workers.rs:148`: `flush()` "Drain in-flight envelopes and return
  when idle" yields once and returns. `workers.rs:165`: a shutdown cancelled while it
  awaits the task has already taken the handle, so a later call shuts the sink down
  under the task.
- `standard.rs:337`: recovery ignores the result of `try_send`: recovered records
  beyond the channel's capacity are lost with their file. `audit_spool.rs:163`:
  an append after a failed one leaves later acknowledged records behind a torn one,
  unreadable. `standard.rs:518`: shutdown closes the spool without a last fsync.
  `standard.rs:311`: with the default `on_failure` an emit panics, where
  `observer/mod.rs:48` says it never does. `Accounted` names each as a cause.
- `obs-sink-batch/src/sink.rs:245`: a re-ship is awaited inside the `select!`, so the
  channel is not drained meanwhile, against the comment at lines 211-215;
  `sink.rs:224`: envelopes in the channel at shutdown are dropped.

**Emit path**

- `callsite.rs:113`: with two emitting threads the two stores of the cache can
  interleave across a reload and leave an old answer under the new generation, which
  is why `emit_path` has one emitting thread. `observer/mod.rs:227`: the re-entry guard
  is not restored when a panic unwinds, so the thread then resolves every emit to the
  NoopObserver. Observers that count their generations independently share the
  callsites' cache.
- `observer/mod.rs`: thread guards dropped out of order leave the wrong observer in the
  slot; a `with_observer_task` future that is dropped leaves `OVERRIDE_COUNT` one too
  high, so the fast path stays off.
- `filter.rs:134`: a dynamic directive without a target is never looked up.
  `filter.rs:166`: an event emitted above its default severity is filtered by the
  default. `filter.rs:96`: `=info` is said to be malformed and is taken as a floor.
- `config_watcher.rs:80`: the debounce is leading-edge, so the last save of a burst is
  not read. `reload_config` forgets the filter given by `OBS_FILTER` or the builder;
  two concurrent calls can leave the filter of one with the configuration of the other.
- `scope/mod.rs:39`: a guard held across an `.await` leaves its frame on the thread for
  the next task (`Holds` of ScopeStack; `scope_task`, which would prevent it, has no
  caller). `scope/guard.rs`: the tail is flushed when the guard drops, not at the error
  (spec 13, lines 104-107); it repeats envelopes that were already delivered and
  may sample them out again; under an inbound `sampled` bit its copies are stamped
  OVERRIDE. `instrumented.rs:62`: a seed carries neither the sampled bit nor a
  ring, and its frame is popped unflushed, so an instrumented future flushes no tail.

**Sinks**

- OTLP: the builders take the debug exporter whatever the protocol, and the gRPC
  exporter uses neither headers nor compression of its endpoint; inside a tokio runtime
  its `block_on` panics and the payload is lost, where its comment has `block_in_place`
  in mind. The retry queue is read only at shutdown. Started events still pending then
  are neither exported nor reported, and one without ids or superseded is lost.
  Every metric point is exported as a cumulative monotonic sum.
- ClickHouse: the back-off calls `Handle::block_on`, which panics on a runtime thread, so
  the rows are lost uncounted (`sink.rs:129`); the HTTP transport parses `host:port` as a
  socket address, so host names fail; nested payload columns are declared and never filled.
- Parquet: aged buffers are looked at only when another envelope arrives;
  `encode_failures` counts only in `drain_all`; a payload that repeats a field number fails
  its whole batch; varint attributes and labels are null in the struct columns.
- Prometheus: the loser of a race to create a series updates a state outside the map;
  `compose_key` keeps the smallest of duplicate labels where its comment says the last;
  kinds within a group can mix where `render.rs` says they are frozen.
- Writers: `flush()` may rotate first and then flush the new file (`writer.rs:371` against
  the comment at 367); files from before a restart restart their byte count or are
  not retained; names of `SizeOrAge` collide within a second; rotation can split an
  NDJSON line, which is written in pieces; `written_total` counts failed writes;
  `dropped_total` counts buffers, not bytes; the tee writer ignores the severity.

**Schemas**

- The live tail and the batching sink get the unscrubbed envelope
  (`registry/scrubbed.rs:52` says no sink does). SECRET labels of METRIC and TRACE events
  pass the lints; classified correlation fields are lifted unredacted.
- The two paths give different hashes when annotations are omitted (`codegen.rs:89`); a
  misspelled classification is Internal in Rust and Unspecified in a `.proto`; a derive
  may give two fields one number. With colliding hashes the schema registered first is
  used for both events. Declared metric kinds are not used by the erased projection.

**Bridge, HTTP, start-up**

- `IN_OBS_BRIDGE` is set and never read (spec 30 § 4.1 has `on_event` check it): with the
  default dynamic target the bridge echoes. Without a runtime the same loop blocks on the
  dispatch lock the thread already holds.
- Counting, registering and resetting are three steps (`interning.rs:106-113`): threads that
  find a registration due together reset the count one after another, each time granting
  the callsite the full refresh count. An event lifted inside a guarded emit, inline,
  sends its registration to the `NoopObserver` while its count is reset all the same.
- `registered_ns` is never reset, so 600 s after its registration each interned event
  re-emits it. The event that reports an unresolved callsite carries that callsite and
  triggers itself. Observers of a request intern into their own registry while the sink
  resolves through the global one. Prewarmed ids hash other inputs than real callsites and
  never match. Typed promoters bypass the redactor; `on_new_span` ignores explicit parents.
- The `sampled` flag of an inbound `traceparent` is not kept (specs 13 and 40), and the
  client always sends 01; an inbound `tracestate` is dropped.
- `merged_with_env` has no caller in the library, and one unknown `OBS_` variable discards the
  whole overlay; `expand_env_vars` mangles text that is not ASCII; the signal's reload finds
  no standard observer and does nothing; `InitGuard` shuts down whatever observer is global
  when it drops; an `install()` that fails at the bridge leaves its observer in place without
  a guard, and later installs are told Ok; the panic hook shuts the observer down on a
  panic that is caught; the envelope's service name and the resource's may differ.

## 6. Not modelled

- The envelope codec, varint and CRC arithmetic, bucket arithmetic, SQL, text layout of the
  sinks and of the Prometheus exposition: plain conversions no property here depends on.
- The tokens that macros and code generator produce, and the `instrument` attribute; what
  the generated code computes is in EventSchemas, what it calls is in the run-time modules.
- The command-line tools, the demonstration server, the soak test and the examples.
- Back-off durations and other quantities of time; self-events other than as nested emits
  (and the bridge's); memory orderings weaker than those that the reordering of two
  relaxed accesses shows.
- An endless stream of envelopes in front of the batching sink.

## 7. Plan

Modelled: all parts of section 1. What is left, in this order:

1. An observer module that composes pipeline, workers and audit path, with BoundedFifo
   in place of each worker.
2. The splitting of a filter's text, and fan-out of one envelope to several sinks.
