----------------------------- MODULE ScopeStack -------------------------------
(* Scope frames under async tasks: the stack that obs::scope!, spans of    *)
(* the tracing bridge and instrumented futures push onto (scope/,          *)
(* instrumented.rs, obs-tower, obs-tracing-bridge), and the emit pipeline  *)
(* that reads and writes it (observer/standard.rs, sampling.rs).           *)
(*                                                                         *)
(* Nothing in the repository enters the task-local stack (scope_task has   *)
(* no caller), so every frame lives on the stack of the thread that runs   *)
(* the code, and tasks that take turns on a thread share it.  A guard kept *)
(* across an .await, as #[obs::instrument] does, leaves its frame to       *)
(* whatever the thread polls next.                                         *)
EXTENDS Integers, Sequences, FiniteSets, SequencesExt

CONSTANTS
    Thread,       \* executor threads
    Task,         \* futures they poll
    Idle,         \* no task
    Mixed,        \* frames of more than one task
    SeedKind,     \* task -> kind of the frame each poll pushes, or "none"
    Event,        \* events emitted, each at most once
    Config,       \* configurations a reload may install
    Apps,         \* what the application does
    TailCapacity  \* ScopeFrame::tail_capacity

(* Severities, as far as the pipeline tells them apart. *)
Debug == 1
Info == 2
Error == 3

(* An event's severity, sampling_reason and size; the kind, the field and  *)
(* traceparent.sampled of a guard's frame.                                 *)
Kind == [sev : {Debug, Info, Error}, reason : {"none", "bypass"}, big : BOOLEAN]
Shape == [kind : {"Scope", "Context"}, declares : BOOLEAN, sampled : {"unset", "yes", "no"}]

(* An application: the threads it uses, the tasks that keep a guard across *)
(* an .await, the events, frames and configurations it uses, and bounds on *)
(* the guards and spans of a task and on the frames of a thread.           *)
ASSUME ScopeAssumption ==
    /\ Idle \notin Task /\ Mixed \notin Task \union {Idle}
    /\ SeedKind \in [Task -> {"none", "Scope", "Context"}]
    /\ Apps \subseteq [threads : SUBSET Thread, holds : SUBSET Task, kinds : SUBSET Kind, shapes : SUBSET Shape,
                       configs : SUBSET Config, max_held : Nat, max_frames : Nat]
    /\ TailCapacity \in Nat

VARIABLES
    app,          \* the application
    stack,        \* THREAD_STACK, per thread
    run,          \* the task a thread polls or drops
    task,         \* where each task is
    held,         \* ScopeGuards and entered spans a task holds, oldest first
    left,         \* ghost: the task that left frames on the thread, or Mixed
    flush,        \* envelopes flush_through has still to emit, per thread
    cfg,          \* the configuration and filter in force
    emitted,      \* events emitted so far
    sent          \* envelopes that left the pipeline for the tier workers

vars == <<app, stack, run, task, held, left, flush, cfg, emitted, sent>>

(* The one field the model follows (a trace id): a frame's value names the *)
(* task that pushed it and the frame's depth.                              *)
NoVal == <<>>

Frame(k, kind, val, sampled) ==
    [owner |-> k, kind |-> kind, val |-> val, sampled |-> sampled, tail |-> <<>>, seen_error |-> FALSE]

Init ==
    /\ app \in Apps
    /\ stack = [th \in Thread |-> <<>>]
    /\ run = [th \in Thread |-> Idle]
    /\ task = [k \in Task |-> "idle"]
    /\ held = [k \in Task |-> <<>>]
    /\ left = [th \in Thread |-> Idle]
    /\ flush = [th \in Thread |-> <<>>]
    /\ cfg \in app.configs
    /\ emitted = {}
    /\ sent = <<>>

-------------------------------------------------------------------------------
(* run_emit_pipeline.                                                      *)

(* auto_fill_envelope: an empty field is taken from the innermost frame    *)
(* that declares it.                                                       *)
AutoFill(env, s) ==
    LET declares == {i \in DOMAIN s : s[i].val # NoVal}
    IN IF env.val # NoVal \/ declares = {} THEN env ELSE [env EXCEPT !.val = s[Max(declares)].val]

(* inbound_traceparent_sampled: the outermost frame that carries it. *)
Inbound(s) ==
    LET carries == {i \in DOMAIN s : s[i].sampled # "unset"}
    IN IF carries = {} THEN "unset" ELSE s[Min(carries)].sampled

(* sampling::decide, as the set of its possible outcomes. *)
Decide(sev, inbound) ==
    IF cfg.honour /\ inbound # "unset"
      THEN {IF inbound = "yes" THEN "ParentYes" ELSE "Drop"}
      ELSE IF sev >= cfg.always THEN {"Keep"}
           ELSE IF cfg.rate = "some" THEN {"Keep", "Drop"}
           ELSE {IF cfg.rate = "one" THEN "Keep" ELSE "Drop"}

(* ScopeFrame::push_tail. *)
PushTail(f, env) ==
    IF f.kind = "Context" \/ TailCapacity = 0
      THEN f
      ELSE [f EXCEPT !.tail = Append(IF Len(@) >= TailCapacity THEN Tail(@) ELSE @, env)]

(* The last step: TRACE and DEBUG go to the innermost frame's ring, an     *)
(* error marks every open frame.                                           *)
Record(env, s) ==
    IF env.sev = Debug /\ s # <<>> THEN [s EXCEPT ![Len(s)] = PushTail(@, env)]
    ELSE IF env.sev >= Error THEN [i \in DOMAIN s |-> [s[i] EXCEPT !.seen_error = TRUE]]
    ELSE s

(* The outcomes of the pipeline for one envelope on one stack: it is lost  *)
(* to the size limits, the filter or the sampler, or goes to a worker.     *)
Lost(s) == [keep |-> <<>>, stack |-> s]

Pipeline(env, s) ==
    LET filled == AutoFill(env, s)
    IN IF (filled.big /\ cfg.limit) \/ filled.sev < cfg.level THEN {Lost(s)}
       ELSE IF filled.reason = "bypass" THEN {[keep |-> <<filled>>, stack |-> s]}
       ELSE {IF d = "Drop" THEN Lost(s)
             ELSE LET out == IF d = "ParentYes" THEN [filled EXCEPT !.reason = "override"] ELSE filled
                  IN [keep |-> <<out>>, stack |-> Record(out, s)] :
               d \in Decide(filled.sev, Inbound(s))}

-------------------------------------------------------------------------------
(* What the code polled on a thread does.                                  *)

Busy(th) == run[th] # Idle /\ flush[th] = <<>>

Push(th, f) == stack' = [stack EXCEPT ![th] = Append(@, f)]
Popped(s) == IF s = <<>> THEN <<>> ELSE Front(s)

MayEnter(th) ==
    LET k == run[th]
    IN /\ Busy(th) /\ task[k] = "polling"
       /\ Len(held[k]) < app.max_held
       /\ Len(stack[th]) < app.max_frames

(* scope!, context! and ScopeFrameBuilder::push. *)
Enter(th, shape) ==
    LET k == run[th]
        val == IF shape.declares THEN <<k, Len(stack[th]) + 1>> ELSE NoVal
    IN /\ MayEnter(th)
       /\ Push(th, Frame(k, shape.kind, val, shape.sampled))
       /\ held' = [held EXCEPT ![k] = Append(@, "guard")]
       /\ UNCHANGED <<run, task, left, flush, cfg, emitted, sent, app>>

(* The bridge's on_enter and on_exit: a Context frame, popped unflushed.   *)
SpanEnter(th) ==
    LET k == run[th]
    IN /\ MayEnter(th)
       /\ Push(th, Frame(k, "Context", <<k, Len(stack[th]) + 1>>, "unset"))
       /\ held' = [held EXCEPT ![k] = Append(@, "span")]
       /\ UNCHANGED <<run, task, left, flush, cfg, emitted, sent, app>>

Holding(th, what) ==
    LET k == run[th] IN Busy(th) /\ held[k] # <<>> /\ Last(held[k]) = what

LetGo(th) == held' = [held EXCEPT ![run[th]] = Front(@)]

SpanExit(th) ==
    /\ Holding(th, "span")
    /\ stack' = [stack EXCEPT ![th] = Popped(@)]
    /\ LetGo(th)
    /\ UNCHANGED <<run, task, left, flush, cfg, emitted, sent, app>>

(* Mutant of Leftover: the buffer is flushed without an error. *)
LeftoverAlways(s) == IF s # <<>> /\ Last(s).kind = "Scope" THEN Last(s).tail ELSE <<>>

(* What the drop of a guard has to flush. *)
Leftover(s) == IF s # <<>> /\ Last(s).kind = "Scope" /\ Last(s).seen_error THEN Last(s).tail ELSE <<>>

(* ScopeGuard::drop: whatever frame is on top goes, and with it the ring.  *)
DropGuard(th) ==
    /\ Holding(th, "guard")
    /\ stack' = [stack EXCEPT ![th] = Popped(@)]
    /\ flush' = [flush EXCEPT ![th] = Leftover(stack[th])]
    /\ LetGo(th)
    /\ UNCHANGED <<run, task, left, cfg, emitted, sent, app>>

(* Mutant of IntoInner: the guard is disarmed and the frame stays. *)
IntoInnerKeeps(th) ==
    /\ Holding(th, "guard")
    /\ task[run[th]] = "polling"
    /\ LetGo(th)
    /\ UNCHANGED <<stack, run, task, left, flush, cfg, emitted, sent, app>>

(* ScopeGuard::into_inner: the frame leaves unflushed, to seed a future.   *)
IntoInner(th) ==
    /\ Holding(th, "guard")
    /\ task[run[th]] = "polling"
    /\ stack' = [stack EXCEPT ![th] = Popped(@)]
    /\ LetGo(th)
    /\ UNCHANGED <<run, task, left, flush, cfg, emitted, sent, app>>

(* Ghosts: where an envelope is sent, and whether the thread's frames are  *)
(* of one task then.                                                       *)
Marked(th, env) == [env EXCEPT !.on = th, !.pure = left[th] # Mixed]

(* One envelope through emit_envelope. *)
Through(th, env) ==
    \E out \in Pipeline(Marked(th, env), stack[th]) :
        /\ stack' = [stack EXCEPT ![th] = out.stack]
        /\ sent' = sent \o out.keep

Emit(th, e, kind) ==
    /\ Busy(th) /\ task[run[th]] = "polling" /\ e \notin emitted
    /\ emitted' = emitted \union {e}
    /\ Through(th, [id |-> e, by |-> run[th], sev |-> kind.sev, reason |-> kind.reason,
                    big |-> kind.big, val |-> NoVal, on |-> th, pure |-> TRUE,
                    depth |-> Cardinality({i \in DOMAIN stack[th] : stack[th][i].kind = "Scope"})])
    /\ UNCHANGED <<run, task, left, held, flush, cfg, app>>

(* flush_through re-emits the ring, oldest first, through the same pipeline. *)
FlushOne(th) ==
    /\ flush[th] # <<>>
    /\ flush' = [flush EXCEPT ![th] = Tail(@)]
    /\ Through(th, [Head(flush[th]) EXCEPT !.reason = "tail"])
    /\ UNCHANGED <<run, task, left, held, cfg, emitted, app>>

-------------------------------------------------------------------------------
(* Polls.  Instrumented::poll and ObsHttpFuture::poll push a fresh frame   *)
(* and pop the top when the poll returns.                                  *)

Seeded(k) == SeedKind[k] # "none"

(* A thread goes on with a task.  Its frames are the task's own only if    *)
(* what lies there is what the task left when it was suspended.            *)
Resumed(th, k) ==
    left' = [u \in Thread |->
                IF u # th THEN IF left[u] = k THEN Mixed ELSE left[u]
                ELSE IF left[th] = (IF held[k] = <<>> THEN Idle ELSE k) THEN Idle ELSE Mixed]

Poll(th, k) ==
    /\ run[th] = Idle /\ task[k] = "idle"
    /\ th \in app.threads /\ (Seeded(k) => Len(stack[th]) < app.max_frames)
    /\ run' = [run EXCEPT ![th] = k]
    /\ task' = [task EXCEPT ![k] = "polling"]
    /\ Resumed(th, k)
    /\ IF Seeded(k) THEN Push(th, Frame(k, SeedKind[k], <<k, Len(stack[th]) + 1>>, "unset"))
                    ELSE UNCHANGED stack
    /\ UNCHANGED <<held, flush, cfg, emitted, sent, app>>

(* The task leaves the thread, with the guards that it still has. *)
Leaves(th, at) ==
    LET k == run[th]
    IN /\ run' = [run EXCEPT ![th] = Idle]
       /\ task' = [task EXCEPT ![k] = at]
       /\ left' = [left EXCEPT ![th] = IF @ = Mixed \/ held[k] = <<>> THEN @ ELSE k]
       /\ UNCHANGED <<held, flush, cfg, emitted, sent, app>>

LeavePoll(th, at) ==
    /\ Leaves(th, at)
    /\ stack' = [stack EXCEPT ![th] =
                    IF Seeded(run[th]) /\ task[run[th]] = "polling" THEN Popped(@) ELSE @]

MaySuspend(th) ==
    LET k == run[th] IN Busy(th) /\ task[k] = "polling" /\ (held[k] # <<>> => k \in app.holds)

(* Mutant of Pending: only a finished future pops its frame. *)
PendingKeeps(th) == MaySuspend(th) /\ Leaves(th, "idle") /\ UNCHANGED stack

(* The future returns Pending.  Guards on its own stack frames have been   *)
(* dropped, unless the task keeps one across the .await.                   *)
Pending(th) == MaySuspend(th) /\ LeavePoll(th, "idle")

(* The future ends (a result, or a panic that has unwound its guards), or  *)
(* the drop of a cancelled future ends.                                    *)
Ready(th) ==
    LET k == run[th]
    IN Busy(th) /\ held[k] = <<>> /\ LeavePoll(th, "done")

(* A pending future is dropped, on any thread: its guards go one by one. *)
Cancel(th, k) ==
    /\ run[th] = Idle /\ task[k] = "idle" /\ th \in app.threads
    /\ run' = [run EXCEPT ![th] = k]
    /\ task' = [task EXCEPT ![k] = "dropping"]
    /\ Resumed(th, k)
    /\ UNCHANGED <<stack, held, flush, cfg, emitted, sent, app>>

(* reload_config. *)
Reload(c) ==
    /\ c \in app.configs \ {cfg}
    /\ cfg' = c
    /\ UNCHANGED <<stack, run, task, held, left, flush, emitted, sent, app>>

-------------------------------------------------------------------------------
Next ==
    \/ \E th \in Thread, k \in Task : Poll(th, k) \/ Cancel(th, k)
    \/ \E th \in Thread :
         \/ \E shape \in app.shapes : Enter(th, shape)
         \/ \E e \in Event, kind \in app.kinds : Emit(th, e, kind)
         \/ SpanEnter(th) \/ SpanExit(th)
         \/ DropGuard(th) \/ IntoInner(th) \/ FlushOne(th)
         \/ Pending(th) \/ Ready(th)
    \/ \E c \in app.configs : Reload(c)

Spec == Init /\ [][Next]_vars

-------------------------------------------------------------------------------
(* The task whose frames a thread has. *)
Host(th) == IF run[th] = Idle THEN left[th] ELSE run[th]

OwnOnly(th, k) ==
    /\ \A i \in DOMAIN stack[th] : stack[th][i].owner = k
    /\ Len(stack[th]) = IF k = Idle THEN 0
                        ELSE Len(held[k]) + (IF Seeded(k) /\ task[k] = "polling" THEN 1 ELSE 0)

(* A thread's stack holds exactly the frames of the task it is polling, or *)
(* of the task that kept guards when it was suspended there last: nothing  *)
(* else is left behind, and no task pops another's.  Only when a task runs *)
(* over frames another has left, or goes on elsewhere than where its own   *)
(* lie, do the frames of a thread mix, and of no other thread.             *)
OwnStack == \A th \in Thread : left[th] # Mixed => OwnOnly(th, Host(th))

(* An envelope that leaves where frames have not mixed only carries a      *)
(* scope value of the task that emitted it, tail copies included.          *)
OwnTrace == \A i \in DOMAIN sent : sent[i].pure /\ sent[i].val # NoVal => sent[i].val[1] = sent[i].by

(* A tail copy follows an error on the same thread, and where frames have  *)
(* not mixed an error of the same task; it repeats an envelope that has    *)
(* been sent before: what the sampler dropped never comes back.  Whatever  *)
(* tasks share the thread, it keeps the correlation of the first copy,     *)
(* although it passes auto-fill again under outer frames, and although it  *)
(* lands in the ring of the next outer scope, each scope that was open     *)
(* adds at most one copy.                                                  *)
TailCopies ==
    \A i \in DOMAIN sent :
      LET copies == {j \in DOMAIN sent : sent[j].id = sent[i].id}
      IN /\ sent[i].reason = "tail" =>
              /\ \E j \in 1..(i - 1) : /\ sent[j].sev >= Error /\ sent[j].on = sent[i].on
                                       /\ sent[i].pure => sent[j].by = sent[i].by
              /\ \E j \in copies : j < i
         /\ \A j \in copies : sent[j].val = sent[i].val
         /\ Cardinality(copies) <= 1 + sent[i].depth

(* "the frame is task-scoped (not thread-scoped) and survives executor     *)
(* migration" (instrument_attr.rs:76-77): whatever a task polls under is   *)
(* its own, and there is a frame for each guard it has.                    *)
TaskScoped == \A th \in Thread : run[th] # Idle => OwnOnly(th, run[th])
===============================================================================
