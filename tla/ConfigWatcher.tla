---------------------------- MODULE ConfigWatcher ----------------------------
(* The obs.yaml watcher: an editor saves the file, the file system reports    *)
(* events to a channel, and the watcher thread debounces on the leading edge, *)
(* reads the file and hands the result to on_change, which reloads.           *)
EXTENDS Naturals, Sequences

CONSTANTS
    MaxSaves,       \* bound on the saves
    MaxOther        \* bound on events about other files of the directory

VARIABLES
    file,           \* what obs.yaml holds: [version, torn], torn = half written
    saving,         \* is a save in place under way?
    saves, others,
    events,         \* the channel: [kind, about], about = the path reported
    recent,         \* is last_fire younger than DEFAULT_DEBOUNCE?
    active,         \* the configuration in force
    failed,         \* ObsConfigReloadFailed self-events
    skipped,        \* history: was the last event about the file debounced?
    dropped         \* was the ConfigWatcher dropped?

watchVars == <<file, saving, saves, others, events, recent, active, failed, skipped, dropped>>

WatchInit ==
    /\ file = [version |-> 0, torn |-> FALSE] /\ saving = FALSE /\ saves = 0 /\ others = 0
    /\ events = <<>> /\ recent = FALSE /\ active = 0 /\ failed = 0 /\ skipped = FALSE
    /\ dropped = FALSE

(* notify's callback sends to the channel while the watcher exists.           *)
Report(kind, about) == events' = IF dropped THEN events ELSE Append(events, [kind |-> kind, about |-> about])

(* Saving in place: truncate and write are two changes, each reported ...     *)
BeginSave ==
    /\ saves < MaxSaves /\ ~saving
    /\ saves' = saves + 1 /\ saving' = TRUE /\ file' = [version |-> saves + 1, torn |-> TRUE]
    /\ Report("modify", "target")
    /\ UNCHANGED <<others, recent, active, failed, skipped, dropped>>

EndSave ==
    /\ saving /\ saving' = FALSE /\ file' = [file EXCEPT !.torn = FALSE]
    /\ Report("modify", "target")
    /\ UNCHANGED <<saves, others, recent, active, failed, skipped, dropped>>

(* ... a rename over the file, as editors do, is a creation.                  *)
RenameSave ==
    /\ saves < MaxSaves /\ ~saving
    /\ saves' = saves + 1 /\ file' = [version |-> saves + 1, torn |-> FALSE]
    /\ Report("create", "target")
    /\ UNCHANGED <<saving, others, recent, active, failed, skipped, dropped>>

(* Reads are reported for the file, changes for its neighbours.               *)
OtherEvent ==
    /\ others < MaxOther /\ others' = others + 1
    /\ \E ev \in {<<"access", "target">>, <<"modify", "other">>} : Report(ev[1], ev[2])
    /\ UNCHANGED <<file, saving, saves, recent, active, failed, skipped, dropped>>

IsRelevantModify(ev) == ev.kind = "modify" /\ ev.about = "target"

IsRelevant(ev) == ev.kind \in {"modify", "create", "remove"} /\ ev.about = "target"

(* One turn of the watcher thread.  A file that does not parse leaves the     *)
(* configuration in force.                                                    *)
Receive ==
    /\ events # <<>> /\ events' = Tail(events)
    /\ LET ev == Head(events) IN
       IF ~IsRelevant(ev) THEN UNCHANGED <<recent, active, failed, skipped>>
       ELSE IF recent THEN skipped' = TRUE /\ UNCHANGED <<recent, active, failed>>
       ELSE /\ recent' = TRUE /\ skipped' = FALSE
            /\ active' = IF file.torn THEN active ELSE file.version
            /\ failed' = failed + IF file.torn THEN 1 ELSE 0
    /\ UNCHANGED <<file, saving, saves, others, dropped>>

DebounceOver ==
    /\ recent /\ recent' = FALSE
    /\ UNCHANGED <<file, saving, saves, others, events, active, failed, skipped, dropped>>

(* Dropping the handle drops the sender: the thread ends after the queue.     *)
DropWatcher ==
    /\ ~dropped /\ dropped' = TRUE
    /\ UNCHANGED <<file, saving, saves, others, events, recent, active, failed, skipped>>

WatchNext ==
    BeginSave \/ EndSave \/ RenameSave \/ OtherEvent \/ Receive \/ DebounceOver \/ DropWatcher

WatchSpec == WatchInit /\ [][WatchNext]_watchVars

-----------------------------------------------------------------------------
(* When the watcher has read every event, the configuration in force is what  *)
(* the file holds, unless the last event about the file came within the       *)
(* debounce window: the leading-edge debounce is the only way a save, in      *)
(* place or by rename, is missed.                                             *)
ReloadsLatest == events = <<>> /\ ~skipped /\ ~dropped /\ ~file.torn => active = file.version
=============================================================================
