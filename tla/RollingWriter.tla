---------------------------- MODULE RollingWriter -----------------------------
(* RollingFileWriter (sink/writer.rs) under NdjsonFileSink (sink/ndjson.rs):  *)
(* the current file and its rotation, retention in the directory, restarts   *)
(* of the process, and I/O errors that the sink ignores.                     *)
(*                                                                           *)
(* writeln! formats a JSON value without a buffer, so a line reaches the     *)
(* writer as several write calls: its pieces.  A file is a sequence of       *)
(* pieces with a time of modification; the clock does not go back, and it is *)
(* coarse: what happens between two ticks has the same time.                 *)
EXTENDS Integers, Sequences, FiniteSets, SequencesExt

CONSTANTS
    Writers,      \* NdjsonFileSinks that share the RollingFileWriter
    MaxRollLines, \* bound on the lines delivered
    Pieces,       \* write calls per line
    RollConfigs,  \* policy, keep (or -1) and number of processes
    MaxBytes,     \* max_bytes of the size policies, in pieces
    Period,       \* length of a day, or of an hour, or max_age
    MaxClock,     \* bound on the clock
    MaxFails      \* bound on I/O errors

ASSUME RollingAssumption ==
    /\ Pieces \in Nat \ {0} /\ MaxBytes \in Nat \ {0} /\ Period \in Nat \ {0}
    /\ MaxRollLines \in Nat /\ MaxClock \in Nat /\ MaxFails \in Nat
    /\ RollConfigs \subseteq [policy : {"Never", "SizeBased", "Periodic", "SizeOrAge"},
                         keep : Nat \union {-1}, procs : Nat]

VARIABLES
    cfg,          \* RollingInner: policy and keep
    cur,          \* RollingInner::current, with its name, whether open() found the file
                  \* there, and whether the name is still its own
    roll_counter, \* ROLL_COUNTER
    text,         \* the directory: pieces in each listed file
    modified,     \* and when it was last written
    ndjson,       \* deliver(), per sink
    begun,        \* number of lines handed to a sink; a line is its number
    clock, procs, fails,
    written,      \* NdjsonFileSink::written, all sinks together
    writes,       \* ghost: pieces that write() acknowledged, in order
    deleted,      \* ghost: pieces in files that are no longer listed
    outlived      \* ghost: when the files were written that an eviction without an
                  \* error removed

rollVars == <<cfg, cur, roll_counter, text, modified, ndjson, begun, clock, procs, fails, written,
              writes, deleted, outlived>>

Closed == [name |-> <<>>, bytes |-> 0, opened |-> 0, reused |-> FALSE, entry |-> "lost"]
AtRest == [at |-> "idle", line |-> 0, next |-> 1]

(* RollingFileWriterBuilder::build: no file is opened yet. *)
RollInit ==
    /\ cfg \in RollConfigs
    /\ cur = Closed /\ roll_counter = 0 /\ text = <<>> /\ modified = <<>>
    /\ ndjson = [s \in Writers |-> AtRest] /\ begun = 0
    /\ clock = 0 /\ procs = 1 /\ fails = 0
    /\ written = 0 /\ writes = <<>> /\ deleted = {} /\ outlived = {}

-------------------------------------------------------------------------------
(* RollingInner, on a record of the state its mutex and the file system hold. *)

Disk == [cur |-> cur, roll_counter |-> roll_counter, text |-> text, modified |-> modified,
         deleted |-> deleted, outlived |-> outlived]

(* should_rotate. *)
ShouldRotate(c) ==
    CASE cfg.policy = "Never"     -> FALSE
      [] cfg.policy = "SizeBased" -> c.bytes >= MaxBytes
      [] cfg.policy = "Periodic"  -> c.opened \div Period # clock \div Period
      [] cfg.policy = "SizeOrAge" -> c.bytes >= MaxBytes \/ clock - c.opened >= Period

(* The stamp of a file name: the day or hour, the roll_counter, or both. *)
Stamp(n) ==
    CASE cfg.policy = "Periodic"  -> <<clock \div Period>>
      [] cfg.policy = "SizeBased" -> <<n>>
      [] OTHER                    -> <<clock, n>>

(* A directory entry is added. *)
With(table, name, value) ==
    [n \in DOMAIN table \union {name} |-> IF n = name THEN value ELSE table[n]]

(* open_new: create or append; the count of bytes starts at zero, and an   *)
(* existing file keeps its time of modification.                           *)
OpenNew(d) ==
    LET name == Stamp(d.roll_counter)
        old == name \in DOMAIN d.text
    IN [d EXCEPT !.cur = [name |-> name, bytes |-> 0, opened |-> clock, reused |-> old, entry |-> "own"],
                 !.roll_counter = IF cfg.policy = "Periodic" THEN @ ELSE @ + 1,
                 !.text = IF old THEN @ ELSE With(@, name, <<>>),
                 !.modified = IF old THEN @ ELSE With(@, name, clock)]

(* The files in out are removed from the directory. *)
Removed(d, out, entry) ==
    [d EXCEPT !.text = [n \in DOMAIN @ \ out |-> @[n]],
              !.modified = [n \in DOMAIN @ \ out |-> @[n]],
              !.cur.entry = IF d.cur.name \in out THEN entry ELSE @,
              !.deleted = @ \union UNION {Range(d.text[n]) : n \in out},
              !.outlived = IF entry = "evicted" THEN @ \union {d.modified[n] : n \in out} ELSE @]

Extras(d) == Cardinality(DOMAIN d.text) - cfg.keep

(* Mutant of Evict: the most recent files go. *)
EvictNewest(d) ==
    IF cfg.keep = -1 \/ Extras(d) <= 0 THEN {d}
    ELSE {Removed(d, out, "evicted") : out \in
            {o \in SUBSET DOMAIN d.text : /\ Cardinality(o) = Extras(d)
                                         /\ \A m \in o, n \in DOMAIN d.text \ o : d.modified[m] >= d.modified[n]}}

(* maybe_evict_old: the files beyond keep that were modified least recently *)
(* go, in any order of those of one tick.  With an I/O error in it (the    *)
(* directory or an entry is not read, a file of unknown time counts as the *)
(* oldest, a removal fails) it may be any of them, and fewer.              *)
Evict(d) ==
    IF cfg.keep = -1 \/ Extras(d) <= 0 THEN {d}
    ELSE {Removed(d, out, "evicted") : out \in
            {o \in SUBSET DOMAIN d.text : /\ Cardinality(o) = Extras(d)
                                         /\ \A m \in o, n \in DOMAIN d.text \ o : d.modified[m] <= d.modified[n]}}
         \union {Removed(d, out, "lost") : out \in
                   {o \in SUBSET DOMAIN d.text : Cardinality(o) <= Extras(d)}}

(* Does with_state open a file before it hands out the state? *)
Opens == cur = Closed \/ ShouldRotate(cur)

(* with_state: the first file is opened, or a due rotation is made. *)
WithState ==
    LET d == IF cur = Closed THEN OpenNew(Disk) ELSE Disk
    IN IF ShouldRotate(d.cur) THEN Evict(OpenNew(d)) ELSE {d}

(* A piece is written to the current file, which may have lost its entry. *)
Appended(d, p) ==
    IF d.cur.entry = "own"
      THEN [d EXCEPT !.text[d.cur.name] = Append(@, p), !.modified[d.cur.name] = clock]
      ELSE [d EXCEPT !.deleted = @ \union {p}]

Becomes(d) ==
    /\ cur' = d.cur /\ roll_counter' = d.roll_counter /\ text' = d.text /\ modified' = d.modified
    /\ deleted' = d.deleted /\ outlived' = d.outlived

diskVars == <<cur, roll_counter, text, modified, deleted, outlived>>

-------------------------------------------------------------------------------
(* NdjsonFileSink::deliver under the sink's mutex.                         *)

DeliverLine(s) ==
    /\ ndjson[s].at = "idle" /\ begun < MaxRollLines
    /\ begun' = begun + 1
    /\ ndjson' = [ndjson EXCEPT ![s] = [AtRest EXCEPT !.at = "write", !.line = begun + 1]]
    /\ UNCHANGED <<cfg, diskVars, clock, procs, fails, written, writes>>

(* RollingFileHandle::write: one piece under the lock. *)
WritePiece(s) ==
    LET p == <<ndjson[s].line, ndjson[s].next>>
    IN /\ ndjson[s].at = "write"
       /\ \E d \in WithState : Becomes(Appended(d, p))
       /\ writes' = Append(writes, p)
       /\ ndjson' = [ndjson EXCEPT ![s].at = "note"]
       /\ UNCHANGED <<cfg, begun, clock, procs, fails, written>>

(* The write fails, or before it the opening of a file, which leaves the   *)
(* current one in place: writeln! gives up on the rest of the line.        *)
WritePieceFails(s) ==
    /\ ndjson[s].at = "write" /\ fails < MaxFails
    /\ fails' = fails + 1
    /\ \/ Opens /\ UNCHANGED diskVars
       \/ \E d \in WithState : Becomes(d)
    /\ ndjson' = [ndjson EXCEPT ![s].at = "flush"]
    /\ UNCHANGED <<cfg, begun, clock, procs, written, writes>>

(* note_bytes takes the lock again: the file may be another one by now. *)
NoteBytes(s) ==
    /\ ndjson[s].at = "note"
    /\ cur' = [cur EXCEPT !.bytes = @ + 1]
    /\ ndjson' = [ndjson EXCEPT ![s].next = @ + 1, ![s].at = IF ndjson[s].next = Pieces THEN "flush" ELSE "write"]
    /\ UNCHANGED <<cfg, begun, roll_counter, text, modified, deleted, outlived, clock, procs, fails, written, writes>>

(* The end of deliver: the line is counted whatever happened to it. *)
Finish(s) ==
    /\ ndjson' = [ndjson EXCEPT ![s] = AtRest]
    /\ written' = written + 1

(* RollingFileHandle::flush: sync_data of the file that is current after a *)
(* rotation that may be due.                                               *)
FlushLine(s) ==
    /\ ndjson[s].at = "flush"
    /\ \E d \in WithState : Becomes(d)
    /\ Finish(s)
    /\ UNCHANGED <<cfg, begun, clock, procs, fails, writes>>

FlushLineFails(s) ==
    /\ ndjson[s].at = "flush" /\ fails < MaxFails
    /\ fails' = fails + 1
    /\ \/ Opens /\ UNCHANGED diskVars
       \/ \E d \in WithState : Becomes(d)
    /\ Finish(s)
    /\ UNCHANGED <<cfg, begun, clock, procs, writes>>

-------------------------------------------------------------------------------
Tick ==
    /\ clock < MaxClock
    /\ clock' = clock + 1
    /\ UNCHANGED <<cfg, begun, diskVars, ndjson, procs, fails, written, writes>>

(* The process ends and another one builds a writer on the directory. *)
RestartWriter ==
    /\ procs < cfg.procs
    /\ procs' = procs + 1
    /\ cur' = Closed /\ roll_counter' = 0
    /\ ndjson' = [s \in Writers |-> AtRest]
    /\ UNCHANGED <<cfg, begun, text, modified, deleted, outlived, clock, fails, written, writes>>

RollNext ==
    \/ \E s \in Writers :
         \/ DeliverLine(s) \/ WritePiece(s) \/ WritePieceFails(s) \/ NoteBytes(s) \/ FlushLine(s) \/ FlushLineFails(s)
    \/ Tick \/ RestartWriter

-------------------------------------------------------------------------------
ListedIn(d) == UNION {Range(d.text[n]) : n \in DOMAIN d.text}
Listed == ListedIn(Disk)

(* p was written before q. *)
Before(w, p, q) == \A i, j \in DOMAIN w : w[i] = p /\ w[j] = q => i < j

(* Rotation, restarts and errors neither lose a piece that write()           *)
(* acknowledged nor repeat one: it is in one listed file, or went with one;  *)
(* and a file holds its pieces in the order of the writes.                   *)
FilesAccounted ==
    /\ Listed \union deleted = Range(writes) /\ Listed \cap deleted = {}
    /\ \A m, n \in DOMAIN text : m # n => Range(text[m]) \cap Range(text[n]) = {}
    /\ \A n \in DOMAIN text : \A i, j \in DOMAIN text[n] :
         i < j => Before(writes, text[n][i], text[n][j])

(* Every piece that write() acknowledged is accounted for.  An eviction       *)
(* without I/O errors takes no file that was written later than one it        *)
(* leaves.  It takes the file that is being written only if nothing is kept,  *)
(* if that file is one of an earlier process, or if another file was written  *)
(* in the tick in which it was opened, or since.                              *)
Kept ==
    /\ FilesAccounted
    /\ \A t \in outlived, n \in DOMAIN text : t <= modified[n]
    /\ cur.entry = "evicted" =>
         cfg.keep = 0 \/ cur.reused \/ \E n \in DOMAIN text : modified[n] >= cur.opened
=============================================================================
