----------------------------- MODULE EventFilter ------------------------------
(* obs::Filter (filter.rs): directives are parsed and added one by one,    *)
(* and two stages read them.  callsite_interest decides once per callsite, from    *)
(* its full_name, its module and its default severity; event_allowed       *)
(* decides per envelope, from the full_name, the labels and the severity.  *)
(*                                                                         *)
(* A name or a target is the sequence of its segments, so matches_segment  *)
(* is the prefix order.  A directive as written is its three parts, each   *)
(* well formed or not.                                                     *)
EXTENDS Integers, Sequences, FiniteSets, SequencesExt

CONSTANTS
    Callsite,     \* records [full, module, sev]
    Target,       \* targets a directive may have
    Length,       \* target -> its length in characters
    OffWord,      \* the target spelled like the keyword off
    LevelOf,      \* the targets spelled like a level, and which
    Fields,       \* field clauses a directive may have, {} included
    Labels,       \* label sets an envelope may carry
    Level,        \* severities
    DefaultLevel, \* the severity floor of an empty filter
    MaxDirectives \* bound on the directives of a filter

ASSUME FilterAssumption ==
    /\ Target \subseteq Seq(STRING) \ {<<>>}
    /\ Length \in [Target -> Nat]
    /\ \A s, t \in Target : IsPrefix(s, t) /\ s # t => Length[s] < Length[t]
    /\ OffWord \in Target /\ DOMAIN LevelOf \subseteq Target
    /\ \A w \in DOMAIN LevelOf : LevelOf[w] \in Level
    /\ Level \subseteq Nat /\ DefaultLevel \in Level
    /\ \A c \in Callsite : c.sev \in Level

VARIABLES
    default_level, \* Filter::default_level
    default_off,   \* Filter::default_off
    statics,       \* Filter::statics
    dynamics,      \* Filter::dynamics, target -> directives
    malformed      \* Filter::parse returned an error

filterVars == <<default_level, default_off, statics, dynamics, malformed>>

NoTarget == <<>>

Trace == CHOOSE l \in Level : \A k \in Level : l <= k

(* One piece of split_directives: a word, a [..] block of fields, and what *)
(* follows the = sign.                                                     *)
Raw ==
    {r \in [word : Target \union {NoTarget}, block : {"none", "ok", "bad"}, fields : Fields,
            set : {"none", "level", "off", "bad"}, level : Level] :
       (r.block # "ok" => r.fields = {}) /\ (r.set # "level" => r.level = Trace)}

(* The grammar takes a piece whole or not at all: the block must close and *)
(* hold key=value clauses, = must be followed by a level or off.           *)
WellFormed(raw) == raw.block # "bad" /\ raw.set # "bad"

(* bare_off and bare_level: the word alone, with neither [ nor = behind.   *)
Bare(raw) == raw.block = "none" /\ raw.set = "none"

Directive(target, fields, level, off) ==
    [target |-> target, fields |-> fields, level |-> level, off |-> off]

(* directive_full: a keyword, or head with an optional level or off.       *)
ParseDirective(raw) ==
    IF Bare(raw) /\ raw.word = OffWord THEN Directive(NoTarget, {}, Trace, TRUE)
    ELSE IF Bare(raw) /\ raw.word \in DOMAIN LevelOf
      THEN Directive(NoTarget, {}, LevelOf[raw.word], FALSE)
      ELSE Directive(raw.word, IF raw.block = "ok" THEN raw.fields ELSE {},
                     IF raw.set = "level" THEN raw.level ELSE Trace, raw.set = "off")

FilterInit ==
    /\ default_level = DefaultLevel
    /\ default_off = FALSE
    /\ statics = <<>>
    /\ dynamics = [t \in Target \union {NoTarget} |-> <<>>]
    /\ malformed = FALSE

(* Filter::add_directive. *)
AddBare(d) ==
    /\ d.target = NoTarget /\ d.fields = {}
    /\ default_off' = d.off
    /\ default_level' = IF d.off THEN default_level ELSE d.level
    /\ UNCHANGED <<statics, dynamics, malformed>>

AddStatic(d) ==
    /\ d.target # NoTarget /\ d.fields = {}
    /\ statics' = Append(statics, d)
    /\ UNCHANGED <<default_level, default_off, dynamics, malformed>>

AddDynamic(d) ==
    /\ d.fields # {}
    /\ dynamics' = [dynamics EXCEPT ![d.target] = Append(@, d)]
    /\ UNCHANGED <<default_level, default_off, statics, malformed>>

Directives == Len(statics) + Cardinality({d \in (DOMAIN dynamics) \X (1..MaxDirectives) : d[2] <= Len(dynamics[d[1]])})

(* One bad piece refuses the whole text; empty pieces are skipped. *)
Refuse ==
    /\ malformed' = TRUE
    /\ UNCHANGED <<default_level, default_off, statics, dynamics>>

FilterNext ==
    /\ ~malformed
    /\ \/ (\E raw \in Raw : ~WellFormed(raw)) /\ Refuse
       \/ \E raw \in {r \in Raw : WellFormed(r) /\ ~(Bare(r) /\ r.word = NoTarget)} :
            LET d == ParseDirective(raw) IN
            \/ AddBare(d)
            \/ Directives < MaxDirectives /\ (AddStatic(d) \/ AddDynamic(d))

FilterBehaviour == FilterInit /\ [][FilterNext]_filterVars

-------------------------------------------------------------------------------
(* The two stages.                                                         *)

NoModule == <<>>

Matches(d, full, module) == IsPrefix(d.target, full) \/ IsPrefix(d.target, module)

Nothing == [found |-> FALSE, off |-> FALSE, level |-> 0]

(* The scan keeps the first of the matching directives with the longest    *)
(* target: a later one replaces it only when its target is longer.         *)
Best(matching) ==
    CHOOSE i \in matching : \A j \in matching :
        LET len(k) == Length[statics[k].target] IN len(j) < len(i) \/ (len(j) = len(i) /\ i <= j)

(* Filter::static_level_for. *)
StaticLevelFor(full, module) ==
    LET matching == {i \in DOMAIN statics : Matches(statics[i], full, module)}
    IN IF matching = {} THEN Nothing
       ELSE [found |-> TRUE, off |-> statics[Best(matching)].off, level |-> statics[Best(matching)].level]

HasDynamicFor(full) == full \in DOMAIN dynamics /\ dynamics[full] # <<>>

(* A static directive, or the bare floor, refuses a severity. *)
Blocks(best, sev) ==
    IF best.found THEN best.off \/ sev < best.level ELSE default_off \/ sev < default_level

(* Mutant of CallsiteInterest: dynamic directives do not rescue a callsite. *)
CallsiteInterestNoRescue(c) ==
    IF Blocks(StaticLevelFor(c.full, c.module), c.sev) THEN "Never" ELSE "Always"

(* Filter::callsite_interest. *)
CallsiteInterest(c) ==
    IF HasDynamicFor(c.full) THEN "Sometimes"
    ELSE IF Blocks(StaticLevelFor(c.full, c.module), c.sev) THEN "Never" ELSE "Always"

(* The dynamic directive that decides an envelope: the first that matches. *)
Deciding(full, labels) ==
    IF HasDynamicFor(full) THEN SelectSeq(dynamics[full], LAMBDA d : d.fields \subseteq labels) ELSE <<>>

(* Filter::event_allowed. *)
EventAllowed(full, labels, sev) ==
    LET ds == Deciding(full, labels)
    IN IF ds # <<>> THEN ~Head(ds).off /\ sev >= Head(ds).level
       ELSE ~Blocks(StaticLevelFor(full, NoModule), sev)

-------------------------------------------------------------------------------
(* The stages agree as long as no directive names a module: an event of a  *)
(* callsite answered Always passes event_allowed, and no envelope of one   *)
(* answered Never would have, whatever its labels.                         *)
StagesAgree ==
    \A c \in Callsite : (\A i \in DOMAIN statics : ~IsPrefix(statics[i].target, c.module)) =>
      /\ CallsiteInterest(c) = "Always" => \A l \in Labels : EventAllowed(c.full, l, c.sev)
      /\ CallsiteInterest(c) = "Never" => \A l \in Labels : ~EventAllowed(c.full, l, c.sev)

(* A directive for a module lets events of the module through: the head of *)
(* filter.rs lists target=level with the target myapp::auth.               *)
AlwaysIsAllowed ==
    \A c \in Callsite : CallsiteInterest(c) = "Always" => \A l \in Labels : EventAllowed(c.full, l, c.sev)
===============================================================================
