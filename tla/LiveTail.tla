------------------------------ MODULE LiveTail ------------------------------
(* The live-tail registry (obs-live-tail): subscribe() with its caps,        *)
(* delivery to the bounded channel of every matching subscriber, removal by  *)
(* unsubscribe(), kick() and the sweeps, and receivers that read or go away. *)
(* Each access to an entry of the concurrent map is one step.                *)
EXTENDS Naturals, Sequences, FiniteSets, SequencesExt

CONSTANTS
    Clients,        \* callers of subscribe()
    MaxMessages,    \* bound on the envelopes, numbered as one worker delivers them
    TailFilters,    \* what subscribers ask for: a set of sets of those numbers
    MaxTotal,       \* config.max_total
    MaxPerKey,      \* config.max_per_key for the filters' label
    Capacity,       \* config.channel_capacity
    MaxSubs         \* bound on the subscribers ever made

ASSUME TailAssumption ==
    IsFiniteSet(Clients) /\ Clients # {} /\ MaxTotal \in Nat /\ MaxPerKey \in Nat

VARIABLES
    subs,           \* every subscriber made: [filter, in, open, queue, got, delivered, missed, since]
    client,         \* where each client is
    tail,           \* where the delivering worker is
    sent            \* the messages delivered so far, in order

tailVars == <<subs, client, tail, sent>>

Present == {i \in DOMAIN subs : subs[i].in}
Away == [pc |-> "away"]
New(filter) ==
    [filter |-> filter, in |-> TRUE, open |-> TRUE, queue |-> <<>>, got |-> <<>>,
     delivered |-> 0, missed |-> 0, since |-> Len(sent)]

TailInit == subs = <<>> /\ client = [c \in Clients |-> Away] /\ tail = Away /\ sent = <<>>

(* An entry leaves the map: the sender is dropped, and the receiver ends     *)
(* after what is queued.                                                     *)
Without(i) == [subs EXCEPT ![i].in = FALSE]

(* subscribe() first sweeps the channels whose receiver is gone ...          *)
SweepClosed(c, filter) ==
    /\ client[c] = Away /\ Len(subs) < MaxSubs
    /\ subs' = [i \in DOMAIN subs |->
                  IF subs[i].in /\ ~subs[i].open THEN [subs[i] EXCEPT !.in = FALSE] ELSE subs[i]]
    /\ client' = [client EXCEPT ![c] = [pc |-> "caps", filter |-> filter]]
    /\ UNCHANGED <<tail, sent>>

(* ... then checks the total and the number of subscribers with the same     *)
(* label matcher ...                                                         *)
EnforceCaps(c) ==
    /\ client[c].pc = "caps"
    /\ client' = [client EXCEPT ![c] =
         IF /\ Cardinality(Present) < MaxTotal
            /\ Cardinality({i \in Present : subs[i].filter = client[c].filter}) < MaxPerKey
         THEN [client[c] EXCEPT !.pc = "insert"] ELSE Away]
    /\ UNCHANGED <<subs, tail, sent>>

(* ... and inserts; a walk in progress may still come to the new entry.      *)
Subscribe(c, late) ==
    /\ client[c].pc = "insert" /\ Len(subs) < MaxSubs
    /\ late => tail.pc = "walk" /\ tail.todo # {}
    /\ subs' = Append(subs, [New(client[c].filter) EXCEPT !.since = @ - IF late THEN 1 ELSE 0])
    /\ tail' = IF late THEN [tail EXCEPT !.todo = @ \cup {Len(subs')}] ELSE tail
    /\ client' = [client EXCEPT ![c] = Away]
    /\ UNCHANGED sent

(* unsubscribe() and kick(); sweep_idle() removes the ids its scan found     *)
(* idle, which is up to the clock, without looking at them again.            *)
Unsubscribe(i) ==
    /\ i \in Present
    /\ subs' = Without(i)
    /\ UNCHANGED <<client, tail, sent>>

SweepIdle(c, ids) ==
    /\ \A d \in Clients : client[d].pc # "sweep"        \* one sweeper
    /\ client[c] = Away /\ ids # {}
    /\ client' = [client EXCEPT ![c] = [pc |-> "sweep", ids |-> ids]]
    /\ UNCHANGED <<subs, tail, sent>>

SweepNext(c, i) ==
    /\ client[c].pc = "sweep" /\ i \in client[c].ids
    /\ subs' = Without(i)
    /\ client' = [client EXCEPT ![c].ids = @ \ {i}]
    /\ UNCHANGED <<tail, sent>>

Swept(c) ==
    /\ client[c].pc = "sweep" /\ client[c].ids = {}
    /\ client' = [client EXCEPT ![c] = Away]
    /\ UNCHANGED <<subs, tail, sent>>

(* deliver_envelope() walks the map: an entry that is there during the whole *)
(* walk is visited once; one that comes meanwhile may be missed.             *)
StartDelivery ==
    /\ tail = Away /\ Len(sent) < MaxMessages
    /\ sent' = Append(sent, Len(sent) + 1)
    /\ tail' = [pc |-> "walk", msg |-> Len(sent'), todo |-> Present, gone |-> {}]
    /\ UNCHANGED <<subs, client>>

TrySendUncounted(s, m) ==
    IF Len(s.queue) < Capacity
    THEN [s EXCEPT !.queue = Append(@, m), !.delivered = @ + 1]
    ELSE s

TrySend(s, m) ==
    IF Len(s.queue) < Capacity
    THEN [s EXCEPT !.queue = Append(@, m), !.delivered = @ + 1]
    ELSE [s EXCEPT !.missed = @ + 1]

Visit(i) ==
    LET m == tail.msg IN
    /\ tail.pc = "walk" /\ i \in tail.todo
    /\ IF ~subs[i].in \/ m \notin subs[i].filter THEN subs' = subs /\ tail' = [tail EXCEPT !.todo = @ \ {i}]
       ELSE IF ~subs[i].open
            THEN subs' = subs /\ tail' = [tail EXCEPT !.todo = @ \ {i}, !.gone = @ \cup {i}]
            ELSE /\ subs' = [subs EXCEPT ![i] = TrySend(subs[i], m)]
                 /\ tail' = [tail EXCEPT !.todo = @ \ {i}]
    /\ UNCHANGED <<client, sent>>

(* The closed channels found on the way are removed at the end.              *)
DropClosed(i) ==
    /\ tail.pc = "walk" /\ tail.todo = {} /\ i \in tail.gone
    /\ subs' = Without(i)
    /\ tail' = [tail EXCEPT !.gone = @ \ {i}]
    /\ UNCHANGED <<client, sent>>

EndDelivery ==
    /\ tail.pc = "walk" /\ tail.todo = {} /\ tail.gone = {}
    /\ tail' = Away
    /\ UNCHANGED <<subs, client, sent>>

(* SubscriberReceiver::recv, and its drop.                                   *)
Recv(i) ==
    /\ subs[i].open /\ subs[i].queue # <<>>
    /\ subs' = [subs EXCEPT ![i].got = Append(@, Head(subs[i].queue)), ![i].queue = Tail(@)]
    /\ UNCHANGED <<client, tail, sent>>

DropReceiver(i) ==
    /\ subs[i].open
    /\ subs' = [subs EXCEPT ![i].open = FALSE]
    /\ UNCHANGED <<client, tail, sent>>

TailNext ==
    \/ \E c \in Clients :
         \/ \E f \in TailFilters : SweepClosed(c, f)
         \/ EnforceCaps(c) \/ Swept(c)
         \/ \E ids \in SUBSET Present : SweepIdle(c, ids)
         \/ \E i \in DOMAIN subs : SweepNext(c, i)
         \/ \E late \in BOOLEAN : Subscribe(c, late)
    \/ StartDelivery \/ EndDelivery
    \/ \E i \in DOMAIN subs :
         \/ Unsubscribe(i) \/ Visit(i) \/ DropClosed(i)
         \/ Recv(i) \/ DropReceiver(i)

-----------------------------------------------------------------------------
Entering == {c \in Clients : client[c].pc = "insert"}

(* The caps are exceeded by no more than the subscribers that passed the     *)
(* check together.                                                           *)
TailCaps ==
    /\ Cardinality(Present) + Cardinality(Entering) <= MaxTotal + Cardinality(Clients) - 1
    /\ \A f \in TailFilters :
         Cardinality({i \in Present : subs[i].filter = f})
           + Cardinality({c \in Entering : client[c].filter = f})
         <= MaxPerKey + Cardinality(Clients) - 1

(* What a subscriber got or will get, the matching messages since it came,   *)
(* and whether the walk has yet to come to its entry with one more.          *)
Seen(s) == s.got \o s.queue
Matching(s) == {m \in (s.since + 1)..Len(sent) : sent[m] \in s.filter}
Awaited(i) == IF tail.pc = "walk" /\ i \in tail.todo /\ tail.msg \in subs[i].filter THEN 1 ELSE 0

(* A subscriber reads matching messages in the order they were delivered,    *)
(* none twice; its counter says what it got; and while its entry stays in    *)
(* the map every matching message since it came is, once the walk has come   *)
(* by, delivered or counted as missed, and never both.                       *)
TailInOrder == \A i \in DOMAIN subs :
    LET s == subs[i] IN
    /\ s.delivered = Len(Seen(s))
    /\ \A j \in DOMAIN Seen(s) : Seen(s)[j] \in Matching(s)
    /\ \A j, k \in DOMAIN Seen(s) : j < k => Seen(s)[j] < Seen(s)[k]
    /\ s.in /\ s.open => s.delivered + s.missed + Awaited(i) = Cardinality(Matching(s))
=============================================================================
