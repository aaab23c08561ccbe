------------------------------ MODULE BoundedFifo ------------------------------
(* What the worker of a tier promises to those who emit: what it has taken is *)
(* handed on once, in order, and no more than Bound items wait; when it is    *)
(* asked to stop it hands on at least what it took before, syncs, and takes   *)
(* and hands on nothing after that.  Handing an item on may break it, and so  *)
(* may the sync of an orderly stop: then it is closed with what waits.        *)
(* Channel, drain task, flag and handles are left to the worker, which        *)
(* implements this specification.                                             *)
EXTENDS Integers, Sequences

CONSTANTS
    Items,        \* what can be sent, each at most once
    Bound,        \* how many items may wait
    None          \* not a number

VARIABLES
    sent,         \* the items taken, in order
    received,     \* the items handed on, in order
    synced,       \* how many of received are synced
    asked,        \* how many were taken when a stop was first asked for, or None
    closed,       \* nothing is taken or handed on any more
    broken        \* by a failure of the one it hands items to

fifoVars == <<sent, received, synced, asked, closed, broken>>

Init ==
    /\ sent = <<>> /\ received = <<>> /\ synced = 0 /\ asked = None
    /\ closed = FALSE /\ broken = FALSE

Send(x) ==
    /\ ~closed /\ Len(sent) - Len(received) < Bound
    /\ x \notin {sent[i] : i \in DOMAIN sent}
    /\ sent' = Append(sent, x)
    /\ UNCHANGED <<received, synced, asked, closed, broken>>

HandOn ==
    /\ Len(received) < Len(sent)
    /\ received' = Append(received, sent[Len(received) + 1])

Receive ==
    /\ ~closed /\ HandOn
    /\ UNCHANGED <<sent, synced, asked, closed, broken>>

Sync ==
    /\ synced' = Len(received)
    /\ UNCHANGED <<sent, received, asked, closed, broken>>

Ask ==
    /\ asked = None /\ asked' = Len(sent)
    /\ UNCHANGED <<sent, received, synced, closed, broken>>

MayStop == asked # None /\ asked <= Len(received)

Close ==
    /\ ~closed /\ closed' = TRUE
    /\ MayStop /\ synced = Len(received)
    /\ UNCHANGED <<sent, received, synced, asked, broken>>

Break ==
    /\ ~closed /\ closed' = TRUE /\ broken' = TRUE
    /\ HandOn \/ (MayStop /\ UNCHANGED received)
    /\ UNCHANGED <<sent, synced, asked>>

Next == (\E x \in Items : Send(x)) \/ Receive \/ Sync \/ Ask \/ Close \/ Break

Spec == Init /\ [][Next]_fifoVars
===============================================================================
