--------------------------- MODULE DeliveryLedger ---------------------------
(* What every export sink promises of an envelope handed to deliver(): it is *)
(* held, then either exported or lost, and neither is ever taken back.  How  *)
(* envelopes are batched, retried, split over partitions or paired into      *)
(* spans is left to the sinks, which implement this specification.           *)

CONSTANT Envs               \* the envelopes

VARIABLE ledger             \* where each envelope stands

Init == ledger = [e \in Envs |-> "new"]

Move(S, from, to) ==
    /\ S # {}
    /\ \A e \in S : ledger[e] = from
    /\ ledger' = [e \in Envs |-> IF e \in S THEN to ELSE ledger[e]]

Accept(e) == Move({e}, "new", "held")
Export(S) == Move(S, "held", "sent")
Lose(S)   == Move(S, "held", "lost")

Next ==
    \/ \E e \in Envs : Accept(e)
    \/ \E S \in SUBSET Envs : Export(S) \/ Lose(S)

Spec == Init /\ [][Next]_ledger
=============================================================================
