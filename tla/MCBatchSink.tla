----------------------------- MODULE MCBatchSink ------------------------------
(* Small instances of BatchSink for TLC.                                   *)
EXTENDS BatchSink

CONSTANTS e1, e2, e3, ka, kb

Of(key, size) == [key |-> key, size |-> size]

(* Two partitions, one of them of a heavy envelope; or an envelope too     *)
(* large for a frame beside one without a key.                             *)
MCLoads == { [e \in Env |-> IF e = e2 THEN Of(kb, 2) ELSE Of(ka, 1)],
             [e \in Env |-> CASE e = e1 -> Of(ka, 1)
                             [] e = e2 -> Of(kb, 9)
                             [] OTHER -> Of(NoKey, 1)] }
===============================================================================
