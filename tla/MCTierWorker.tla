----------------------------- MODULE MCTierWorker -----------------------------
(* Small instances of TierWorker for TLC.  *)
EXTENDS TierWorker, TLC

Symmetry == Permutations(Env) \union Permutations(Callers)
===============================================================================
