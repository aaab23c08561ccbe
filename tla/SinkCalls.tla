----------------------------- MODULE SinkCalls -----------------------------
(* What the export sinks share: the callers of the Sink trait's deliver(),  *)
(* flush() and shutdown() (tier workers, an emitting thread without a        *)
(* runtime, a closing observer) and the envelopes they hand over.            *)
EXTENDS Naturals, Sequences, FiniteSets, SequencesExt

CONSTANTS Procs, Envs
============================================================================
