----------------------------- MODULE MCAuditSpool -----------------------------
(* Small instances of AuditSpool for TLC.                                  *)
EXTENDS AuditSpool

(* The default policy, and the strictest one. *)
MCPolicies == { [fsync_mode |-> "per_batch", on_failure |-> "panic"],
                [fsync_mode |-> "per_record", on_failure |-> "abort"] }
===============================================================================
