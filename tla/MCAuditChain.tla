---------------------------- MODULE MCAuditChain ----------------------------
(* Two transactions, logs of up to three rows, two kinds of events.        *)
EXTENDS AuditChain, TLC

Interchangeable == Permutations(Writers) \cup Permutations(Payloads)

=============================================================================
