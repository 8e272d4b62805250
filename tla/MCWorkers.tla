----------------------------- MODULE MCWorkers -----------------------------
(* Two processes and two loans, both in one batch, two faults.             *)
EXTENDS Workers

=============================================================================
