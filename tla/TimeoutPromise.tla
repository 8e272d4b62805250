--------------------------- MODULE TimeoutPromise ---------------------------
(***************************************************************************)
(* What the workers promise the rest of the system, whatever happens to    *)
(* the processes that run them: a loan whose time is up is moved on once,  *)
(* unless somebody else moves it on first, and it is not left waiting.     *)
(* LendingService takes this for granted of TimeoutReserved and            *)
(* TimeoutReturning; Workers shows it.                                     *)
(***************************************************************************)
CONSTANTS Loans

VARIABLE loan  \* per loan: running, due, moved on by a worker or by another

Init == loan = [l \in Loans |-> "running"]

FallsDue(l) == loan[l] = "running" /\ loan' = [loan EXCEPT ![l] = "due"]

TimeOut(l) == loan[l] = "due" /\ loan' = [loan EXCEPT ![l] = "timed out"]

Settle(l) == loan[l] \in {"running", "due"} /\ loan' = [loan EXCEPT ![l] = "settled"]

Next == \E l \in Loans : FallsDue(l) \/ TimeOut(l) \/ Settle(l)

Spec == Init /\ [][Next]_loan /\ \A l \in Loans : WF_loan(TimeOut(l))

=============================================================================
