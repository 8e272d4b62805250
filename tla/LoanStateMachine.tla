-------------------------- MODULE LoanStateMachine --------------------------
(***************************************************************************)
(* The pure transition table of backend/api/app/core/state_machine.py: the *)
(* legal edges between loan statuses, and what taking an edge writes to    *)
(* the asset row and to the locker row handed to apply_transition.         *)
(* "NONE" is the status of a loan that has not been created yet (the code's *)
(* None), "KEEP" an outcome of None: the row keeps the status it has.      *)
(***************************************************************************)

LoanStatus == {"RESERVED", "ACTIVE", "OVERDUE", "RETURNING", "COMPLETED",
               "FRAUD_SUSPECTED", "PENDING_INSPECTION", "DISPUTED"}

AssetStatus == {"AVAILABLE", "BORROWED", "RESERVED", "PENDING_INSPECTION",
                "MAINTENANCE", "LOST"}

LockerStatus == {"AVAILABLE", "OCCUPIED", "MAINTENANCE", "ERROR_OPEN"}

EvaluationType == {"CHECKOUT", "RETURN"}

(* The keys of _TRANSITIONS.                                               *)
Transitions ==
    { <<"NONE", "RESERVED">>,
      <<"RESERVED", "ACTIVE">>,
      <<"RESERVED", "FRAUD_SUSPECTED">>,
      <<"RESERVED", "PENDING_INSPECTION">>,
      <<"ACTIVE", "RETURNING">>,
      <<"OVERDUE", "RETURNING">>,
      <<"RETURNING", "COMPLETED">>,
      <<"RETURNING", "FRAUD_SUSPECTED">>,
      <<"RETURNING", "PENDING_INSPECTION">>,
      <<"ACTIVE", "OVERDUE">>,
      <<"ACTIVE", "DISPUTED">>,
      <<"FRAUD_SUSPECTED", "DISPUTED">>,
      <<"PENDING_INSPECTION", "DISPUTED">>,
      <<"PENDING_INSPECTION", "ACTIVE">>,
      <<"PENDING_INSPECTION", "COMPLETED">> }

(* Mutants: a table that knows its target states only, and one in which a  *)
(* cleared suspicion puts the loan back in its borrower's hands.           *)
LegalTarget(from, to) == \E edge \in Transitions : edge[2] = to
LegalOrCleared(from, to) == <<from, to>> \in Transitions \cup {<<"FRAUD_SUSPECTED", "ACTIVE">>}

(* transition() raises InvalidLoanTransitionError on every other pair.     *)
Legal(from, to) == <<from, to>> \in Transitions

(* Mutant: every edge out of the user's hands frees the asset.             *)
AssetOutcomeFreeing(from, to) ==
    IF to \in {"RESERVED", "ACTIVE", "OVERDUE", "RETURNING"} THEN "BORROWED" ELSE "AVAILABLE"

(* outcome.asset_status of a legal edge.                                   *)
AssetOutcome(from, to) ==
    CASE to \in {"RESERVED", "ACTIVE", "OVERDUE"} -> "BORROWED"
      [] to = "RETURNING"                         -> "KEEP"
      [] to = "COMPLETED"                         -> "AVAILABLE"
      [] to = "PENDING_INSPECTION"                -> "PENDING_INSPECTION"
      [] to = "DISPUTED"                          -> "MAINTENANCE"
      [] to = "FRAUD_SUSPECTED" /\ from = "RESERVED" -> "AVAILABLE"
      [] OTHER                                    -> "PENDING_INSPECTION"

(* outcome.locker_status of a legal edge.                                  *)
LockerOutcome(from, to) ==
    CASE to \in {"RESERVED", "OVERDUE"}           -> "KEEP"
      [] to = "ACTIVE"                            -> "AVAILABLE"
      [] to \in {"RETURNING", "COMPLETED"}        -> "OCCUPIED"
      [] to \in {"PENDING_INSPECTION", "DISPUTED"} -> "MAINTENANCE"
      [] to = "FRAUD_SUSPECTED" /\ from = "RESERVED" -> "OCCUPIED"
      [] OTHER                                    -> "MAINTENANCE"

(* outcome.suspend_users: a grace-period report, not an admin's verdict.   *)
SuspendsUsers(from, to) ==
    to = "DISPUTED" /\ from \in {"ACTIVE", "FRAUD_SUSPECTED"}

(* Mutant: a missing outcome is written like any other.                    *)
AppliedBlindly(outcome, old) == outcome

(* What apply_transition leaves in a status column that held old.          *)
Applied(outcome, old) == IF outcome = "KEEP" THEN old ELSE outcome

=============================================================================
