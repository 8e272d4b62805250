----------------------------- MODULE MCRequests -----------------------------
(* Attempts at a request to each of the four endpoints: as many within the *)
(* limit of a window as above it.  The attempts are interchangeable.       *)
EXTENDS Requests, TLC

CONSTANTS checkout, report, giveback, open

MCKeys == {checkout, report, giveback, open}

MCKindOf ==
    [k \in MCKeys |-> CASE k = checkout -> "checkout"
                        [] k = report -> "report"
                        [] k = giveback -> "return"
                        [] k = open -> "open"]

Alike == Permutations(Attempts)

=============================================================================
