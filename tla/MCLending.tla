----------------------------- MODULE MCLending ------------------------------
(* Instances of LendingService for TLC.                                    *)
EXTENDS LendingService, TLC

CONSTANTS k1, k2, k3, kiosk, a1, a2, u1, l1

OneKiosk  == [k \in Lockers |-> kiosk]
OwnLocker == [a \in Assets |-> IF a = a1 THEN k1 ELSE k2]

NoSeed    == [l \in {} |-> NoLoan]
OneSeed   == [l \in {l1} |-> [user |-> u1, asset |-> a1, locker |-> k1]]

RowSymmetry == Permutations(Loans) \cup Permutations(Handlers)

=============================================================================
