---------------------------- MODULE AssetCustody ----------------------------
(***************************************************************************)
(* What the lending core promises about who has an asset: the loans that   *)
(* hold an asset (it is reserved, out, on its way back or in inspection)   *)
(* are at most one, a loan takes an asset only when nobody holds it, and a *)
(* loan that let go of its asset never holds one again.  The one way past  *)
(* the promise is an administrator's: an asset declared free while a loan  *)
(* holds it is off the books until the loans that have it are settled.     *)
(***************************************************************************)
CONSTANTS Assets, Loans

VARIABLES
    custody,  \* per asset, the loans that hold it
    released, \* the loans that held an asset once and no longer do
    offBooks  \* the assets of which nobody can say who holds them

vars == <<custody, released, offBooks>>

Init ==
    /\ custody \in [Assets -> SUBSET Loans]
    /\ \A a \in Assets : \A l, m \in custody[a] : l = m
    /\ \A a, b \in Assets : custody[a] \cap custody[b] # {} => a = b
    /\ released = {}
    /\ offBooks = {}

HoldsNothing(l) == \A a \in Assets : l \notin custody[a]

Take(a, l) ==
    /\ a \notin offBooks
    /\ custody[a] = {}
    /\ l \notin released
    /\ HoldsNothing(l)
    /\ custody' = [custody EXCEPT ![a] = {l}]
    /\ UNCHANGED <<released, offBooks>>

Release(a, l) ==
    /\ custody[a] = {l}
    /\ custody' = [custody EXCEPT ![a] = {}]
    /\ released' = released \cup {l}
    /\ UNCHANGED offBooks

Declare(a) ==
    /\ custody[a] # {}
    /\ custody' = [custody EXCEPT ![a] = {}]
    /\ offBooks' = offBooks \cup {a}
    /\ UNCHANGED released

(* A loan of an asset off the books is settled; the last one puts it back. *)
Settle(a, l) ==
    /\ a \in offBooks
    /\ l \notin released
    /\ HoldsNothing(l)
    /\ released' = released \cup {l}
    /\ offBooks' \in {offBooks, offBooks \ {a}}
    /\ UNCHANGED custody

Next ==
    \E a \in Assets :
        \/ Declare(a)
        \/ \E l \in Loans : Take(a, l) \/ Release(a, l) \/ Settle(a, l)

Spec == Init /\ [][Next]_vars

=============================================================================
