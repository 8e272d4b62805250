----------------------------- MODULE MCSessions -----------------------------
(* Two logins, two refreshes and an admin, a session of up to three tokens,*)
(* a lockout after two wrong PINs, one fault.  The requests of a kind are  *)
(* interchangeable.                                                        *)
EXTENDS Sessions, TLC

Alike == Permutations(Logins) \cup Permutations(Refreshes)

=============================================================================
