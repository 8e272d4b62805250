---------------------------- MODULE MCVisionBox ----------------------------
(* Two commands: loan1 is picked up, loan2 comes back right after it.      *)
EXTENDS VisionBox

CONSTANTS pickup, giveback, loan1, loan2

MCLoanOf == [o \in {pickup, giveback} |-> IF o = pickup THEN loan1 ELSE loan2]

MCTypeOf == [o \in {pickup, giveback} |-> IF o = pickup THEN "CHECKOUT" ELSE "RETURN"]

=============================================================================
