--------------------------- MODULE MCConnections ---------------------------
(* A process with two kiosks: two sockets of one box, one of the other.    *)
EXTENDS KioskConnections

CONSTANTS s1, s2, s3, p, kioskA, kioskB

MCSeats == {<<p, kioskA>>, <<p, kioskB>>}

MCSeatOf == [s \in {s1, s2, s3} |-> IF s = s3 THEN <<p, kioskB>> ELSE <<p, kioskA>>]

=============================================================================
