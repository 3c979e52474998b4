-------------------------- MODULE MCConnectionPool --------------------------
(* ConnectionPool on small instances.  Borrowers are interchangeable,      *)
(* which the safety runs use; the liveness runs do not.                    *)
EXTENDS ConnectionPool, TLC

CONSTANTS b1, b2, b3, b4, b5

TwoBorrowers   == {b1, b2}
ThreeBorrowers == {b1, b2, b3}
FourBorrowers  == {b1, b2, b3, b4}
FiveBorrowers  == {b1, b2, b3, b4, b5}

Symmetry == Permutations(Borrowers)

=============================================================================
