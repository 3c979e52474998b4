SPECIFICATION Spec
CONSTANTS
  b1 = b1
  b2 = b2
  b3 = b3
  b4 = b4
  b5 = b5
  Borrowers <- FiveBorrowers
  MinConns = 2
  MaxConns = 3
  MaxMishaps = 3
SYMMETRY Symmetry
INVARIANTS
  Bookkeeping
  Wakeups
