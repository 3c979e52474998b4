SPECIFICATION Spec
CONSTANTS
  b1 = b1
  b2 = b2
  b3 = b3
  b4 = b4
  b5 = b5
  Borrowers <- TwoBorrowers
  MinConns = 1
  MaxConns = 1
  MaxMishaps = 2
INVARIANT
  BorrowerWakeup
