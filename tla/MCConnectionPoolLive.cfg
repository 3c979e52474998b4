SPECIFICATION FairSpec
CONSTANTS
  b1 = b1
  b2 = b2
  b3 = b3
  b4 = b4
  b5 = b5
  Borrowers <- ThreeBorrowers
  MinConns = 1
  MaxConns = 2
  MaxMishaps = 2
PROPERTIES
  WaitersProceed
  MinimumRestored
  OwnerProceeds
