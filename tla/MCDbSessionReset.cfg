SPECIFICATION Spec
CONSTANTS
  Versions = {v1, v2}
  Batches = 2
INVARIANT
  FailedResetDiscards
