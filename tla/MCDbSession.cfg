SPECIFICATION Spec
CONSTANTS
  Versions = {v1, v2}
  Batches = 2
SYMMETRY Symmetry
INVARIANTS
  AllOrNothing
  PooledSessionIsClean
PROPERTY
  AnswersMatchStore
