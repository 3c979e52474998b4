SPECIFICATION Spec
CONSTANTS
  Requests = {r1, r2, r3}
  IoThreads = 2
  DbWorkers = 1
  DbQueue = 1
  AnalysisWorkers = 1
  AnalysisQueue = 1
  InferenceWorkers = 1
  InferenceQueue = 1
SYMMETRY Symmetry
INVARIANTS
  ServicesAccount
  AnswersAreTrue
  NoneForgotten
PROPERTY
  AcceptedWorkIsServed
