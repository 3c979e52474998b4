SPECIFICATION FairSpec
CONSTANT
  MaxRequests = 4
INVARIANTS
  AnswersInOrder
  OneAtATime
  NothingStranded
PROPERTY
  RequestsAnswered
