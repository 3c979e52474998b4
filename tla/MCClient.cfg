SPECIFICATION FairSpec
CONSTANTS
  MaxClicks = 4
  Companies = {"c1", "c2", "c7"}
  Listings <- MCListings
  TaskOf <- MCTaskOf
  ForecastCompany = "c7"
  NoCompany = "none"
  Parameters = {"p", "q"}
  Comparisons = {"q"}
  ClassificationOperations = {"clean", "distribution"}
  ForecastOperations = {"smooth"}
  MaxRun = 1
  Samples = {"s", "t"}
  FileCapacity = 1
  RecentLimit = 1
  CommitLists <- MCCommitLists
  MaxTime = 1
  MaxFile = 2
  Visits <- MCVisits
INVARIANTS
  PagesKnowTheirRequests
  SelectionIsHonoured
  ExportsAreOneResult
  TableTellsTheLog
PROPERTIES
  SavesRepeatTheScreen
  PagesComeBack
