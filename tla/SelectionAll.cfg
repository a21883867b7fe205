SPECIFICATION Spec
CONSTANTS
  NumDays = 2
  ActiveMinutes = 100
  MaxBase = 3
  PerDay = 1
  Found <- FoundLists
  Excludes <- ExcludeSets
  Pins <- PinLists
  Scores = {95, 110}
  Answers <- ModelAnswers
  NoId = 0
INVARIANTS TypeOK HandsOver PlacesWanted KeptPlacesStay
PROPERTY CapKeepsBothKinds
CHECK_DEADLOCK FALSE
