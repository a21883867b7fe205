SPECIFICATION MCSpec
CONSTANTS
  MaxPlaces = 4
  MaxDay = 2
  Map = {0, 10, 40}
  Straight <- Line
  Ride <- Line
  Given <- GivenLists
  Stays = {5, 30}
  Start = 0
  End = 60
  Buffer = 5
  Floor = 10
  KeepMin = 2
  Width = 3
  Size = 5
INVARIANTS Consistent Walkable CallersPlacesKept TrimsOnlyWhatOverflows
INVARIANTS TourVisitsAll NoImprovingReversal
PROPERTY FittingDaysUntouched FollowsControl
CHECK_DEADLOCK FALSE
