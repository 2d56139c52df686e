SPECIFICATION Spec
CONSTANTS
  Users = {"1", "2", "3"}
  MaxEpoch = 3
  NumProviders = 2
  Filters = 2
  Readers = {"1", "2"}
  MaxVersion = 1
  NumChoices = 3
  Delays = {0, 100, 300}
  Tolerance = 150
  NumNodes = 2
  Dials = {"1", "2"}
  MaxFailedTimes = 2
  MaxTurns = 3
  Names = {"x", "y"}
  Asking = {"api"}
  Slots = {"1"}
  Manual = {"2"}
  HistoryNum = 1
  MaxRemote = 3
  Broken = {2}
  Updaters = {"1"}
  MaxCrashes = 1
INVARIANTS
  ResetIsFinal
  ListNotStale
  RecordsAreRight
PROPERTIES
  
  
  ChoiceSettles
